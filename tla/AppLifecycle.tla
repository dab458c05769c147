---------------------------- MODULE AppLifecycle ----------------------------
(***************************************************************************)
(* The start and the end of the process: main and its signals,             *)
(* App.Startup and App.Shutdown, Server.Run, acceptConnections and Stop,   *)
(* Client.Run and Stop, and the two WaitGroups between them.  What the     *)
(* handlers and the client do with messages is in Relay.                   *)
(*                                                                         *)
(* main is the control point of the main goroutine:                        *)
(*   "boot"      before NewApp, no signal is caught                        *)
(*   "register"  NewApp has called signal.NotifyContext                    *)
(*   "waiting"   signal.Notify was called, at <-sigChan                    *)
(*   "cancel", "stop", "close", "await", "join"   in Shutdown              *)
(*   "exited"    main has returned                                         *)
(*   "killed"    by a signal nobody caught                                 *)
(*   "crashed"   by a panic nobody recovered                               *)
(* conn[c] is a connection of a panel:                                     *)
(*   "away"      there is none                                             *)
(*   "queued"    made, and not yet returned by Accept                      *)
(*   "inhand"    returned by Accept, not yet counted by s.wg.Add           *)
(*   "serving"   its handler runs                                          *)
(*   "ending"    its handler is in s.wg.Done, which set the counter to 0   *)
(*               and is to release the waiter                              *)
(*   "leaked"    s.wg.Add panicked: open, and nobody's                     *)
(* waiter is the goroutine of Stop in s.wg.Wait: "parked" while it sleeps, *)
(* "released" when it was woken and has yet to run.                        *)
(***************************************************************************)
EXTENDS Integers, FiniteSets

CONSTANT Conns   \* connections of panels

VARIABLES
  main, sigChan,       \* the main goroutine, the signals buffered for it
  ctxDone,             \* the context of NotifyContext, parent of the others
  startup,             \* the goroutine that runs Startup
  appWg,               \* App.wg
  serverRun, clientRun,  \* the goroutines of Server.Run and Client.Run
  listener,            \* Server.listener
  acceptor,            \* the goroutine of acceptConnections
  conn,
  counted,             \* Server.wg: the connections in its counter
  waiter

app == <<main, sigChan, ctxDone, startup, appWg>>
server == <<listener, acceptor, conn, counted, waiter>>
vars == <<app, serverRun, clientRun, server>>

Over == {"exited", "killed", "crashed"}
Alive == main \notin Over

TypeOK ==
  /\ main \in {"boot", "register", "waiting", "cancel", "stop", "close", "await",
               "join"} \cup Over
  /\ sigChan \in 0 .. 1
  /\ ctxDone \in BOOLEAN
  /\ startup \in {"none", "spawned", "done"}
  /\ appWg \in 0 .. 2
  /\ serverRun \in {"none", "begin", "listen", "serving", "over"}
  /\ clientRun \in {"none", "begin", "over"}
  /\ listener \in {"none", "open", "closed"}
  /\ acceptor \in {"none", "accepting", "inhand", "over"}
  /\ conn \in [Conns -> {"away", "queued", "inhand", "serving", "ending", "leaked"}]
  /\ counted \subseteq Conns
  /\ waiter \in {"none", "begin", "parked", "released", "returned"}

Init ==
  /\ main = "boot"
  /\ sigChan = 0
  /\ ctxDone = FALSE
  /\ startup = "none"
  /\ appWg = 0
  /\ serverRun = "none"
  /\ clientRun = "none"
  /\ listener = "none"
  /\ acceptor = "none"
  /\ conn = [c \in Conns |-> "away"]
  /\ counted = {}
  /\ waiter = "none"

-----------------------------------------------------------------------------
(* Signals.  NotifyContext catches all three until cancelfunc is called,   *)
(* Notify catches two of them to the end.                                  *)

ContextCatches == main \in {"register", "waiting", "cancel"}
MainCatches == main \notin {"boot", "register"}

\* SIGINT or SIGTERM.  A full channel drops it.
Interrupt ==
  /\ Alive
  /\ IF ContextCatches \/ MainCatches
     THEN /\ ctxDone' = (ctxDone \/ ContextCatches)
          /\ sigChan' = IF MainCatches THEN 1 ELSE sigChan
          /\ UNCHANGED main
     ELSE main' = "killed" /\ UNCHANGED <<ctxDone, sigChan>>
  /\ UNCHANGED <<startup, appWg, serverRun, clientRun, server>>

\* SIGQUIT, which main does not ask for.
Quit ==
  /\ Alive
  /\ IF ContextCatches
     THEN ctxDone' = TRUE /\ UNCHANGED main
     ELSE main' = "killed" /\ UNCHANGED ctxDone
  /\ UNCHANGED <<sigChan, startup, appWg, serverRun, clientRun, server>>

-----------------------------------------------------------------------------
(* main.                                                                   *)

\* NewApp, and the goroutine for Startup.
NewApp ==
  /\ main = "boot"
  /\ main' = "register"
  /\ startup' = "spawned"
  /\ UNCHANGED <<sigChan, ctxDone, appWg, serverRun, clientRun, server>>

Register ==
  /\ main = "register"
  /\ main' = "waiting"
  /\ UNCHANGED <<sigChan, ctxDone, startup, appWg, serverRun, clientRun, server>>

ReceiveSignal ==
  /\ main = "waiting"
  /\ sigChan = 1
  /\ sigChan' = 0
  /\ main' = "cancel"
  /\ UNCHANGED <<ctxDone, startup, appWg, serverRun, clientRun, server>>

\* a.cancelfunc().
Cancel ==
  /\ main = "cancel"
  /\ ctxDone' = TRUE
  /\ main' = "stop"
  /\ UNCHANGED <<sigChan, startup, appWg, serverRun, clientRun, server>>

\* Server.Stop does nothing while Run has not set s.cancel.
StopServer ==
  /\ main = "stop"
  /\ main' = IF serverRun \in {"none", "begin"} THEN "join" ELSE "close"
  /\ UNCHANGED <<sigChan, ctxDone, startup, appWg, serverRun, clientRun, server>>

\* The listener, if there is one, is gone, and who has not been accepted with it.
CloseListener ==
  /\ listener' = IF listener = "open" THEN "closed" ELSE listener
  /\ conn' = [c \in Conns |-> IF conn[c] = "queued" /\ listener = "open" THEN "away"
                              ELSE conn[c]]

\* Mutant: the waiting comes first, and the listener is closed after it.
StopListener_Later ==
  /\ main = "close"
  /\ \/ waiter = "none" /\ waiter' = "begin" /\ UNCHANGED <<main, listener, conn>>
     \/ /\ waiter = "returned"
        /\ main' = "await"
        /\ CloseListener
        /\ UNCHANGED waiter
  /\ UNCHANGED <<sigChan, ctxDone, startup, appWg, serverRun, clientRun, acceptor, counted>>

\* s.listener.Close() and the goroutine that waits for the handlers.
StopListener ==
  /\ main = "close"
  /\ main' = "await"
  /\ CloseListener
  /\ waiter' = "begin"
  /\ UNCHANGED <<sigChan, ctxDone, startup, appWg, serverRun, clientRun, acceptor, counted>>

\* The handlers are through, or five seconds are over.  Client.Stop follows,
\* which closes the connection to the station.  It reads the client's conn with
\* no lock (client.go:160-161, written at :112 and :119): it may find none, or an
\* old one, and leave it open.  That is left out: the cancelled context ends
\* the client's loop without it, and ClientEnds waits for nothing else.
AwaitConns ==
  /\ main = "await"
  /\ main' = "join"
  /\ UNCHANGED <<sigChan, ctxDone, startup, appWg, serverRun, clientRun, server>>

\* Mutant: nobody waits for the two goroutines.
Join_NoWait ==
  /\ main = "join"
  /\ main' = "exited"
  /\ UNCHANGED <<sigChan, ctxDone, startup, appWg, serverRun, clientRun, server>>

\* a.wg.Wait(), the end of Shutdown and of main.
Join ==
  /\ main = "join"
  /\ appWg = 0
  /\ main' = "exited"
  /\ UNCHANGED <<sigChan, ctxDone, startup, appWg, serverRun, clientRun, server>>

-----------------------------------------------------------------------------
(* Startup and the two goroutines it starts.                               *)

Startup ==
  /\ Alive
  /\ startup = "spawned"
  /\ startup' = "done"
  /\ appWg' = appWg + 2
  /\ serverRun' = "begin"
  /\ clientRun' = "begin"
  /\ UNCHANGED <<main, sigChan, ctxDone, server>>

\* Run sets s.cancel.
ServerBegins ==
  /\ Alive
  /\ serverRun = "begin"
  /\ serverRun' = "listen"
  /\ UNCHANGED <<app, clientRun, server>>

\* net.Listen succeeds and the accepting goroutine starts.
Listen ==
  /\ Alive
  /\ serverRun = "listen"
  /\ serverRun' = "serving"
  /\ listener' = "open"
  /\ acceptor' = "accepting"
  /\ UNCHANGED <<app, clientRun, conn, counted, waiter>>

\* Mutant: Done is called at the end of Run, and an early return skips it.
ListenFails_NotDone ==
  /\ Alive
  /\ serverRun = "listen"
  /\ serverRun' = "over"
  /\ UNCHANGED <<app, clientRun, server>>

\* Run returns, and the process goes on without its server.
ListenFails ==
  /\ Alive
  /\ serverRun = "listen"
  /\ serverRun' = "over"
  /\ appWg' = appWg - 1
  /\ UNCHANGED <<main, sigChan, ctxDone, startup, clientRun, server>>

\* Mutant: Done is called by Run and deferred as well.
ServerEnds_Twice ==
  /\ Alive
  /\ serverRun = "serving"
  /\ ctxDone
  /\ serverRun' = "over"
  /\ appWg' = appWg - 2
  /\ UNCHANGED <<main, sigChan, ctxDone, startup, clientRun, server>>

\* Run closes the UI channels (see DeviceFeed) and returns.
ServerEnds ==
  /\ Alive
  /\ serverRun = "serving"
  /\ ctxDone
  /\ serverRun' = "over"
  /\ appWg' = appWg - 1
  /\ UNCHANGED <<main, sigChan, ctxDone, startup, clientRun, server>>

\* Run does not wait for its loop.
ClientEnds ==
  /\ Alive
  /\ clientRun = "begin"
  /\ ctxDone
  /\ clientRun' = "over"
  /\ appWg' = appWg - 1
  /\ UNCHANGED <<main, sigChan, ctxDone, startup, serverRun, server>>

-----------------------------------------------------------------------------
(* Connections, and Server.wg.                                             *)

Connect(c) ==
  /\ Alive
  /\ conn[c] = "away"
  /\ listener = "open"
  /\ conn' = [conn EXCEPT ![c] = "queued"]
  /\ UNCHANGED <<app, serverRun, clientRun, listener, acceptor, counted, waiter>>

Accept(c) ==
  /\ Alive
  /\ acceptor = "accepting"
  /\ conn[c] = "queued"
  /\ acceptor' = "inhand"
  /\ conn' = [conn EXCEPT ![c] = "inhand"]
  /\ UNCHANGED <<app, serverRun, clientRun, listener, counted, waiter>>

\* s.wg.Add(1) and the goroutine of the handler.  Add panics if the counter is
\* 0 while somebody waits; acceptConnections recovers and closes the listener.
StartHandler(c) ==
  /\ Alive
  /\ acceptor = "inhand"
  /\ conn[c] = "inhand"
  /\ counted' = counted \cup {c}
  /\ IF counted = {} /\ waiter = "parked"
     THEN /\ acceptor' = "over"
          /\ listener' = "closed"
          /\ conn' = [d \in Conns |-> IF d = c THEN "leaked"
                                      ELSE IF conn[d] = "queued" THEN "away"
                                      ELSE conn[d]]
     ELSE /\ acceptor' = "accepting"
          /\ conn' = [conn EXCEPT ![c] = "serving"]
          /\ UNCHANGED listener
  /\ UNCHANGED <<app, serverRun, clientRun, waiter>>

\* Accept fails on the closed listener, and the context is done by then.
AcceptEnds ==
  /\ Alive
  /\ acceptor = "accepting"
  /\ listener = "closed"
  /\ ctxDone
  /\ acceptor' = "over"
  /\ UNCHANGED <<app, serverRun, clientRun, listener, conn, counted, waiter>>

\* The handler returns, because the panel hung up or because of the context,
\* and s.wg.Done counts down.
HandlerEnds(c) ==
  /\ Alive
  /\ conn[c] = "serving"
  /\ counted' = counted \ {c}
  /\ conn' = [conn EXCEPT ![c] =
       IF counted = {c} /\ waiter = "parked" THEN "ending" ELSE "away"]
  /\ UNCHANGED <<app, serverRun, clientRun, listener, acceptor, waiter>>

\* Done releases the waiter.  If somebody was added meanwhile it panics, past
\* the handler's recover, or resets the counter, whichever it does first.
ReleaseWaiter(c) ==
  /\ Alive
  /\ conn[c] = "ending"
  /\ \/ /\ waiter' = "released"
        /\ counted' = {}
        /\ conn' = [conn EXCEPT ![c] = "away"]
        /\ UNCHANGED main
     \/ /\ counted # {}
        /\ main' = "crashed"
        /\ UNCHANGED <<conn, counted, waiter>>
  /\ UNCHANGED <<sigChan, ctxDone, startup, appWg, serverRun, clientRun, listener, acceptor>>

\* s.wg.Wait().
WaitBegins ==
  /\ Alive
  /\ waiter = "begin"
  /\ waiter' = IF counted = {} THEN "returned" ELSE "parked"
  /\ UNCHANGED <<app, serverRun, clientRun, listener, acceptor, conn, counted>>

\* Wait panics if somebody was added before it could return, and nobody
\* recovers in its goroutine.
WaitReturns ==
  /\ Alive
  /\ waiter = "released"
  /\ IF counted = {} THEN waiter' = "returned" /\ UNCHANGED main
                     ELSE main' = "crashed" /\ UNCHANGED waiter
  /\ UNCHANGED <<sigChan, ctxDone, startup, appWg, serverRun, clientRun, listener,
                 acceptor, conn, counted>>

-----------------------------------------------------------------------------
Main ==
  \/ NewApp \/ Register \/ ReceiveSignal
  \/ Cancel \/ StopServer \/ StopListener \/ AwaitConns \/ Join

Runs ==
  \/ Startup
  \/ ServerBegins \/ Listen \/ ListenFails \/ ServerEnds
  \/ ClientEnds

Connections ==
  \/ \E c \in Conns : Connect(c) \/ Accept(c) \/ StartHandler(c)
  \/ AcceptEnds
  \/ \E c \in Conns : HandlerEnds(c) \/ ReleaseWaiter(c)
  \/ WaitBegins \/ WaitReturns

Signals == Interrupt \/ Quit

Next == Signals \/ Main \/ Runs \/ Connections

Spec == Init /\ [][Next]_vars

\* Goroutines are scheduled, and the timer of AwaitConns fires.
FairSpec ==
  /\ Spec
  /\ WF_vars(Main)
  /\ WF_vars(Startup)
  /\ WF_vars(ServerBegins \/ Listen \/ ListenFails \/ ServerEnds)
  /\ WF_vars(ClientEnds)

-----------------------------------------------------------------------------
(* Properties.                                                             *)

\* Once Startup has been through, main does not return before both goroutines
\* it started have: they are counted before they exist.
JoinedRuns ==
  main = "exited" /\ startup = "done" => serverRun = "over" /\ clientRun = "over"

\* When Stop has seen "all connections closed" with the listener closed, at
\* most one is left: the one that acceptConnections had in hand, uncounted.
\* All others have been waited for.
GracefulStop ==
  waiter = "returned" /\ listener = "closed" =>
    \A c, d \in Conns :
      {conn[c], conn[d]} \subseteq {"queued", "inhand", "serving", "ending"} => c = d

\* A signal that has reached main ends the process, wherever the start has got
\* to, whatever the panels do and even if the server could not listen.
SignalStops == sigChan = 1 ~> main \in Over
=============================================================================
