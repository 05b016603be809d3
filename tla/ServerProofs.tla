---------------------------- MODULE ServerProofs -----------------------------
(***************************************************************************)
(* Proofs about Server, for every finite set of connections, any number of *)
(* threads, and both run modes.                                            *)
(***************************************************************************)
EXTENDS Server, FiniteSetTheorems, TLAPS

\* run() begins with nothing registered, accepted or stopped.
LEMMA InitServerInv == Init => ServerInv
<1> SUFFICES ASSUME Init PROVE ServerInv
  OBVIOUS
<1>1. TypeOK
  BY DEF Init, TypeOK, ListenerRuns, ShutdownRuns, AsyncOps, Completed, Ports
<1>2. ContextInv /\ ShutdownInv /\ TableInv /\ HandshakeContextReady /\ NoSessionEscapesShutdown
  BY DEF Init, ContextInv, ShutdownInv, TableInv, HandshakeContextReady, NoSessionEscapesShutdown
<1>3. AcceptInv
  BY DEF Init, AcceptInv, Holds, Ports
<1>4. QED
  BY <1>1, <1>2, <1>3 DEF ServerInv

\* What a handler of connection c may do to the variables of the connections.
Handled(c) ==
  /\ conn' \in [Conns -> {"idle", "accepted", "peeking", "handshaking", "serving", "closed"}]
  /\ registered' \in SUBSET (Conns \X {"handshaking", "serving"})
  /\ contextOnce' \in BOOLEAN
  /\ contextReady' \in BOOLEAN
  /\ contextOnce' => contextReady'
  /\ contextReady => contextReady'
  /\ registered \subseteq registered'
  /\ \A d \in Conns \ {c} : conn'[d] = conn[d]
  /\ conn'[c] \in {"peeking", "handshaking", "serving", "closed"}
  /\ conn'[c] = "handshaking" => contextReady'
  /\ conn'[c] = "serving" => <<c, "serving">> \in registered'
  /\ conn'[c] \in {"handshaking", "serving"} => ~pending

\* register_session keeps the table and refuses whoever comes after the
\* shutdown's begin.
LEMMA RegisterHandled ==
  ASSUME ServerInv, NEW c \in Conns, NEW kind \in {"handshaking", "serving"}, Register(c, kind),
         contextOnce' \in BOOLEAN, contextReady' \in BOOLEAN, contextOnce' => contextReady',
         contextReady => contextReady', kind = "handshaking" => contextReady'
  PROVE  Handled(c)
  BY DEF ServerInv, TypeOK, Register, Handled

\* launch_http_session registers the session or drops it.
LEMMA LaunchHandled ==
  ASSUME ServerInv, NEW c \in Conns, LaunchHttpSession(c)
  PROVE  Handled(c)
  BY RegisterHandled DEF ServerInv, TypeOK, ContextInv, LaunchHttpSession

\* A connection that a handler closes.
LEMMA ClosedHandled ==
  ASSUME ServerInv, NEW c \in Conns, conn' = [conn EXCEPT ![c] = "closed"],
         UNCHANGED <<registered, contextOnce, contextReady>>
  PROVE  Handled(c)
  BY DEF ServerInv, TypeOK, ContextInv, Handled

\* ssl_handshake begins a handshake on a context that is ready, or drops the
\* connection.
LEMMA HandshakeHandled ==
  ASSUME ServerInv, NEW c \in Conns, SslHandshake(c)
  PROVE  Handled(c)
<1> USE DEF SslHandshake
<1>1. CASE conn' = [conn EXCEPT ![c] = "closed"] /\ UNCHANGED <<registered, contextOnce, contextReady>>
  BY <1>1, ClosedHandled
<1>2. CASE contextOnce' /\ contextReady' /\ Register(c, "handshaking")
  BY <1>2, RegisterHandled
<1>3. CASE contextOnce /\ Register(c, "handshaking") /\ UNCHANGED <<contextOnce, contextReady>>
  BY <1>3, RegisterHandled DEF ServerInv, TypeOK, ContextInv
<1>4. QED
  BY <1>1, <1>2, <1>3

\* dispatch_http_request, or the handler of the https listener.
LEMMA DispatchHandled ==
  ASSUME ServerInv, NEW p \in Ports, NEW c \in Conns, Dispatch(p, c)
  PROVE  Handled(c)
<1>1. CASE SslHandshake(c)
  BY <1>1, HandshakeHandled
<1>2. CASE LaunchHttpSession(c)
  BY <1>2, LaunchHandled
<1>3. CASE /\ conn' = [conn EXCEPT ![c] = "peeking"]
           /\ UNCHANGED <<registered, contextOnce, contextReady>>
  BY <1>3 DEF ServerInv, TypeOK, ContextInv, Handled
<1>4. QED
  BY <1>1, <1>2, <1>3 DEF Dispatch

\* A handler of one connection that leaves the shutdown alone preserves what is
\* said of the connections.
LEMMA HandledKeeps ==
  ASSUME ServerInv, NEW c \in Conns, Handled(c), UNCHANGED shutdownVars
  PROVE  ContextInv' /\ ShutdownInv' /\ TableInv' /\ HandshakeContextReady'
           /\ NoSessionEscapesShutdown'
<1> USE DEF ServerInv, Handled, shutdownVars
<1>1. ContextInv' /\ ShutdownInv'
  BY DEF ContextInv, ShutdownInv
<1>2. TableInv'
  BY DEF TableInv
<1>3. HandshakeContextReady'
  BY DEF HandshakeContextReady
<1>4. NoSessionEscapesShutdown'
  BY DEF NoSessionEscapesShutdown, ShutdownInv
<1>5. QED
  BY <1>1, <1>2, <1>3, <1>4

\* A step of a listener or of the clients that touches no session.
LEMMA ListenKeeps ==
  ASSUME ServerInv, UNCHANGED <<pending, shutdown, toStop, stopped, connVars>>,
         signal' = signal \/ signal' = Cancelled(signal)
  PROVE  ContextInv' /\ ShutdownInv' /\ TableInv' /\ HandshakeContextReady'
           /\ NoSessionEscapesShutdown'
  BY DEF ServerInv, connVars, ContextInv, ShutdownInv, TableInv, HandshakeContextReady,
         NoSessionEscapesShutdown, Cancelled

\* The handlers of the connections, with what the listener's handler adds.
LEMMA SessionsKeep ==
  ASSUME ServerInv, NEW c \in Conns, Handled(c), UNCHANGED <<listenVars, shutdownVars, misused>>,
         conn[c] # "accepted"
  PROVE  ServerInv'
<1>1. TypeOK'
  BY DEF ServerInv, TypeOK, Handled, listenVars, shutdownVars
<1>2. AcceptInv'
  BY DEF ServerInv, AcceptInv, TypeOK, Handled, listenVars, Ports
<1>3. QED
  BY <1>1, <1>2, HandledKeeps DEF ServerInv

\* What becomes of an accepted connection after the accept.
LEMMA SessionsStep ==
  ASSUME ServerInv, Sessions
  PROVE  ServerInv'
<1>1. ASSUME NEW c \in Conns, OnPeeked(c) PROVE ServerInv'
  <2>1. Handled(c)
    BY <1>1, HandshakeHandled, LaunchHandled, ClosedHandled DEF OnPeeked
  <2>2. QED
    BY <1>1, <2>1, SessionsKeep DEF OnPeeked
<1>2. ASSUME NEW c \in Conns, OnHandshaken(c) PROVE ServerInv'
  <2>1. Handled(c)
    BY <1>2, LaunchHandled, ClosedHandled DEF OnHandshaken
  <2>2. QED
    BY <1>2, <2>1, SessionsKeep DEF OnHandshaken
<1>3. ASSUME NEW c \in Conns, SessionEnds(c) PROVE ServerInv'
  <2>1. Handled(c)
    BY <1>3, ClosedHandled DEF SessionEnds
  <2>2. QED
    BY <1>3, <2>1, SessionsKeep DEF SessionEnds
<1>4. QED
  BY <1>1, <1>2, <1>3 DEF Sessions

\* A client connects, or accept() fails.
LEMMA ClientsStep ==
  ASSUME ServerInv, Clients
  PROVE  ServerInv'
<1> USE DEF ServerInv, TypeOK, Ports
<1>1. ASSUME NEW p \in Ports, Connect(p) PROVE ServerInv'
  <2> USE <1>1 DEF Connect
  <2>1. TypeOK'
    BY DEF AsyncOps, Completed, shutdownVars
  <2>2. AcceptInv'
    BY DEF AcceptInv, Holds
  <2>3. ContextInv' /\ ShutdownInv'
    BY DEF ContextInv, ShutdownInv, shutdownVars
  <2>4. TableInv' /\ HandshakeContextReady' /\ NoSessionEscapesShutdown'
    BY DEF TableInv, HandshakeContextReady, NoSessionEscapesShutdown, shutdownVars
  <2>5. QED
    BY <2>1, <2>2, <2>3, <2>4
<1>2. ASSUME NEW p \in Ports, AcceptFails(p) PROVE ServerInv'
  <2> USE <1>2 DEF AcceptFails
  <2>1. TypeOK'
    BY DEF AsyncOps, Completed, shutdownVars, connVars
  <2>2. AcceptInv'
    BY DEF AcceptInv, Holds, connVars
  <2>3. QED
    BY <2>1, <2>2, ListenKeeps DEF shutdownVars
<1>3. QED
  BY <1>1, <1>2 DEF Clients

\* A listener accepts, dispatches, or ends and uninstalls everything.
LEMMA ListenerStep ==
  ASSUME ServerInv, NEW p \in Ports, Listener(p)
  PROVE  ServerInv'
<1> USE DEF Goto, shutdownVars, connVars
<1>1. CASE ListenerBegins(p)
  <2>1. TypeOK'
    BY <1>1 DEF ListenerBegins, ServerInv, TypeOK, ListenerRuns, AsyncOps, Completed
  <2>2. AcceptInv'
    BY <1>1 DEF ListenerBegins, ServerInv, TypeOK, AcceptInv, Holds, Ports
  <2>3. QED
    BY <1>1, <2>1, <2>2, ListenKeeps DEF ListenerBegins, ServerInv
<1>2. CASE CheckPending(p)
  <2>1. TypeOK'
    BY <1>2 DEF CheckPending, ServerInv, TypeOK, ListenerRuns, AsyncOps, Completed
  <2>2. AcceptInv'
    BY <1>2 DEF CheckPending, ServerInv, TypeOK, AcceptInv, Holds, Ports
  <2>3. QED
    BY <1>2, <2>1, <2>2, ListenKeeps DEF CheckPending, ServerInv
<1>3. CASE AsyncAccept(p)
  <2>1. TypeOK'
    BY <1>3 DEF AsyncAccept, ServerInv, TypeOK, ListenerRuns, AsyncOps, Completed
  <2>2. AcceptInv'
    BY <1>3 DEF AsyncAccept, ServerInv, TypeOK, AcceptInv, Holds, Ports
  <2>3. QED
    BY <1>3, <2>1, <2>2, ListenKeeps DEF AsyncAccept, ServerInv
<1>4. CASE OnAborted(p)
  <2>1. TypeOK'
    BY <1>4 DEF OnAborted, ServerInv, TypeOK, ListenerRuns, AsyncOps, Completed
  <2>2. AcceptInv'
    BY <1>4 DEF OnAborted, ServerInv, TypeOK, AcceptInv, Holds, Ports
  <2>3. QED
    BY <1>4, <2>1, <2>2, ListenKeeps DEF OnAborted, ServerInv
<1>5. CASE OnAcceptError(p)
  <2>1. TypeOK'
    BY <1>5 DEF OnAcceptError, ServerInv, TypeOK, ListenerRuns, AsyncOps, Completed
  <2>2. AcceptInv'
    BY <1>5 DEF OnAcceptError, ServerInv, TypeOK, AcceptInv, Holds, Ports
  <2>3. QED
    BY <1>5, <2>1, <2>2, ListenKeeps DEF OnAcceptError, ServerInv
<1>6. CASE CancelSignals(p)
  <2>1. TypeOK'
    BY <1>6 DEF CancelSignals, ServerInv, TypeOK, ListenerRuns, AsyncOps, Completed, Cancelled
  <2>2. AcceptInv'
    BY <1>6 DEF CancelSignals, ServerInv, TypeOK, AcceptInv, Holds, Ports
  <2>3. QED
    BY <1>6, <2>1, <2>2, ListenKeeps DEF CancelSignals, ServerInv
<1>7. CASE OnAccepted(p)
  <2>1. CASE accepted[p] = {}
    BY <1>7, <2>1 DEF OnAccepted
  <2>2. ASSUME NEW c \in accepted[p], Dispatch(p, c) PROVE ServerInv'
    <3>1. c \in Conns /\ Handled(c)
      BY <2>2, DispatchHandled DEF ServerInv, TypeOK
    <3>2. TypeOK'
      BY <1>7, <3>1 DEF OnAccepted, Handled, ServerInv, TypeOK, ListenerRuns, AsyncOps
    <3>3. AcceptInv'
      BY <1>7, <2>2, <3>1 DEF OnAccepted, Handled, ServerInv, TypeOK, AcceptInv, Holds, Ports, Completed
    <3>4. QED
      BY <1>7, <3>1, <3>2, <3>3, HandledKeeps DEF OnAccepted, ServerInv
  <2>3. QED
    BY <1>7, <2>2 DEF OnAccepted
<1>8. CASE UninstallListeners(p)
  <2> USE DEF listenVars
  <2>1. ASSUME NEW q \in Ports, NEW test \in {"testHttp", "testHttps"},
               NEW open \in {"openHttp", "openHttps"},
               NEW close \in {"closeHttp", "closeHttps"}, NEW next \in {"testHttps", "ended"},
               UninstallListener(p, q, test, open, close, next)
        PROVE  ServerInv'
    <3>1. TypeOK'
      <4>1. listener' \in [Ports -> ListenerRuns \union {"spawned", "accepting", "ended"}]
        BY <2>1 DEF UninstallListener, TestMember, TestOpen, CloseMember, Crash, ServerInv, TypeOK, ListenerRuns
      <4>2. /\ acceptor' \in [Ports -> {"open", "closed", "destroyed"}]
            /\ accept' \in [Ports -> AsyncOps]
            /\ misused' \in {"no", "unnoticed", "crash"}
        <5>1. CASE UNCHANGED <<acceptor, accept>>
          BY <2>1, <5>1 DEF UninstallListener, TestMember, TestOpen, CloseMember, Crash, ServerInv, TypeOK
        <5>2. CASE Close(q)
          BY <2>1, <5>2 DEF UninstallListener, TestMember, TestOpen, CloseMember, Crash, Close, Cancelled, ServerInv, TypeOK, AsyncOps, Completed
        <5>3. QED
          BY <2>1, <5>1, <5>2 DEF UninstallListener, TestMember, TestOpen, CloseMember, Crash
      <4>3. QED
        BY <2>1, <4>1, <4>2 DEF UninstallListener, TestMember, TestOpen, CloseMember, Crash, ServerInv, TypeOK
    <3>2. AcceptInv'
      BY <2>1 DEF UninstallListener, TestMember, TestOpen, CloseMember, Crash, Close, Cancelled, ServerInv, TypeOK, AcceptInv, Holds, Ports
    <3>3. QED
      BY <2>1, <3>1, <3>2, ListenKeeps DEF UninstallListener, TestMember, TestOpen, CloseMember, Crash, ServerInv
  <2>2. QED
    BY <1>8, <2>1 DEF UninstallListeners, Ports
<1>9. QED
  BY <1>1, <1>2, <1>3, <1>4, <1>5, <1>6, <1>7, <1>8 DEF Listener

\* The signal, its handler, and the steps of schedule_shutdown.
LEMMA ShutdownStep ==
  ASSUME ServerInv, SignalArrives \/ SignalHandler \/ Shutdown
  PROVE  ServerInv'
<1> USE DEF ServerInv, TypeOK, listenVars, connVars
<1>1. CASE SignalArrives
  <2>1. TypeOK'
    BY <1>1 DEF SignalArrives, ShutdownRuns, AsyncOps, Completed
  <2>2. AcceptInv'
    BY <1>1 DEF SignalArrives, AcceptInv
  <2>3. QED
    BY <1>1, <2>1, <2>2 DEF SignalArrives, ContextInv, ShutdownInv, TableInv, HandshakeContextReady,
                          NoSessionEscapesShutdown
<1>2. CASE OnSignal
  <2>1. TypeOK'
    BY <1>2 DEF OnSignal, ShutdownRuns, AsyncOps, Completed
  <2>2. AcceptInv'
    BY <1>2 DEF OnSignal, AcceptInv
  <2>3. QED
    BY <1>2, <2>1, <2>2 DEF OnSignal, ContextInv, ShutdownInv, TableInv, HandshakeContextReady,
                          NoSessionEscapesShutdown
<1>3. CASE OnSignalCancelled
  <2>1. TypeOK'
    BY <1>3 DEF OnSignalCancelled, ShutdownRuns, AsyncOps, Completed
  <2>2. AcceptInv'
    BY <1>3 DEF OnSignalCancelled, AcceptInv
  <2>3. QED
    BY <1>3, <2>1, <2>2 DEF OnSignalCancelled, ContextInv, ShutdownInv, TableInv, HandshakeContextReady,
                          NoSessionEscapesShutdown
<1>4. CASE Snapshot
  <2>1. TypeOK'
    <3>1. registered' \subseteq registered /\ toStop' = {s[1] : s \in registered'}
      BY <1>4 DEF Snapshot
    <3>2. toStop' \in SUBSET Conns
      BY <3>1
    <3>3. stopped' = {}
      BY <1>4 DEF Snapshot, ShutdownInv
    <3>4. QED
      BY <1>4, <3>1, <3>2, <3>3 DEF Snapshot, ShutdownRuns
  <2>2. AcceptInv'
    BY <1>4 DEF Snapshot, AcceptInv
  <2>3. ContextInv' /\ ShutdownInv' /\ HandshakeContextReady'
    BY <1>4 DEF Snapshot, ContextInv, ShutdownInv, HandshakeContextReady
  <2>4. TableInv'
    BY <1>4 DEF Snapshot, TableInv, Alive
  <2>5. NoSessionEscapesShutdown'
    <3>1. ASSUME NEW c \in Conns, conn[c] = "serving" PROVE c \in toStop'
      <4>1. <<c, "serving">> \in registered'
        BY <1>4, <3>1 DEF Snapshot, TableInv, Alive
      <4>2. QED
        BY <1>4, <4>1 DEF Snapshot
    <3>2. QED
      BY <1>4, <3>1 DEF Snapshot, NoSessionEscapesShutdown
  <2>6. QED
    BY <2>1, <2>2, <2>3, <2>4, <2>5
<1>5. CASE StopSession
  <2>1. TypeOK'
    BY <1>5 DEF StopSession, ShutdownRuns, AsyncOps, Completed
  <2>2. AcceptInv'
    BY <1>5 DEF StopSession, AcceptInv
  <2>3. ContextInv' /\ ShutdownInv' /\ HandshakeContextReady'
    BY <1>5 DEF StopSession, ContextInv, ShutdownInv, HandshakeContextReady
  <2>4. TableInv' /\ NoSessionEscapesShutdown'
    BY <1>5 DEF StopSession, TableInv, NoSessionEscapesShutdown
  <2>5. QED
    BY <2>1, <2>2, <2>3, <2>4
<1>6. CASE SessionsStopped
  <2>1. TypeOK'
    BY <1>6 DEF SessionsStopped, ShutdownRuns, AsyncOps, Completed
  <2>2. AcceptInv'
    BY <1>6 DEF SessionsStopped, AcceptInv
  <2>3. ContextInv' /\ ShutdownInv' /\ HandshakeContextReady'
    BY <1>6 DEF SessionsStopped, ContextInv, ShutdownInv, HandshakeContextReady
  <2>4. TableInv' /\ NoSessionEscapesShutdown'
    BY <1>6 DEF SessionsStopped, TableInv, NoSessionEscapesShutdown
  <2>5. QED
    BY <2>1, <2>2, <2>3, <2>4
<1>7. CASE CloseAcceptors
  <2>1. ASSUME NEW p \in Ports, NEW from \in ShutdownRuns \ {"snapshot"},
               NEW to \in ShutdownRuns \union {"done"}, to \notin {"none", "snapshot"},
               MoveAcceptor(p, from, to) \/ ShutAcceptor(p, from, to) \/ DropAcceptor(p, from, to)
        PROVE  ServerInv'
    <3> USE <2>1 DEF MoveAcceptor, ShutAcceptor, DropAcceptor
    <3>1. TypeOK'
      <4>1. CASE MoveAcceptor(p, from, to)
        BY <4>1
      <4>2. CASE ShutAcceptor(p, from, to)
        BY <4>2 DEF AsyncOps, Completed, Close, Cancelled
      <4>3. CASE DropAcceptor(p, from, to)
        BY <4>3
      <4>4. QED
        BY <4>1, <4>2, <4>3
    <3>2. AcceptInv'
      BY DEF AcceptInv, Close, Cancelled, Holds, Ports
    <3>3. ContextInv' /\ ShutdownInv' /\ HandshakeContextReady'
      BY DEF ContextInv, ShutdownInv, HandshakeContextReady, ShutdownRuns
    <3>4. TableInv' /\ NoSessionEscapesShutdown'
      BY DEF TableInv, NoSessionEscapesShutdown, ShutdownRuns
    <3>5. QED
      BY <3>1, <3>2, <3>3, <3>4
  <2>2. QED
    BY <1>7, <2>1 DEF CloseAcceptors, ShutdownRuns, Ports
<1>8. QED
  BY <1>1, <1>2, <1>3, <1>4, <1>5, <1>6, <1>7 DEF SignalHandler, Shutdown

\* Every step preserves the inductive invariant.
LEMMA NextServerInv == ServerInv /\ [Next]_vars => ServerInv'
<1> SUFFICES ASSUME ServerInv, [Next]_vars PROVE ServerInv'
  OBVIOUS
<1>1. CASE UNCHANGED vars
  BY <1>1 DEF ServerInv, TypeOK, ContextInv, ShutdownInv, TableInv, AcceptInv,
              HandshakeContextReady, NoSessionEscapesShutdown, vars, listenVars, shutdownVars,
              connVars
<1>2. QED
  BY <1>1, ClientsStep, SessionsStep, ListenerStep, ShutdownStep DEF Next, Step, Over

\* The inductive invariant holds in every reachable state.
LEMMA Invariance == Spec => []ServerInv
  BY InitServerInv, NextServerInv, PTL DEF Spec

\* Every variable keeps its type; above all, no session is among those that
\* stop_sessions has yet to stop and those it has stopped (server.cpp:319).
THEOREM TypeCorrect == Spec => []TypeOK
<1>1. ServerInv => TypeOK
  BY DEF ServerInv
<1>2. QED
  BY <1>1, Invariance, PTL

\* No HTTP session escapes the shutdown (server.cpp:61, 289, 303), for any
\* number of threads and connections.
THEOREM NoneEscapes == Spec => []NoSessionEscapesShutdown
<1>1. ServerInv => NoSessionEscapesShutdown
  BY DEF ServerInv
<1>2. QED
  BY <1>1, Invariance, PTL

\* No handshake begins on a context that was not initialised
\* (server.cpp:142-149).
THEOREM ContextsReady == Spec => []HandshakeContextReady
<1>1. ServerInv => HandshakeContextReady
  BY DEF ServerInv
<1>2. QED
  BY <1>1, Invariance, PTL

------------------------------------------------------------------------------
\* The only thread is free: no handler is half way through.
LEMMA FreeAlone ==
  ASSUME NumThreads = 1, ThreadFree
  PROVE  /\ \A p \in Ports : listener[p] \notin ListenerRuns
         /\ shutdown \notin ShutdownRuns
<1> DEFINE running == {p \in Ports : listener[p] \in ListenerRuns}
<1>1. IsFiniteSet(running)
  <2>1. IsFiniteSet({"http"})
    BY FS_Singleton
  <2>2. IsFiniteSet({"http"} \union {"https"})
    BY <2>1, FS_AddElement
  <2>3. Ports = {"http"} \union {"https"}
    BY DEF Ports
  <2>4. QED
    BY <2>2, <2>3, FS_Subset
<1>2. Cardinality(running) \in Nat
  BY <1>1, FS_CardinalityType
<1>3. Cardinality(running) = 0 /\ shutdown \notin ShutdownRuns
  BY <1>2 DEF ThreadFree
<1>4. running = {}
  BY <1>1, <1>3, FS_EmptySet
<1>5. QED
  BY <1>3, <1>4

\* With one thread, a listener or the shutdown that has begun is not overtaken.
LEMMA NextSoloInv ==
  ASSUME NumThreads = 1, ServerInv, SoloInv, [Next]_vars
  PROVE  SoloInv'
<1> USE DEF SoloInv, listenVars, shutdownVars, connVars
<1> DEFINE idle == (\A p \in Ports : listener[p] \notin ListenerRuns) /\ shutdown \notin ShutdownRuns
<1>1. CASE Clients
  BY <1>1 DEF Clients, Connect, AcceptFails
<1>2. CASE Sessions
  BY <1>2 DEF Sessions, OnPeeked, OnHandshaken, SessionEnds
<1>3. CASE SignalArrives
  BY <1>3 DEF SignalArrives
<1>4. ASSUME NEW p \in Ports, ListenerBegins(p) \/ OnAborted(p) \/ OnAcceptError(p) \/ OnAccepted(p)
      PROVE  SoloInv'
  <2>1. idle
    BY <1>4, FreeAlone DEF ListenerBegins, OnAborted, OnAcceptError, OnAccepted
  <2>2. \E place \in {"loop", "cancel", "ended"} : Goto(p, place)
    BY <1>4 DEF ListenerBegins, OnAborted, OnAcceptError, OnAccepted
  <2>3. UNCHANGED <<member, acceptor, misused, pending, shutdown>>
    BY <1>4 DEF ListenerBegins, OnAborted, OnAcceptError, OnAccepted
  <2>4. QED
    BY <2>1, <2>2, <2>3 DEF Goto, ListenerRuns, ServerInv, TypeOK
<1>5. ASSUME NEW p \in Ports, CheckPending(p) \/ CancelSignals(p) PROVE SoloInv'
  BY <1>5 DEF CheckPending, CancelSignals, Goto, ListenerRuns, ServerInv, TypeOK
<1>6. ASSUME NEW p \in Ports, AsyncAccept(p) PROVE SoloInv'
  <2>1. listener[p] = "accept" /\ acceptor[p] # "destroyed"
    <3>1. listener[p] = "accept"
      BY <1>6 DEF AsyncAccept
    <3>2. QED
      BY <3>1 DEF Ports
  <2>2. misused' = "no"
    BY <1>6, <2>1 DEF AsyncAccept
  <2>3. QED
    BY <1>6, <2>2 DEF AsyncAccept, Goto, ListenerRuns, ServerInv, TypeOK
<1>7. ASSUME NEW p \in Ports, UninstallListeners(p) PROVE SoloInv'
  <2>1. CASE UninstallListener(p, "http", "testHttp", "openHttp", "closeHttp", "testHttps")
    BY <2>1 DEF UninstallListener, TestMember, TestOpen, CloseMember, Crash, Close, Goto, ListenerRuns, Ports, ServerInv, TypeOK
  <2>2. CASE UninstallListener(p, "https", "testHttps", "openHttps", "closeHttps", "ended")
    BY <2>2 DEF UninstallListener, TestMember, TestOpen, CloseMember, Crash, Close, Goto, ListenerRuns, Ports, ServerInv, TypeOK
  <2>3. QED
    BY <1>7, <2>1, <2>2 DEF UninstallListeners
<1>8. CASE SignalHandler
  <2>1. idle
    BY <1>8, FreeAlone DEF SignalHandler, OnSignal, OnSignalCancelled
  <2>2. QED
    BY <1>8, <2>1 DEF SignalHandler, OnSignal, OnSignalCancelled, ListenerRuns
<1>9. CASE Shutdown
  <2>1. shutdown \in ShutdownRuns /\ pending
    BY <1>9 DEF Shutdown, Snapshot, StopSession, SessionsStopped, CloseAcceptors,
         MoveAcceptor, ShutAcceptor, DropAcceptor, ShutdownRuns, ServerInv, ShutdownInv
  <2>2. UNCHANGED <<listener, pending, misused>>
    BY <1>9 DEF Shutdown, Snapshot, StopSession, SessionsStopped, CloseAcceptors,
         MoveAcceptor, ShutAcceptor, DropAcceptor
  <2>3. QED
    BY <2>1, <2>2 DEF ListenerRuns
<1>10. CASE Over \/ UNCHANGED vars
  BY <1>10 DEF Over, vars
<1>11. QED
  BY <1>1, <1>2, <1>3, <1>4, <1>5, <1>6, <1>7, <1>8, <1>9, <1>10 DEF Next, Step, Listener

------------------------------------------------------------------------------
\* When no work is left in io_ nothing happens any more.
LEMMA FinishedStays ==
  ASSUME ServerInv, Finished, [Next]_vars
  PROVE  UNCHANGED vars
<1>1. \A p \in Ports : ~Holds(accept[p]) /\ listener[p] = "ended"
  BY DEF ServerInv, AcceptInv, Finished
<1>2. ~Clients
  BY <1>1 DEF Clients, Connect, AcceptFails, Holds
<1>3. ~Sessions
  BY DEF Sessions, OnPeeked, OnHandshaken, SessionEnds, Finished
<1>4. ASSUME NEW p \in Ports PROVE ~Listener(p)
  BY <1>1 DEF Listener, ListenerBegins, CheckPending, AsyncAccept, OnAborted, OnAcceptError,
              OnAccepted, CancelSignals, UninstallListeners, UninstallListener, TestMember, TestOpen, CloseMember, Crash, Holds
<1>5. ~SignalArrives /\ ~SignalHandler /\ ~Shutdown
  BY DEF Finished, SignalArrives, SignalHandler, OnSignal, OnSignalCancelled, Shutdown, Snapshot,
         StopSession, SessionsStopped, CloseAcceptors,
         MoveAcceptor, ShutAcceptor, DropAcceptor
<1>6. QED
  BY <1>2, <1>3, <1>4, <1>5 DEF Next, Step, Over

\* A step that moves no connection and does not begin the shutdown is none of
\* the life cycle, or the end of it.
LEMMA QuietStep ==
  ASSUME ~Finished, Life' = Life, pending' = pending
  PROVE  [Lifecycle!Next]_(Lifecycle!vars)
<1>1. CASE Finished'
  <2>1. Mode # "ended" /\ Mode' = "ended"
    BY <1>1 DEF Mode
  <2>2. \A c \in Conns : Life'[c] # "active"
    BY <1>1 DEF Finished, Life
  <2>3. QED
    BY <2>1, <2>2 DEF Lifecycle!Next, Lifecycle!End
<1>2. CASE ~Finished'
  BY <1>2 DEF Mode, Lifecycle!vars
<1>3. QED
  BY <1>1, <1>2

\* A handler of a connection admits it, refuses it, or lets its session go.
LEMMA HandledStep ==
  ASSUME ServerInv, ~Finished, NEW c \in Conns, Handled(c), UNCHANGED shutdownVars,
         conn[c] \in {"accepted", "peeking", "handshaking", "serving"},
         conn'[c] = "peeking" => conn[c] = "accepted"
  PROVE  [Lifecycle!Next]_(Lifecycle!vars)
<1> USE DEF ServerInv, TypeOK
<1>1. pending' = pending
  BY DEF shutdownVars
<1>2. Life \in [Conns -> {"new", "active", "gone"}]
  BY DEF Life
<1>3. Life' = [Life EXCEPT ![c] = Life'[c]]
  BY DEF Life, Handled
<1>4. CASE Life'[c] = Life[c]
  <2>1. Life' = Life
    BY <1>2, <1>3, <1>4
  <2>2. QED
    BY <1>1, <2>1, QuietStep
<1>5. CASE Life'[c] # Life[c] /\ Life'[c] = "active"
  <2>1. ~pending /\ conn'[c] \in {"handshaking", "serving"}
    BY <1>5 DEF Handled, Life
  <2>2. ~Finished'
    BY <2>1 DEF Finished
  <2>3. Mode = "running" /\ Mode' = Mode
    BY <1>1, <2>1, <2>2 DEF Mode
  <2>4. Life[c] = "new"
    BY <1>5 DEF Life
  <2>5. Lifecycle!Admit(c)
    BY <1>3, <1>5, <2>3, <2>4 DEF Lifecycle!Admit
  <2>6. QED
    BY <2>5 DEF Lifecycle!Next
<1>6. CASE Life'[c] # Life[c] /\ Life'[c] # "active"
  <2>1. Life'[c] = "gone" /\ Life[c] \in {"new", "active"}
    BY <1>6 DEF Handled, Life
  <2>2. CASE Finished'
    <3>1. Mode # "ended" /\ Mode' = "ended"
      BY <2>2 DEF Mode
    <3>2. \A d \in Conns : Life'[d] # "active"
      BY <2>2 DEF Finished, Life
    <3>3. QED
      BY <1>3, <2>1, <3>1, <3>2 DEF Lifecycle!Next, Lifecycle!End
  <2>3. CASE ~Finished'
    <3>1. Mode' = Mode /\ Mode # "ended"
      BY <1>1, <2>3 DEF Mode
    <3>2. CASE Life[c] = "new"
      BY <1>3, <2>1, <3>1, <3>2 DEF Lifecycle!Refuse, Lifecycle!Next
    <3>3. CASE Life[c] = "active"
      <4>1. Life' = [d \in Conns |-> IF d \in {c} THEN "gone" ELSE Life[d]]
        BY <1>2, <1>3, <2>1
      <4>2. Lifecycle!Leave({c})
        BY <3>1, <3>3, <4>1 DEF Lifecycle!Leave
      <4>3. QED
        BY <4>2 DEF Lifecycle!Next
    <3>4. QED
      BY <2>1, <3>2, <3>3
  <2>4. QED
    BY <2>2, <2>3
<1>7. QED
  BY <1>4, <1>5, <1>6

\* Every step of the server is a step of its life cycle, or none of it.
LEMMA StepImplements ==
  ASSUME ServerInv, [Next]_vars
  PROVE  [Lifecycle!Next]_(Lifecycle!vars)
<1>1. CASE UNCHANGED vars
  <2>1. Life' = Life /\ Mode' = Mode
    BY <1>1 DEF Life, Mode, Finished, vars, listenVars, shutdownVars, connVars
  <2>2. QED
    BY <2>1 DEF Lifecycle!vars
<1>2. CASE Finished
  BY <1>1, <1>2, FinishedStays
<1> SUFFICES ASSUME ~Finished, Next PROVE [Lifecycle!Next]_(Lifecycle!vars)
  BY <1>1, <1>2
<1>3. CASE Clients
  <2>1. Life' = Life /\ pending' = pending
    BY <1>3 DEF Clients, Connect, AcceptFails, Life, shutdownVars, connVars, ServerInv, TypeOK
  <2>2. QED
    BY <2>1, QuietStep
<1>4. CASE SignalArrives
  <2>1. Life' = Life /\ pending' = pending
    BY <1>4 DEF SignalArrives, Life, connVars
  <2>2. QED
    BY <2>1, QuietStep
<1>5. ASSUME NEW c \in Conns, OnPeeked(c) PROVE [Lifecycle!Next]_(Lifecycle!vars)
  <2>1. Handled(c)
    BY <1>5, HandshakeHandled, LaunchHandled, ClosedHandled DEF OnPeeked
  <2>2. conn'[c] # "peeking"
    BY <1>5 DEF OnPeeked, SslHandshake, LaunchHttpSession, Register, ServerInv, TypeOK
  <2>3. QED
    BY <1>5, <2>1, <2>2, HandledStep DEF OnPeeked
<1>6. ASSUME NEW c \in Conns, OnHandshaken(c) PROVE [Lifecycle!Next]_(Lifecycle!vars)
  <2>1. Handled(c)
    BY <1>6, LaunchHandled, ClosedHandled DEF OnHandshaken
  <2>2. conn'[c] # "peeking"
    BY <1>6 DEF OnHandshaken, LaunchHttpSession, Register, ServerInv, TypeOK
  <2>3. QED
    BY <1>6, <2>1, <2>2, HandledStep DEF OnHandshaken
<1>7. ASSUME NEW c \in Conns, SessionEnds(c) PROVE [Lifecycle!Next]_(Lifecycle!vars)
  <2>1. Handled(c)
    BY <1>7, ClosedHandled DEF SessionEnds
  <2>2. conn'[c] # "peeking"
    BY <1>7 DEF SessionEnds, ServerInv, TypeOK
  <2>3. QED
    BY <1>7, <2>1, <2>2, HandledStep DEF SessionEnds
<1>8. ASSUME NEW p \in Ports, OnAccepted(p) PROVE [Lifecycle!Next]_(Lifecycle!vars)
  <2>1. PICK c \in accepted[p] : Dispatch(p, c)
    BY <1>8 DEF OnAccepted
  <2>2. c \in Conns /\ conn[c] = "accepted" /\ Handled(c)
    BY <2>1, DispatchHandled DEF ServerInv, TypeOK, AcceptInv
  <2>3. QED
    BY <1>8, <2>2, HandledStep DEF OnAccepted
<1>9. ASSUME NEW p \in Ports, Listener(p), ~OnAccepted(p) PROVE [Lifecycle!Next]_(Lifecycle!vars)
  <2>1. conn' = conn /\ pending' = pending
    BY <1>9 DEF Listener, ListenerBegins, CheckPending, AsyncAccept, OnAborted, OnAcceptError,
                CancelSignals, UninstallListeners, UninstallListener, TestMember, TestOpen, CloseMember, Crash, shutdownVars, connVars
  <2>2. QED
    BY <2>1, QuietStep DEF Life
<1>10. CASE OnSignal
  <2>1. ~Finished' /\ pending' /\ Life' = Life
    BY <1>10 DEF OnSignal, Finished, Life, connVars
  <2>2. QED
    BY <2>1 DEF Mode, Lifecycle!Next, Lifecycle!Drain, Lifecycle!vars
<1>11. CASE OnSignalCancelled
  <2>1. Life' = Life /\ pending' = pending
    BY <1>11 DEF OnSignalCancelled, Life, connVars
  <2>2. QED
    BY <2>1, QuietStep
<1>12. CASE Shutdown
  <2>1. conn' = conn /\ pending' = pending
    BY <1>12 DEF Shutdown, Snapshot, StopSession, SessionsStopped, CloseAcceptors,
         MoveAcceptor, ShutAcceptor, DropAcceptor, connVars
  <2>2. QED
    BY <2>1, QuietStep DEF Life
<1>13. QED
  BY <1>1, <1>3, <1>4, <1>5, <1>6, <1>7, <1>8, <1>9, <1>10, <1>11, <1>12
     DEF Next, Step, Sessions, SignalHandler, Over

\* The server keeps to ServerLifecycle: told to shut down it admits nobody, and
\* run() returns only when every session is gone (server.cpp:44, 61, 289).
THEOREM KeepsLifecycle == Spec => ImplementsLifecycle
<1>1. Init => Lifecycle!Init
  <2> SUFFICES ASSUME Init PROVE Lifecycle!Init
    OBVIOUS
  <2>1. Mode = "running"
    BY DEF Init, Mode, Finished, Ports
  <2>2. Life = [c \in Conns |-> "new"]
    BY DEF Init, Life
  <2>3. QED
    BY <2>1, <2>2 DEF Lifecycle!Init
<1>2. ServerInv /\ [Next]_vars => [Lifecycle!Next]_(Lifecycle!vars)
  BY StepImplements
<1>3. QED
  BY <1>1, <1>2, Invariance, PTL DEF Spec, ImplementsLifecycle, Lifecycle!Spec

==============================================================================
