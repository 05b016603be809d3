------------------------ MODULE ServerListenerProofs -------------------------
(***************************************************************************)
(* Proofs about the end of the listeners of Server, for every finite set   *)
(* of connections, any number of threads, and both run modes.              *)
(***************************************************************************)
EXTENDS ServerProofs

\* Every step keeps what is said of the acceptors, their members and the
\* accepts that are pending on them.
LEMMA NextAcceptorInv ==
  ASSUME ServerInv, AcceptorInv, [Next]_vars
  PROVE  AcceptorInv'
<1> USE DEF AcceptorInv, AcceptorsTaken, ToClose, listenVars, shutdownVars, connVars
<1>1. CASE Clients
  BY <1>1 DEF Clients, Connect, AcceptFails, ServerInv, TypeOK
<1>2. CASE Sessions
  BY <1>2 DEF Sessions, OnPeeked, OnHandshaken, SessionEnds
<1>3. CASE SignalArrives \/ SignalHandler
  BY <1>3 DEF SignalArrives, SignalHandler, OnSignal, OnSignalCancelled, ServerInv, ShutdownInv
<1>4. ASSUME NEW p \in Ports,
             \/ ListenerBegins(p) \/ CheckPending(p) \/ AsyncAccept(p) \/ OnAborted(p)
             \/ OnAcceptError(p) \/ OnAccepted(p) \/ CancelSignals(p)
      PROVE  AcceptorInv'
  BY <1>4 DEF ListenerBegins, CheckPending, AsyncAccept, OnAborted, OnAcceptError, OnAccepted,
              CancelSignals, ServerInv, TypeOK
<1>5. ASSUME NEW p \in Ports, UninstallListeners(p) PROVE AcceptorInv'
  BY <1>5 DEF UninstallListeners, UninstallListener, TestMember, TestOpen, CloseMember,
              Crash, Close, Cancelled, Ports, ServerInv, TypeOK
<1>6. CASE Shutdown
  <2> USE DEF ServerInv, TypeOK, Ports
  <2>1. CASE \/ ShutAcceptor("http", "shutHttp", "shutHttps")
             \/ ShutAcceptor("https", "shutHttps", "dropHttps")
    BY <2>1 DEF ShutAcceptor, Close, Cancelled
  <2>2. CASE \/ DropAcceptor("https", "dropHttps", "dropHttp")
             \/ DropAcceptor("http", "dropHttp", "done")
    BY <2>2 DEF DropAcceptor
  <2>3. CASE \/ MoveAcceptor("http", "moveHttp", "moveHttps")
             \/ MoveAcceptor("https", "moveHttps", "shutHttp")
    BY <2>3 DEF MoveAcceptor
  <2>4. CASE Snapshot \/ StopSession \/ SessionsStopped
    BY <2>4 DEF Snapshot, StopSession, SessionsStopped
  <2>5. QED
    BY <1>6, <2>1, <2>2, <2>3, <2>4 DEF Shutdown, CloseAcceptors
<1>7. CASE Over \/ UNCHANGED vars
  BY <1>7 DEF Over, vars
<1>8. QED
  BY <1>1, <1>2, <1>3, <1>4, <1>5, <1>6, <1>7 DEF Next, Step, Listener

\* A listener finds a null member, or a destroyed acceptor, behind
\* close_acceptors only.
LEMMA NextMisuse ==
  ASSUME ServerInv, AcceptorInv, misused # "no" => shutdown \in AcceptorsTaken, [Next]_vars
  PROVE  misused' # "no" => shutdown' \in AcceptorsTaken
<1> USE DEF AcceptorsTaken, listenVars, shutdownVars, connVars
<1>1. CASE Clients \/ Sessions \/ SignalArrives
  BY <1>1 DEF Clients, Connect, AcceptFails, Sessions, OnPeeked, OnHandshaken, SessionEnds,
              SignalArrives
<1>2. CASE SignalHandler
  BY <1>2 DEF SignalHandler, OnSignal, OnSignalCancelled, ServerInv, ShutdownInv
<1>3. ASSUME NEW p \in Ports,
             \/ ListenerBegins(p) \/ CheckPending(p) \/ OnAborted(p) \/ OnAcceptError(p)
             \/ OnAccepted(p) \/ CancelSignals(p)
      PROVE  UNCHANGED <<misused, shutdown>>
  BY <1>3 DEF ListenerBegins, CheckPending, OnAborted, OnAcceptError, OnAccepted, CancelSignals
<1>4. ASSUME NEW p \in Ports, AsyncAccept(p) PROVE misused' # "no" => shutdown' \in AcceptorsTaken
  BY <1>4 DEF AsyncAccept, AcceptorInv
<1>5. ASSUME NEW p \in Ports, UninstallListeners(p)
      PROVE  misused' # "no" => shutdown' \in AcceptorsTaken
  <2>1. \/ UNCHANGED <<misused, shutdown>>
        \/ (\E q \in Ports : ~member[q]) /\ UNCHANGED shutdown
    BY <1>5 DEF UninstallListeners, UninstallListener, TestMember, TestOpen,
                CloseMember, Crash, Ports
  <2>2. QED
    BY <2>1 DEF AcceptorInv, Ports
<1>6. CASE Shutdown
  BY <1>6 DEF Shutdown, Snapshot, StopSession, SessionsStopped, CloseAcceptors, MoveAcceptor,
              ShutAcceptor, DropAcceptor
<1>7. CASE Over \/ UNCHANGED vars
  BY <1>7 DEF Over, vars
<1>8. QED
  BY <1>1, <1>2, <1>3, <1>4, <1>5, <1>6, <1>7 DEF Next, Step, Listener

\* Whoever ends a listener, or aborts the accept of one, leaves no listener that
\* could accept.
LEMMA NextUninstallInv ==
  ASSUME ServerInv, AcceptorInv, UninstallInv, [Next]_vars
  PROVE  UninstallInv'
<1> USE DEF listenVars, shutdownVars, connVars, ToClose
<1>1. CASE Clients
  BY <1>1 DEF Clients, Connect, AcceptFails, ServerInv, TypeOK, UninstallInv
<1>2. CASE Sessions
  BY <1>2 DEF Sessions, OnPeeked, OnHandshaken, SessionEnds, UninstallInv
<1>3. CASE SignalArrives \/ SignalHandler
  BY <1>3 DEF SignalArrives, SignalHandler, OnSignal, OnSignalCancelled, ServerInv, ShutdownInv,
              UninstallInv
<1>4. ASSUME NEW p \in Ports,
             \/ ListenerBegins(p) \/ CheckPending(p) \/ AsyncAccept(p) \/ OnAborted(p)
             \/ OnAcceptError(p) \/ OnAccepted(p) \/ CancelSignals(p)
      PROVE  UninstallInv'
  BY <1>4 DEF ListenerBegins, CheckPending, AsyncAccept, OnAborted, OnAcceptError, OnAccepted,
              CancelSignals, Goto, Leaving, Ports, ServerInv, TypeOK, AcceptInv, Holds, UninstallInv
<1>5. ASSUME NEW p \in Ports, UninstallListeners(p) PROVE UninstallInv'
  <2> USE DEF UninstallInv, Goto, Leaving, Ports, ServerInv, TypeOK
  <2>1. CASE \/ TestMember(p, "http", "testHttp", "openHttp", "testHttps")
             \/ TestMember(p, "https", "testHttps", "openHttps", "ended")
    BY <2>1 DEF TestMember, AcceptorInv, AcceptorsTaken
  <2>2. CASE \/ TestOpen(p, "http", "openHttp", "closeHttp", "testHttps")
             \/ TestOpen(p, "https", "openHttps", "closeHttps", "ended")
    BY <2>2 DEF TestOpen
  <2>3. CASE CloseMember(p, "http", "closeHttp", "testHttps")
    BY <2>3 DEF CloseMember, Close, Cancelled, AcceptInv, Holds
  <2>4. CASE CloseMember(p, "https", "closeHttps", "ended")
    BY <2>4 DEF CloseMember, Close, Cancelled, AcceptInv, Holds
  <2>5. CASE Crash
    BY <2>5 DEF Crash
  <2>6. QED
    BY <1>5, <2>1, <2>2, <2>3, <2>4, <2>5 DEF UninstallListeners, UninstallListener
<1>6. CASE Shutdown
  <2> USE DEF UninstallInv, ToClose, Ports, ServerInv, TypeOK, AcceptInv, Holds
  <2>1. CASE ShutAcceptor("http", "shutHttp", "shutHttps")
    BY <2>1 DEF ShutAcceptor, Close, Cancelled
  <2>2. CASE ShutAcceptor("https", "shutHttps", "dropHttps")
    BY <2>2 DEF ShutAcceptor, Close, Cancelled, AcceptorInv, AcceptorsTaken
  <2>3. CASE \/ DropAcceptor("https", "dropHttps", "dropHttp")
             \/ DropAcceptor("http", "dropHttp", "done")
    BY <2>3 DEF DropAcceptor
  <2>4. CASE \/ MoveAcceptor("http", "moveHttp", "moveHttps")
             \/ MoveAcceptor("https", "moveHttps", "shutHttp")
    BY <2>4 DEF MoveAcceptor
  <2>5. CASE Snapshot \/ StopSession \/ SessionsStopped
    BY <2>5 DEF Snapshot, StopSession, SessionsStopped
  <2>6. QED
    BY <1>6, <2>1, <2>2, <2>3, <2>4, <2>5 DEF Shutdown, CloseAcceptors
<1>7. CASE Over \/ UNCHANGED vars
  BY <1>7 DEF Over, vars, UninstallInv
<1>8. QED
  BY <1>1, <1>2, <1>3, <1>4, <1>5, <1>6, <1>7 DEF Next, Step, Listener

\* The wait for a signal is over before anything is closed.
LEMMA NextSignalInv ==
  ASSUME ServerInv, SignalInv, [Next]_vars
  PROVE  SignalInv'
<1> USE DEF listenVars, shutdownVars, connVars, SignalInv
<1>1. CASE Clients
  BY <1>1 DEF Clients, Connect, AcceptFails, ServerInv, TypeOK
<1>2. CASE Sessions
  BY <1>2 DEF Sessions, OnPeeked, OnHandshaken, SessionEnds
<1>3. CASE SignalArrives \/ SignalHandler
  BY <1>3 DEF SignalArrives, SignalHandler, OnSignal, OnSignalCancelled
<1>4. ASSUME NEW p \in Ports,
             \/ ListenerBegins(p) \/ CheckPending(p) \/ AsyncAccept(p) \/ OnAborted(p)
             \/ OnAcceptError(p) \/ OnAccepted(p) \/ CancelSignals(p)
      PROVE  SignalInv'
  BY <1>4 DEF ListenerBegins, CheckPending, AsyncAccept, OnAborted, OnAcceptError, OnAccepted,
              CancelSignals, Cancelled, Goto, Leaving, Ports, ServerInv, TypeOK
<1>5. ASSUME NEW p \in Ports, UninstallListeners(p) PROVE SignalInv'
  BY <1>5 DEF UninstallListeners, UninstallListener, TestMember, TestOpen, CloseMember,
              Crash, Goto, Leaving, Ports, ServerInv, TypeOK
<1>6. CASE Shutdown
  <2>1. shutdown # "none" /\ signal' = signal
    BY <1>6 DEF Shutdown, Snapshot, StopSession, SessionsStopped, CloseAcceptors,
         MoveAcceptor, ShutAcceptor, DropAcceptor
  <2>2. QED
    BY <2>1 DEF ServerInv, ShutdownInv
<1>7. CASE Over \/ UNCHANGED vars
  BY <1>7 DEF Over, vars
<1>8. QED
  BY <1>1, <1>2, <1>3, <1>4, <1>5, <1>6, <1>7 DEF Next, Step, Listener

\* Whoever suspends a listener has started an accept for it.
LEMMA NextWaitInv ==
  ASSUME ServerInv, WaitInv, [Next]_vars
  PROVE  WaitInv'
<1> USE DEF listenVars, shutdownVars, connVars, WaitInv, Holds
<1>1. CASE Clients
  BY <1>1 DEF Clients, Connect, AcceptFails, ServerInv, TypeOK
<1>2. CASE Sessions
  BY <1>2 DEF Sessions, OnPeeked, OnHandshaken, SessionEnds
<1>3. CASE SignalArrives \/ SignalHandler
  BY <1>3 DEF SignalArrives, SignalHandler, OnSignal, OnSignalCancelled
<1>4. ASSUME NEW p \in Ports,
             \/ ListenerBegins(p) \/ CheckPending(p) \/ AsyncAccept(p) \/ OnAborted(p)
             \/ OnAcceptError(p) \/ OnAccepted(p) \/ CancelSignals(p)
      PROVE  WaitInv'
  BY <1>4 DEF ListenerBegins, CheckPending, AsyncAccept, OnAborted, OnAcceptError, OnAccepted,
              CancelSignals, Cancelled, Goto, ServerInv, TypeOK
<1>5. ASSUME NEW p \in Ports, UninstallListeners(p) PROVE WaitInv'
  BY <1>5 DEF UninstallListeners, UninstallListener, TestMember, TestOpen, CloseMember,
              Crash, Close, Cancelled, Goto, ServerInv, TypeOK
<1>6. CASE Shutdown
  BY <1>6 DEF Shutdown, Snapshot, StopSession, SessionsStopped, CloseAcceptors,
         MoveAcceptor, ShutAcceptor, DropAcceptor, Close, Cancelled, ServerInv, TypeOK
<1>7. CASE Over \/ UNCHANGED vars
  BY <1>7 DEF Over, vars
<1>8. QED
  BY <1>1, <1>2, <1>3, <1>4, <1>5, <1>6, <1>7 DEF Next, Step, Listener

\* The releases are kept by every step, from run()'s beginning on.
LEMMA ReleaseInvariance == Spec => []ReleaseInv
<1>1. Init => ReleaseInv
  BY DEF Init, ReleaseInv, AcceptorInv, AcceptorsTaken, UninstallInv, ToClose, SignalInv, WaitInv,
         Leaving, Ports
<1>2. ServerInv /\ ReleaseInv /\ [Next]_vars => ReleaseInv'
  BY NextAcceptorInv, NextUninstallInv, NextSignalInv, NextWaitInv DEF ReleaseInv
<1>3. QED
  BY <1>1, <1>2, Invariance, PTL DEF Spec

\* An acceptor is used after its end only if the shutdown has overtaken a
\* listener on another thread (server.cpp:76, 234, 325), for any number of
\* threads and connections.
THEOREM MisuseIsOverlap == Spec => []MisuseNeedsOverlap
<1> DEFINE Overtaken == misused # "no" => shutdown \in AcceptorsTaken
<1>1. Init => Overtaken /\ AcceptorInv /\ SoloInv
  BY DEF Init, AcceptorInv, AcceptorsTaken, SoloInv, ListenerRuns, Ports
<1>2. ServerInv /\ AcceptorInv /\ Overtaken /\ [Next]_vars => AcceptorInv' /\ Overtaken'
  BY NextAcceptorInv, NextMisuse
<1>3. Spec => []Overtaken
  BY <1>1, <1>2, Invariance, PTL DEF Spec
<1>4. CASE NumThreads = 1
  <2>1. ServerInv /\ SoloInv /\ [Next]_vars => SoloInv'
    BY <1>4, NextSoloInv
  <2>2. SoloInv => MisuseNeedsOverlap
    BY DEF SoloInv, MisuseNeedsOverlap
  <2>3. QED
    BY <1>1, <2>1, <2>2, Invariance, PTL DEF Spec
<1>5. CASE NumThreads # 1
  <2>1. Overtaken => MisuseNeedsOverlap
    BY <1>5, ServerAssumption DEF MisuseNeedsOverlap
  <2>2. QED
    BY <1>3, <2>1, PTL
<1>6. QED
  BY <1>4, <1>5

\* The end of a listener, and the shutdown, leave no wait that only a client or
\* the operator could end.
LEMMA EndReleases == ServerInv /\ ReleaseInv => EndReleasesWaits
<1> SUFFICES ASSUME ServerInv, AcceptorInv, UninstallInv, SignalInv,
                    AListenerEnded \/ shutdown = "done"
             PROVE  /\ signal # "pending"
                    /\ \A p \in Ports : accept[p] = "pending" => p \in ToClose
  BY DEF ReleaseInv, EndReleasesWaits
<1>1. signal # "pending"
  BY DEF SignalInv, AListenerEnded, Leaving, ServerInv, ShutdownInv
<1>2. ASSUME NEW p \in Ports
      PROVE  acceptor[p] # "open" \/ p \in ToClose \/ listener[p] # "accepting"
  BY DEF UninstallInv, AListenerEnded, AcceptorInv, AcceptorsTaken, Leaving, Ports
<1>3. QED
  BY <1>1, <1>2 DEF ServerInv, AcceptInv, AcceptorInv, Holds

\* However the listeners, the signal and the shutdown overlap, the end of a
\* listener leaves no wait that only a client or the operator could end
\* (server.cpp:97, 234, 330).
THEOREM NoWaitLeft == Spec => []EndReleasesWaits
  BY EndReleases, ReleaseInvariance, Invariance, PTL

\* A server that was told to shut down, or has lost a listener, and has neither
\* a connection nor a handler to run is finished: no wait was forgotten
\* (server.cpp:45, 61, 97).
THEOREM NothingForgotten == Spec => []QuietMeansFinished
<1>1. ServerInv /\ ReleaseInv => QuietMeansFinished
  <2> SUFFICES ASSUME ServerInv, ReleaseInv, Quiet, pending \/ AListenerEnded,
                      \A c \in Conns : conn[c] \in {"idle", "closed"}
               PROVE  Finished
    BY DEF QuietMeansFinished
  <2>1. (AListenerEnded \/ shutdown = "done") /\ ToClose = {}
    BY DEF Quiet, ReleaseInv, WaitInv, ToClose
  <2>2. signal # "pending" /\ \A p \in Ports : accept[p] # "pending"
    BY <2>1, EndReleases DEF EndReleasesWaits
  <2>3. \A p \in Ports : listener[p] = "ended"
    BY <2>2 DEF Quiet, ReleaseInv, WaitInv, Holds, ServerInv, TypeOK, AsyncOps
  <2>4. signal = "done"
    BY <2>2 DEF Quiet, ReleaseInv, WaitInv, ServerInv, TypeOK, AsyncOps
  <2>5. QED
    BY <2>3, <2>4 DEF Quiet, Finished
<1>2. QED
  BY <1>1, ReleaseInvariance, Invariance, PTL

------------------------------------------------------------------------------
\* The requests that are handled, or have been.
Handling == {c \in Conns : conn[c] \notin {"idle", "accepted"}}

\* The listeners that will take no connection any more.
Left == {p \in Ports : listener[p] \in Leaving}

\* What is counted is finite.
LEMMA CountsFinite == IsFiniteSet(Handling) /\ IsFiniteSet(Left)
<1>1. IsFiniteSet({"http"} \union {"https"})
  BY FS_Singleton, FS_AddElement
<1>2. Ports = {"http"} \union {"https"}
  BY DEF Ports
<1>3. QED
  BY <1>1, <1>2, FS_Subset, ServerAssumption DEF Handling, Left

\* A step that dispatches nobody does not send a listener back into its loop.
LEMMA OthersCount ==
  ASSUME ServerInv, [Next]_vars, \A p \in Ports : ~OnAccepted(p)
  PROVE  Handling' = Handling /\ Left \subseteq Left'
<1> USE DEF ServerInv, TypeOK, listenVars, shutdownVars, connVars
<1>1. CASE Clients
  BY <1>1 DEF Clients, Connect, AcceptFails, Handling, Left
<1>2. CASE Sessions
  <2>1. ASSUME NEW c \in Conns, conn[c] \in {"peeking", "handshaking", "serving"}, Handled(c)
        PROVE  Handling' = Handling
    BY <2>1 DEF Handled, Handling
  <2>2. Handling' = Handling
    BY <1>2, <2>1, HandshakeHandled, LaunchHandled, ClosedHandled
       DEF Sessions, OnPeeked, OnHandshaken, SessionEnds
  <2>3. QED
    BY <1>2, <2>2 DEF Sessions, OnPeeked, OnHandshaken, SessionEnds, Left
<1>3. CASE SignalArrives \/ SignalHandler
  BY <1>3 DEF SignalArrives, SignalHandler, OnSignal, OnSignalCancelled, Handling, Left
<1>4. ASSUME NEW p \in Ports, Listener(p) PROVE Handling' = Handling /\ Left \subseteq Left'
  <2>1. conn' = conn
    BY <1>4 DEF Listener, ListenerBegins, CheckPending, AsyncAccept, OnAborted, OnAcceptError,
                CancelSignals, UninstallListeners, UninstallListener, TestMember, TestOpen,
                CloseMember, Crash
  <2>2. \E place : Goto(p, place) /\ (listener[p] \in Leaving => place \in Leaving)
    <3>1. CASE UninstallListeners(p)
      <4>1. UNCHANGED listener \/ \E place \in Leaving : Goto(p, place)
        BY <3>1 DEF UninstallListeners, UninstallListener, TestMember, TestOpen, CloseMember,
                    Crash, Leaving
      <4>2. CASE UNCHANGED listener
        BY <4>2 DEF Goto
      <4>3. QED
        BY <4>1, <4>2
    <3>2. CASE ~UninstallListeners(p)
      <4>1. CASE OnAborted(p) \/ OnAcceptError(p)
        BY <4>1 DEF OnAborted, OnAcceptError, Leaving
      <4>2. CASE ListenerBegins(p) \/ CheckPending(p) \/ AsyncAccept(p) \/ CancelSignals(p)
        BY <4>2 DEF ListenerBegins, CheckPending, AsyncAccept, CancelSignals, Leaving
      <4>3. QED
        BY <1>4, <3>2, <4>1, <4>2 DEF Listener
    <3>3. QED
      BY <3>1, <3>2
  <2>3. QED
    BY <2>1, <2>2 DEF Goto, Handling, Left
<1>5. CASE Shutdown
  BY <1>5 DEF Shutdown, Snapshot, StopSession, SessionsStopped, CloseAcceptors,
         MoveAcceptor, ShutAcceptor, DropAcceptor, Handling, Left
<1>6. CASE Over \/ UNCHANGED vars
  BY <1>6 DEF Over, vars, Handling, Left
<1>7. QED
  BY <1>1, <1>2, <1>3, <1>4, <1>5, <1>6 DEF Next, Step

\* The single request costs its listener.
LEMMA DispatchCounts ==
  ASSUME ServerInv, SingleRequest, NEW p \in Ports, OnAccepted(p)
  PROVE  /\ \E c : c \notin Handling /\ Handling' = Handling \union {c}
         /\ p \notin Left /\ Left' = Left \union {p}
<1> USE DEF ServerInv, TypeOK
<1>1. PICK c \in accepted[p] : Dispatch(p, c)
  BY DEF OnAccepted
<1>2. c \in Conns /\ conn[c] = "accepted" /\ Handled(c)
  BY <1>1, DispatchHandled DEF AcceptInv
<1>3. c \notin Handling /\ Handling' = Handling \union {c}
  BY <1>2 DEF Handled, Handling
<1>4. listener[p] = "accepting" /\ Goto(p, "cancel")
  BY DEF OnAccepted, AcceptInv, Holds
<1>5. p \notin Left /\ Left' = Left \union {p}
  BY <1>4 DEF Goto, Left, Leaving
<1>6. QED
  BY <1>3, <1>5

\* In single-request mode the server handles no more requests than listeners
\* have left their loop, two at the most (server.cpp:91).
THEOREM RequestsCostListeners == Spec => []EachRequestEndsAListener
<1> DEFINE Bound == SingleRequest => Cardinality(Handling) <= Cardinality(Left)
<1>1. Init => Bound
  <2> SUFFICES ASSUME Init PROVE Cardinality(Handling) <= Cardinality(Left)
    OBVIOUS
  <2>1. Handling = {}
    BY DEF Init, Handling
  <2>2. QED
    BY <2>1, FS_EmptySet, CountsFinite, FS_CardinalityType
<1>2. ServerInv /\ Bound /\ [Next]_vars => Bound'
  <2> SUFFICES ASSUME ServerInv, SingleRequest, [Next]_vars,
                      Cardinality(Handling) <= Cardinality(Left)
               PROVE  Cardinality(Handling') <= Cardinality(Left')
    OBVIOUS
  <2>1. /\ IsFiniteSet(Handling) /\ IsFiniteSet(Left) /\ IsFiniteSet(Left')
        /\ Cardinality(Handling) \in Nat /\ Cardinality(Left) \in Nat /\ Cardinality(Left') \in Nat
    <3>1. IsFiniteSet(Left')
      <4>1. IsFiniteSet({"http"} \union {"https"})
        BY FS_Singleton, FS_AddElement
      <4>2. Left' \subseteq {"http"} \union {"https"}
        BY DEF Left, Ports
      <4>3. QED
        BY <4>1, <4>2, FS_Subset
    <3>2. QED
      BY <3>1, CountsFinite, FS_CardinalityType
  <2>2. CASE \E p \in Ports : OnAccepted(p)
    <3>1. PICK p \in Ports : OnAccepted(p)
      BY <2>2
    <3>2. PICK c : c \notin Handling /\ Handling' = Handling \union {c}
      BY <3>1, DispatchCounts
    <3>3. p \notin Left /\ Left' = Left \union {p}
      BY <3>1, DispatchCounts
    <3>4. /\ Cardinality(Handling') = Cardinality(Handling) + 1
          /\ Cardinality(Left') = Cardinality(Left) + 1
      BY <2>1, <3>2, <3>3, FS_AddElement
    <3>5. QED
      BY <2>1, <3>4
  <2>3. CASE \A p \in Ports : ~OnAccepted(p)
    <3>1. Handling' = Handling /\ Left \subseteq Left'
      BY <2>3, OthersCount
    <3>2. Cardinality(Left) <= Cardinality(Left')
      BY <2>1, <3>1, FS_Subset
    <3>3. QED
      BY <2>1, <3>1, <3>2
  <2>4. QED
    BY <2>2, <2>3
<1>3. Bound => EachRequestEndsAListener
  BY DEF Handling, Left, EachRequestEndsAListener
<1> HIDE DEF Bound
<1>4. QED
  BY <1>1, <1>2, <1>3, Invariance, PTL DEF Spec

==============================================================================
