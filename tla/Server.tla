------------------------------- MODULE Server --------------------------------
(***************************************************************************)
(* Server: the two listeners, the signal handler and its shutdown, the     *)
(* table of sessions and the TLS server context, executed by the threads   *)
(* that run io_.                                                           *)
(*                                                                         *)
(* A handler runs on a thread that has none, and keeps it until it         *)
(* returns; on different threads handlers interleave wherever they touch   *)
(* what they share.  The listeners and schedule_shutdown are therefore     *)
(* several steps; the handlers of a connection touch shared state in one   *)
(* critical section only (session_mtx_, or handshake_mtx_ around it) and   *)
(* are one step each.                                                      *)
(*                                                                         *)
(* An acceptor may be used when it no longer exists.  Through a null member *)
(* the program crashes, and nothing happens any more.  A call on the       *)
(* memory of a destroyed acceptor is undefined: it crashes as well, or     *)
(* finds what close() has left there.  `misused' says which.               *)
(*                                                                         *)
(* A connection stands for its socket and for the session that owns it; a  *)
(* session that is being served is the subject of module HTTPSession and   *)
(* here just ends at some time.                                            *)
(***************************************************************************)
EXTENDS Naturals, FiniteSets, AsyncOp

CONSTANTS
  Conns,              \* Bound: the connections that clients open
  NumThreads,         \* worker threads, as run() clamps them
  SingleRequest,      \* running_mode_ == ServerRunningMode::SingleRequest
  AllowTlsOnHttp      \* cfg_.server.allow_https_over_http_port

ASSUME ServerAssumption ==
  /\ IsFiniteSet(Conns)
  /\ NumThreads \in Nat \ {0}
  /\ SingleRequest \in BOOLEAN
  /\ AllowTlsOnHttp \in BOOLEAN

VARIABLES
  pending,      \* shutdown_pending_
  signal,       \* the wait of signals_
  shutdown,     \* where schedule_shutdown is
  toStop,       \* its active_sessions that stop() was not yet called on
  stopped,      \* connections whose session had stop() called on it
  member,       \* http_acceptor_ and https_acceptor_ are not null
  acceptor,     \* the two acceptor objects
  listener,     \* where the two listener coroutines are
  accept,       \* their async_accept
  accepted,     \* the connection an async_accept has taken, if any
  conn,         \* the life of each connection
  registered,   \* sessions_: weak pointers, of connections and kinds of session
  contextOnce,  \* *ssl_context_init_flag_ was called
  contextReady, \* ssl_context_ was initialised
  misused       \* an acceptor was used that no longer exists: with what effect

listenVars == <<member, acceptor, listener, accept, accepted>>
shutdownVars == <<pending, signal, shutdown, toStop, stopped>>
connVars == <<conn, registered, contextOnce, contextReady>>
vars == <<listenVars, shutdownVars, connVars, misused>>

Ports == {"http", "https"}

\* A listener holds a thread in these; otherwise it is suspended or over.
ListenerRuns ==
  {"loop", "accept", "cancel",
   "testHttp", "openHttp", "closeHttp", "testHttps", "openHttps", "closeHttps"}

ShutdownRuns ==
  {"snapshot", "stop", "moveHttp", "moveHttps", "shutHttp", "shutHttps", "dropHttps", "dropHttp"}

TypeOK ==
  /\ pending \in BOOLEAN
  /\ signal \in AsyncOps
  /\ shutdown \in ShutdownRuns \union {"none", "done"}
  /\ toStop \in SUBSET Conns
  /\ stopped \in SUBSET (Conns \ toStop)
  /\ member \in [Ports -> BOOLEAN]
  /\ acceptor \in [Ports -> {"open", "closed", "destroyed"}]
  /\ listener \in [Ports -> ListenerRuns \union {"spawned", "accepting", "ended"}]
  /\ accept \in [Ports -> AsyncOps]
  /\ accepted \in [Ports -> SUBSET Conns]
  /\ conn \in [Conns -> {"idle", "accepted", "peeking", "handshaking", "serving", "closed"}]
  /\ registered \in SUBSET (Conns \X {"handshaking", "serving"})
  /\ contextOnce \in BOOLEAN
  /\ contextReady \in BOOLEAN
  /\ misused \in {"no", "unnoticed", "crash"}

\* run() up to the creation of the threads.
Init ==
  /\ pending = FALSE
  /\ signal = "pending"
  /\ shutdown = "none"
  /\ toStop = {}
  /\ stopped = {}
  /\ member = [p \in Ports |-> TRUE]
  /\ acceptor = [p \in Ports |-> "open"]
  /\ listener = [p \in Ports |-> "spawned"]
  /\ accept = [p \in Ports |-> "idle"]
  /\ accepted = [p \in Ports |-> {}]
  /\ conn = [c \in Conns |-> "idle"]
  /\ registered = {}
  /\ contextOnce = FALSE
  /\ contextReady = FALSE
  /\ misused = "no"

\* Some thread has no handler to run.
ThreadFree ==
  Cardinality({p \in Ports : listener[p] \in ListenerRuns})
    + (IF shutdown \in ShutdownRuns THEN 1 ELSE 0) < NumThreads

\* The weak pointer can be locked.
Alive(session) == conn[session[1]] = session[2]

------------------------------------------------------------------------------
\* The clients, the operator and the kernel.

Connect(p) ==
  /\ accept[p] = "pending"
  /\ accept' = [accept EXCEPT ![p] = "ok"]
  /\ \E c \in Conns :
       /\ conn[c] = "idle"
       /\ conn' = [conn EXCEPT ![c] = "accepted"]
       /\ accepted' = [accepted EXCEPT ![p] = {c}]
  /\ UNCHANGED <<member, acceptor, listener, shutdownVars, registered, contextOnce, contextReady,
                 misused>>

\* accept() fails, for want of file descriptors say.
AcceptFails(p) ==
  /\ accept[p] = "pending"
  /\ accept' = [accept EXCEPT ![p] = "error"]
  /\ UNCHANGED <<member, acceptor, listener, accepted, shutdownVars, connVars, misused>>

SignalArrives ==
  /\ signal = "pending"
  /\ signal' = "ok"
  /\ UNCHANGED <<listenVars, pending, shutdown, toStop, stopped, connVars, misused>>

------------------------------------------------------------------------------
\* Sessions.

\* Mutant of Register: shutdown_pending_ is not looked at.
RegisterAlways(c, kind) ==
  /\ conn' = [conn EXCEPT ![c] = kind]
  /\ registered' = registered \union {<<c, kind>>}

\* register_session and, if it accepts the session, its start().  A session
\* that is refused is destroyed, and its socket with it.
Register(c, kind) ==
  IF pending
  THEN /\ conn' = [conn EXCEPT ![c] = "closed"]
       /\ UNCHANGED registered
  ELSE /\ conn' = [conn EXCEPT ![c] = kind]
       /\ registered' = registered \union {<<c, kind>>}

LaunchHttpSession(c) ==
  /\ Register(c, "serving")
  /\ UNCHANGED <<contextOnce, contextReady>>

\* Mutant of SslHandshake: the once_flag of a failed initialisation is kept.
SslHandshakeKeepsFlag(c) ==
  \/ /\ ~contextOnce
     /\ contextOnce' = TRUE
     /\ conn' = [conn EXCEPT ![c] = "closed"]
     /\ UNCHANGED <<registered, contextReady>>
  \/ /\ ~contextOnce
     /\ contextOnce' = TRUE
     /\ contextReady' = TRUE
     /\ Register(c, "handshaking")
  \/ /\ contextOnce
     /\ Register(c, "handshaking")
     /\ UNCHANGED <<contextOnce, contextReady>>

\* ssl_handshake, under handshake_mtx_.  init_ssl_context fails if the
\* certificate or the key cannot be read; the flag is then renewed and the
\* connection dropped.
SslHandshake(c) ==
  \/ /\ ~contextOnce
     /\ conn' = [conn EXCEPT ![c] = "closed"]
     /\ UNCHANGED <<registered, contextOnce, contextReady>>
  \/ /\ ~contextOnce
     /\ contextOnce' = TRUE
     /\ contextReady' = TRUE
     /\ Register(c, "handshaking")
  \/ /\ contextOnce
     /\ Register(c, "handshaking")
     /\ UNCHANGED <<contextOnce, contextReady>>

\* dispatch_http_request up to its co_await, and the handler of the https
\* listener.
Dispatch(p, c) ==
  \/ p = "https" /\ SslHandshake(c)
  \/ p = "http" /\ ~AllowTlsOnHttp /\ LaunchHttpSession(c)
  \/ /\ p = "http" /\ AllowTlsOnHttp
     /\ conn' = [conn EXCEPT ![c] = "peeking"]
     /\ UNCHANGED <<registered, contextOnce, contextReady>>

\* dispatch_http_request after the peek: the client has sent the first bytes
\* of a TLS record, has sent something else, or has gone.
OnPeeked(c) ==
  /\ ThreadFree
  /\ conn[c] = "peeking"
  /\ \/ SslHandshake(c)
     \/ LaunchHttpSession(c)
     \/ /\ conn' = [conn EXCEPT ![c] = "closed"]
        /\ UNCHANGED <<registered, contextOnce, contextReady>>
  /\ UNCHANGED <<listenVars, shutdownVars, misused>>

\* HandshakeSession::start_impl after async_handshake, with
\* on_ssl_handshake_done: success or failure.
OnHandshaken(c) ==
  /\ ThreadFree
  /\ conn[c] = "handshaking"
  /\ \/ LaunchHttpSession(c)
     \/ /\ conn' = [conn EXCEPT ![c] = "closed"]
        /\ UNCHANGED <<registered, contextOnce, contextReady>>
  /\ UNCHANGED <<listenVars, shutdownVars, misused>>

\* An HTTPSession ends, see HTTPSession!EventuallyDestroyed.
SessionEnds(c) ==
  /\ ThreadFree
  /\ conn[c] = "serving"
  /\ conn' = [conn EXCEPT ![c] = "closed"]
  /\ UNCHANGED <<listenVars, shutdownVars, registered, contextOnce, contextReady, misused>>

------------------------------------------------------------------------------
\* The listeners.

Goto(p, place) == listener' = [listener EXCEPT ![p] = place]

\* The coroutine that install_listeners has spawned begins.
ListenerBegins(p) ==
  /\ ThreadFree
  /\ listener[p] = "spawned"
  /\ Goto(p, "loop")
  /\ UNCHANGED <<member, acceptor, accept, accepted, shutdownVars, connVars, misused>>

\* The loop's condition.
CheckPending(p) ==
  /\ listener[p] = "loop"
  /\ Goto(p, IF pending THEN "cancel" ELSE "accept")
  /\ UNCHANGED <<member, acceptor, accept, accepted, shutdownVars, connVars, misused>>

\* A null member is dereferenced.
Crash ==
  /\ misused' = "crash"
  /\ UNCHANGED <<listenVars, shutdownVars, connVars>>

\* acceptor.async_accept.  An acceptor that was closed meanwhile reports a bad
\* descriptor; one that was destroyed is no object any more.
AsyncAccept(p) ==
  /\ listener[p] = "accept"
  /\ \/ /\ acceptor[p] = "open"
        /\ accept' = [accept EXCEPT ![p] = "pending"]
        /\ UNCHANGED misused
     \/ /\ acceptor[p] = "closed"
        /\ accept' = [accept EXCEPT ![p] = "error"]
        /\ UNCHANGED misused
     \/ /\ acceptor[p] = "destroyed"
        /\ accept' = [accept EXCEPT ![p] = "error"]
        /\ misused' \in {"unnoticed", "crash"}
  /\ Goto(p, "accepting")
  /\ UNCHANGED <<member, acceptor, accepted, shutdownVars, connVars>>

\* The listener resumes: its acceptor was closed, accept() failed, or there is
\* a connection to dispatch.
OnAborted(p) ==
  /\ ThreadFree
  /\ accept[p] = "aborted"
  /\ accept' = [accept EXCEPT ![p] = "done"]
  /\ Goto(p, "ended")
  /\ UNCHANGED <<member, acceptor, accepted, shutdownVars, connVars, misused>>

OnAcceptError(p) ==
  /\ ThreadFree
  /\ accept[p] = "error"
  /\ accept' = [accept EXCEPT ![p] = "done"]
  /\ Goto(p, "cancel")
  /\ UNCHANGED <<member, acceptor, accepted, shutdownVars, connVars, misused>>

\* Mutant of OnAccepted: running_mode_ is looked at by the https listener only.
OnAcceptedHttpGoesOn(p) ==
  /\ ThreadFree
  /\ accept[p] = "ok"
  /\ accept' = [accept EXCEPT ![p] = "done"]
  /\ accepted' = [accepted EXCEPT ![p] = {}]
  /\ \E c \in accepted[p] : Dispatch(p, c)
  /\ Goto(p, IF SingleRequest /\ p = "https" THEN "cancel" ELSE "loop")
  /\ UNCHANGED <<member, acceptor, shutdownVars, misused>>

OnAccepted(p) ==
  /\ ThreadFree
  /\ accept[p] = "ok"
  /\ accept' = [accept EXCEPT ![p] = "done"]
  /\ accepted' = [accepted EXCEPT ![p] = {}]
  /\ \E c \in accepted[p] : Dispatch(p, c)
  /\ Goto(p, IF SingleRequest THEN "cancel" ELSE "loop")
  /\ UNCHANGED <<member, acceptor, shutdownVars, misused>>

\* Mutant of CancelSignals: the wait for a signal is left pending.
CancelSignalsForgotten(p) ==
  /\ listener[p] = "cancel"
  /\ Goto(p, "testHttp")
  /\ UNCHANGED <<member, acceptor, accept, accepted, shutdownVars, connVars, misused>>

\* uninstall_signals_handler.
CancelSignals(p) ==
  /\ listener[p] = "cancel"
  /\ signal' = Cancelled(signal)
  /\ Goto(p, "testHttp")
  /\ UNCHANGED <<member, acceptor, accept, accepted, pending, shutdown, toStop, stopped, connVars,
                 misused>>

\* Closing an acceptor aborts the accept that is pending on it.
Close(q) ==
  /\ acceptor' = [acceptor EXCEPT ![q] = "closed"]
  /\ accept' = [accept EXCEPT ![q] = Cancelled(accept[q])]

\* The member of port q is compared with null.
TestMember(p, q, test, open, next) ==
  /\ listener[p] = test
  /\ Goto(p, IF member[q] THEN open ELSE next)
  /\ UNCHANGED <<member, acceptor, accept, accepted, shutdownVars, connVars, misused>>

\* is_open() through the member of port q.
TestOpen(p, q, open, close, next) ==
  /\ listener[p] = open
  /\ member[q]
  /\ Goto(p, IF acceptor[q] = "open" THEN close ELSE next)
  /\ UNCHANGED <<member, acceptor, accept, accepted, shutdownVars, connVars, misused>>

\* close() through the member of port q.
CloseMember(p, q, close, next) ==
  /\ listener[p] = close
  /\ member[q]
  /\ Close(q)
  /\ Goto(p, next)
  /\ UNCHANGED <<member, accepted, shutdownVars, connVars, misused>>

\* Mutant of UninstallListener: each listener closes its own acceptor only.
UninstallOwn(p, q, test, open, close, next) ==
  \/ /\ listener[p] = test
     /\ Goto(p, IF p = q /\ member[q] THEN open ELSE next)
     /\ UNCHANGED <<member, acceptor, accept, accepted, shutdownVars, connVars, misused>>
  \/ TestOpen(p, q, open, close, next)
  \/ CloseMember(p, q, close, next)

\* Mutant of UninstallListener: the member is not compared with null.
UninstallUntested(p, q, test, open, close, next) ==
  \/ /\ listener[p] = test
     /\ Goto(p, open)
     /\ UNCHANGED <<member, acceptor, accept, accepted, shutdownVars, connVars, misused>>
  \/ TestOpen(p, q, open, close, next)
  \/ CloseMember(p, q, close, next)
  \/ listener[p] \in {open, close} /\ ~member[q] /\ Crash

\* Mutant of UninstallListener: the acceptor is destroyed when it was closed.
UninstallResets(p, q, test, open, close, next) ==
  \/ TestMember(p, q, test, open, next)
  \/ TestOpen(p, q, open, close, next)
  \/ /\ listener[p] = close
     /\ member[q]
     /\ acceptor' = [acceptor EXCEPT ![q] = "destroyed"]
     /\ accept' = [accept EXCEPT ![q] = Cancelled(accept[q])]
     /\ member' = [member EXCEPT ![q] = FALSE]
     /\ Goto(p, next)
     /\ UNCHANGED <<accepted, shutdownVars, connVars, misused>>
  \/ listener[p] \in {open, close} /\ ~member[q] /\ Crash

\* uninstall_listeners, for the acceptor of port q: it is closed if the member
\* is not null and the acceptor open.  The member is read three times, and may
\* be moved from in between.
UninstallListener(p, q, test, open, close, next) ==
  \/ TestMember(p, q, test, open, next)
  \/ TestOpen(p, q, open, close, next)
  \/ CloseMember(p, q, close, next)
  \/ listener[p] \in {open, close} /\ ~member[q] /\ Crash

UninstallListeners(p) ==
  \/ UninstallListener(p, "http", "testHttp", "openHttp", "closeHttp", "testHttps")
  \/ UninstallListener(p, "https", "testHttps", "openHttps", "closeHttps", "ended")

------------------------------------------------------------------------------
\* The shutdown.

\* The signal handler: schedule_shutdown sets shutdown_pending_.
OnSignal ==
  /\ ThreadFree
  /\ signal = "ok"
  /\ signal' = "done"
  /\ pending' = TRUE
  /\ shutdown' = "snapshot"
  /\ UNCHANGED <<listenVars, toStop, stopped, connVars, misused>>

\* The signal handler, called because the wait was cancelled.
OnSignalCancelled ==
  /\ ThreadFree
  /\ signal = "aborted"
  /\ signal' = "done"
  /\ UNCHANGED <<listenVars, pending, shutdown, toStop, stopped, connVars, misused>>

\* stop_sessions under session_mtx_: the sessions that still exist are
\* collected, the others are erased from the table.
Snapshot ==
  /\ shutdown = "snapshot"
  /\ registered' = {s \in registered : Alive(s)}
  /\ toStop' = {s[1] : s \in registered'}
  /\ shutdown' = "stop"
  /\ UNCHANGED <<listenVars, pending, signal, stopped, conn, contextOnce, contextReady, misused>>

\* Mutant of StopSession: the loop does not advance.
StopSessionAgain ==
  /\ shutdown = "stop"
  /\ \E c \in toStop : stopped' = stopped \union {c}
  /\ UNCHANGED <<listenVars, pending, signal, shutdown, toStop, connVars, misused>>

\* stop_sessions without the mutex: stop() of each collected session.
StopSession ==
  /\ shutdown = "stop"
  /\ \E c \in toStop :
       /\ toStop' = toStop \ {c}
       /\ stopped' = stopped \union {c}
  /\ UNCHANGED <<listenVars, pending, signal, shutdown, connVars, misused>>

\* Mutant of SessionsStopped: close_acceptors is not called.
SessionsStoppedOnly ==
  /\ shutdown = "stop"
  /\ toStop = {}
  /\ shutdown' = "done"
  /\ UNCHANGED <<listenVars, pending, signal, toStop, stopped, connVars, misused>>

SessionsStopped ==
  /\ shutdown = "stop"
  /\ toStop = {}
  /\ shutdown' = "moveHttp"
  /\ UNCHANGED <<listenVars, pending, signal, toStop, stopped, connVars, misused>>

\* close_acceptors: the members are moved into a list, one after the other, the
\* acceptors in it are closed in this order, and destroyed with the list in the
\* reverse one.
MoveAcceptor(p, from, to) ==
  /\ shutdown = from
  /\ member' = [member EXCEPT ![p] = FALSE]
  /\ shutdown' = to
  /\ UNCHANGED <<acceptor, listener, accept, accepted, pending, signal, toStop, stopped, connVars,
                 misused>>

ShutAcceptor(p, from, to) ==
  /\ shutdown = from
  /\ Close(p)
  /\ shutdown' = to
  /\ UNCHANGED <<member, listener, accepted, pending, signal, toStop, stopped, connVars, misused>>

DropAcceptor(p, from, to) ==
  /\ shutdown = from
  /\ acceptor' = [acceptor EXCEPT ![p] = "destroyed"]
  /\ shutdown' = to
  /\ UNCHANGED <<member, listener, accept, accepted, pending, signal, toStop, stopped, connVars,
                 misused>>

CloseAcceptors ==
  \/ MoveAcceptor("http", "moveHttp", "moveHttps")
  \/ MoveAcceptor("https", "moveHttps", "shutHttp")
  \/ ShutAcceptor("http", "shutHttp", "shutHttps")
  \/ ShutAcceptor("https", "shutHttps", "dropHttps")
  \/ DropAcceptor("https", "dropHttps", "dropHttp")
  \/ DropAcceptor("http", "dropHttp", "done")

Shutdown ==
  \/ Snapshot
  \/ StopSession
  \/ SessionsStopped
  \/ CloseAcceptors

------------------------------------------------------------------------------
\* No work is left in io_: its threads end and run() returns.
Finished ==
  /\ \A p \in Ports : listener[p] = "ended"
  /\ signal = "done"
  /\ shutdown \in {"none", "done"}
  /\ \A c \in Conns : conn[c] \in {"idle", "closed"}

Crashed == misused = "crash"

Over == (Finished \/ Crashed) /\ UNCHANGED vars

Clients == \E p \in Ports : Connect(p) \/ AcceptFails(p)

Sessions == \E c \in Conns : OnPeeked(c) \/ OnHandshaken(c) \/ SessionEnds(c)

Listener(p) ==
  \/ ListenerBegins(p)
  \/ CheckPending(p)
  \/ AsyncAccept(p)
  \/ OnAborted(p)
  \/ OnAcceptError(p)
  \/ OnAccepted(p)
  \/ CancelSignals(p)
  \/ UninstallListeners(p)

SignalHandler == OnSignal \/ OnSignalCancelled

Step ==
  \/ Clients
  \/ SignalArrives
  \/ Sessions
  \/ \E p \in Ports : Listener(p)
  \/ SignalHandler
  \/ Shutdown

Next == (~Crashed /\ Step) \/ Over

Spec == Init /\ [][Next]_vars

------------------------------------------------------------------------------
\* Fairness.

\* The threads of io_ run every queued handler, and a handler that has begun
\* goes on, unless the program crashes.
ThreadFairness ==
  /\ \A p \in Ports : WF_vars(~Crashed /\ Listener(p))
  /\ WF_vars(~Crashed /\ SignalHandler)
  /\ WF_vars(~Crashed /\ Shutdown)

\* The peers make progress: a client that was accepted sends something or goes
\* away, a TLS handshake ends, and so does every session.  The code sets no
\* deadline to the first two, and HandshakeSession::stop() does nothing.
PeerFairness ==
  \A c \in Conns : WF_vars(~Crashed /\ (OnPeeked(c) \/ OnHandshaken(c) \/ SessionEnds(c)))

ThreadFairSpec == Spec /\ ThreadFairness

------------------------------------------------------------------------------
\* Safety.

\* No HTTP session slips between the table's snapshot and the refusal of new
\* ones: whatever is served once the shutdown has collected the sessions is
\* among those it stops (server.cpp:61, 289, 303).
NoSessionEscapesShutdown ==
  shutdown \notin {"none", "snapshot"} =>
    \A c \in Conns : conn[c] = "serving" => c \in toStop \union stopped

\* A handshake is never begun on a TLS context whose initialisation failed,
\* also after an earlier failure used up the once_flag (server.cpp:142-149).
HandshakeContextReady ==
  \A c \in Conns : conn[c] = "handshaking" => contextReady

\* The places of the shutdown at which close_acceptors has begun to move from
\* the members.
AcceptorsTaken == {"moveHttps", "shutHttp", "shutHttps", "dropHttps", "dropHttp", "done"}

\* An acceptor is used after its destruction, or reached through a moved-from
\* member, only if the shutdown has overtaken a listener on another thread:
\* never with one thread, whatever the order of the handlers, and on no number
\* of threads by two listeners that end and uninstall each other.  That much is
\* left of the protection that acceptor_mtx_ does not give, since
\* close_acceptors locks it and nothing else does (server.cpp:76, 234, 325).
MisuseNeedsOverlap == misused # "no" => NumThreads > 1 /\ shutdown \in AcceptorsTaken

\* The server's life as a whole, for ServerLifecycle.
Mode == IF Finished THEN "ended" ELSE IF pending THEN "draining" ELSE "running"

Life ==
  [c \in Conns |-> IF conn[c] \in {"idle", "accepted", "peeking"} THEN "new"
                   ELSE IF conn[c] = "closed" THEN "gone" ELSE "active"]

Lifecycle == INSTANCE ServerLifecycle WITH mode <- Mode, life <- Life

\* The server as a whole behaves as promised by ServerLifecycle: it admits no
\* connection once it was told to shut down, and run() returns only when every
\* session is gone (server.cpp:44, 61, 289).
ImplementsLifecycle == Lifecycle!Spec

\* A listener that has left its loop for good and uninstalls what keeps io_
\* busy, or has ended.
Leaving ==
  {"cancel", "testHttp", "openHttp", "closeHttp", "testHttps", "openHttps", "closeHttps", "ended"}

AListenerEnded == \E p \in Ports : listener[p] = "ended"

\* The acceptors that close_acceptors has taken and has yet to close.
ToClose ==
  {p \in Ports : \/ p = "http" /\ shutdown \in {"moveHttps", "shutHttp"}
                 \/ p = "https" /\ shutdown \in {"shutHttp", "shutHttps"}}

\* Once a listener has ended, for whatever reason and however the shutdown has
\* overlapped with it, nothing is awaited any more that only a client or the
\* operator could bring about: no signal and no connection, on either port,
\* but for an accept that close_acceptors is about to abort (server.cpp:97,
\* 234, 330).
EndReleasesWaits ==
  AListenerEnded \/ shutdown = "done" =>
    /\ signal # "pending"
    /\ \A p \in Ports : accept[p] = "pending" => p \in ToClose

\* No thread runs a handler and none is queued for one.
Quiet ==
  /\ \A p \in Ports : listener[p] \in {"accepting", "ended"} /\ accept[p] \notin Completed
  /\ shutdown \in {"none", "done"}
  /\ signal \notin Completed

\* run() is not kept from returning by a wait that somebody forgot.  Told to shut
\* down, or left by one listener, a server that has nothing to run and no
\* connection any more has nothing to wait for either, on whichever threads the
\* signal, the listeners and the shutdown have overlapped (server.cpp:45, 61, 97).
QuietMeansFinished ==
  /\ Quiet
  /\ pending \/ AListenerEnded
  /\ \A c \in Conns : conn[c] \in {"idle", "closed"}
  => Finished

\* In single-request mode every request that is handled costs the server a
\* listener: beyond the one request that the mode is named for, it handles at
\* most one more, on the other port (server.cpp:91).
EachRequestEndsAListener ==
  SingleRequest =>
    Cardinality({c \in Conns : conn[c] \notin {"idle", "accepted"}})
      <= Cardinality({p \in Ports : listener[p] \in Leaving})

\* The comment on SingleRequest, "Handle exactly one request, then stop"
\* (config.h:12): no second connection is dispatched.
SingleRequestHandlesAtMostOne ==
  SingleRequest => Cardinality({c \in Conns : conn[c] \notin {"idle", "accepted"}}) <= 1

\* The comment on the aborted branch of listener, "Explicit for aborted state
\* (e.g. acceptor closed)" (server.cpp:78): a listener learns from an aborted
\* accept, and not from a failed one, that its acceptor was closed.
ClosedAcceptorAborts ==
  [][\A p \in Ports : accept[p]' = "error" /\ accept[p] # "error" => acceptor[p] = "open"]_vars

------------------------------------------------------------------------------
\* What makes the safety properties inductive.

\* The once_flag is used up by a successful initialisation only.
ContextInv == contextOnce => contextReady

\* The shutdown begins once, with the signal, and has stopped nothing before
\* it has collected the sessions.
ShutdownInv ==
  /\ shutdown # "none" => pending
  /\ signal # "done" => shutdown = "none"
  /\ shutdown \in {"none", "snapshot"} => stopped = {}

\* Every HTTP session that exists is in the table.
TableInv == \A c \in Conns : conn[c] = "serving" => <<c, "serving">> \in registered

\* A listener awaits at most one accept, and the connections taken by the
\* accepts are different ones that nobody has dispatched.
AcceptInv ==
  /\ \A p \in Ports : Holds(accept[p]) => listener[p] = "accepting"
  /\ \A p \in Ports : \A c \in accepted[p] : conn[c] = "accepted"
  /\ accepted["http"] \intersect accepted["https"] = {}

ServerInv ==
  /\ TypeOK
  /\ ContextInv
  /\ ShutdownInv
  /\ TableInv
  /\ AcceptInv
  /\ HandshakeContextReady
  /\ NoSessionEscapesShutdown

\* The members are null from the moves of close_acceptors on, the acceptors
\* closed from its closes on and destroyed at its end, and only an open
\* acceptor has an accept pending.
AcceptorInv ==
  /\ \A p \in Ports : accept[p] = "pending" => acceptor[p] = "open"
  /\ member["http"] <=> shutdown \notin AcceptorsTaken
  /\ member["https"] <=> shutdown \notin AcceptorsTaken \ {"moveHttps"}
  /\ \A p \in Ports : acceptor[p] = "open" => member[p] \/ p \in ToClose
  /\ \A p \in Ports : acceptor[p] = "destroyed" => shutdown \in {"dropHttp", "done"}

\* A listener that has dealt with the http acceptor leaves it closed, and when an
\* accept was aborted or a listener has ended, no listener can accept any more,
\* unless on an acceptor that close_acceptors has yet to close.
UninstallInv ==
  /\ \A p \in Ports : listener[p] \in {"testHttps", "openHttps", "closeHttps"} =>
       acceptor["http"] # "open" \/ "http" \in ToClose
  /\ \A p \in Ports : listener[p] = "ended" \/ accept[p] = "aborted" =>
       \A q \in Ports : acceptor[q] # "open" \/ q \in ToClose \/ listener[q] \in Leaving

\* Whoever closes an acceptor has disposed of the wait for a signal before.
SignalInv ==
  signal = "pending" =>
    \A p \in Ports : listener[p] \notin Leaving \ {"cancel"} /\ accept[p] # "aborted"

\* A listener that is suspended has an accept that will resume it, the signal is
\* awaited from the beginning, and the shutdown goes with shutdown_pending_.
WaitInv ==
  /\ \A p \in Ports : listener[p] = "accepting" => Holds(accept[p])
  /\ signal # "idle"
  /\ pending => shutdown # "none"

ReleaseInv == AcceptorInv /\ UninstallInv /\ SignalInv /\ WaitInv

\* One thread runs one handler at a time.  A listener has then seen
\* shutdown_pending_ and the members as they still are.
SoloInv ==
  /\ \A p \in Ports : listener[p] \in ListenerRuns =>
       /\ shutdown \notin ShutdownRuns
       /\ \A q \in Ports \ {p} : listener[q] \notin ListenerRuns
  /\ \A p \in Ports : listener[p] = "accept" => ~pending
  /\ ~pending => \A p \in Ports : acceptor[p] # "destroyed"
  /\ \A p \in Ports : listener[p] \in {"openHttp", "closeHttp"} => member["http"]
  /\ \A p \in Ports : listener[p] \in {"openHttps", "closeHttps"} => member["https"]
  /\ misused = "no"

------------------------------------------------------------------------------
\* Liveness.

ListenersEnded == \A p \in Ports : listener[p] = "ended"

\* When one listener ends, for a failed accept or after the single request,
\* the other one ends too, whatever the peers do; unless a shutdown overlaps
\* and the program crashes.
ListenersEndTogether == AListenerEnded ~> ListenersEnded \/ Crashed

\* A shutdown is carried through, and stops both listeners, whatever the peers
\* do.  It is not if a listener on another thread is using an acceptor at that
\* time and the program crashes: see MisuseNeedsOverlap.
ShutdownCompletes == pending ~> (shutdown = "done" /\ ListenersEnded) \/ Crashed

\* After a shutdown, or the end of a listener, run() returns provided that the
\* peers make progress (server.cpp:45) and that the program does not crash.
RunReturns == PeerFairness => (pending \/ AListenerEnded) ~> Finished \/ Crashed

==============================================================================
