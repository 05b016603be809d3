---------------------------- MODULE HTTPSession ------------------------------
(***************************************************************************)
(* HTTPSession<T>: one client connection, from its registration with the   *)
(* server to its destruction, together with the OutgoingSession it may     *)
(* create.                                                                 *)
(*                                                                         *)
(* Every handler of the session runs on its strand, so a handler, up to    *)
(* its next co_await, is one step.  What interleaves is the order in which *)
(* the operations settle and in which their queued handlers run: the       *)
(* header read, the header deadline, the writes of the four possible       *)
(* replies, the upstream's answer, and stop() called by Server's shutdown. *)
(*                                                                         *)
(* The rate limiter's verdict and the request's target are inputs.         *)
(***************************************************************************)
EXTENDS Naturals

CONSTANT MaxChunks      \* Bound: chunks the upstream sends in one answer

ASSUME MaxChunksAssumption == MaxChunks \in Nat

VARIABLES
  started,     \* start_impl has begun
  stopped,     \* SessionBase::stopped_
  socket,      \* the lowest layer of http_stream_
  timer,       \* the wait of reading_timeout_guard
  read,        \* async_read_until of the header
  request,     \* what on_request decided about the request
  write,       \* for each replier, its async_write of response_
  response,    \* the replier whose text response_ holds
  stage, awaited, received, sent, answer   \* the OutgoingSession

Out == INSTANCE OutgoingSession

sessionVars == <<started, stopped, socket, timer, read, request, write, response>>
outgoingVars == <<stage, awaited, received, sent, answer>>
vars == <<sessionVars, outgoingVars>>

INSTANCE AsyncOp

\* The coroutines that assign response_ and write it to the client:
\* on_header_timeout, on_request_disallow, on_health_request and
\* on_outgoing_session_completed.
Repliers == {"timeout", "disallow", "health", "proxied"}

Verdicts == {"none", "disallowed", "health", "forwarded"}

TypeOK ==
  /\ started \in BOOLEAN
  /\ stopped \in BOOLEAN
  /\ socket \in {"open", "closed"}
  /\ timer \in AsyncOps
  /\ read \in AsyncOps
  /\ request \in Verdicts
  /\ write \in [Repliers -> AsyncOps]
  /\ response \in Repliers \union {"empty"}
  /\ Out!TypeOK

\* The server has accepted the connection, constructed the session and
\* registered it; start() has put start_impl on the strand.
Init ==
  /\ started = FALSE
  /\ stopped = FALSE
  /\ socket = "open"
  /\ timer = "idle"
  /\ read = "idle"
  /\ request = "none"
  /\ write = [r \in Repliers |-> "idle"]
  /\ response = "empty"
  /\ Out!Init

\* Something still holds a shared_ptr to the session.  When nothing does, the
\* destructor runs and closes the socket.  A session that has not begun is
\* taken to be alive; SessionLaunch has the case in which it is not.
Live ==
  \/ ~started
  \/ Holds(timer)
  \/ Holds(read)
  \/ \E r \in Repliers : Holds(write[r])
  \/ Out!Active

\* The client's connection is closed, by shutdown() or by the destructor.
Released == socket = "closed" \/ ~Live

------------------------------------------------------------------------------
\* The client, the clock and the kernel.

HeaderArrives ==
  /\ read = "pending"
  /\ read' = "ok"
  /\ UNCHANGED <<started, stopped, socket, timer, request, write, response, outgoingVars>>

\* The client closes or resets the connection before the header is complete.
ClientBreaks ==
  /\ read = "pending"
  /\ read' = "error"
  /\ UNCHANGED <<started, stopped, socket, timer, request, write, response, outgoingVars>>

DeadlineExpires ==
  /\ timer = "pending"
  /\ timer' = "ok"
  /\ UNCHANGED <<started, stopped, socket, read, request, write, response, outgoingVars>>

WriteSettles(r) ==
  /\ write[r] = "pending"
  /\ \E outcome \in {"ok", "error"} : write' = [write EXCEPT ![r] = outcome]
  /\ UNCHANGED <<started, stopped, socket, timer, read, request, response, outgoingVars>>

UpstreamStep ==
  /\ Out!Upstream
  /\ UNCHANGED sessionVars

------------------------------------------------------------------------------
\* Helpers of the handlers.

\* response_ is assigned and its write is started.
Reply(r) ==
  /\ response' = r
  /\ write' = [write EXCEPT ![r] = Issued(socket)]

\* Mutant of Shutdown: the pending read survives the shutdown.
ShutdownKeepsRead(writes) ==
  /\ socket' = "closed"
  /\ write' = [r \in Repliers |-> Cancelled(writes[r])]
  /\ UNCHANGED read

\* shutdown(): the socket is shut down and closed, which aborts what is
\* pending on it.  `writes' are the writes as the calling handler leaves them.
Shutdown(writes) ==
  /\ socket' = "closed"
  /\ read' = Cancelled(read)
  /\ write' = [r \in Repliers |-> Cancelled(writes[r])]

Settled(r) == [write EXCEPT ![r] = "done"]

------------------------------------------------------------------------------
\* The handlers.

\* start_impl and obtain_header up to its co_await: the TLS client context
\* cannot be set up, or the deadline is armed and the read is started.
Start ==
  /\ ~started
  /\ started' = TRUE
  /\ \/ UNCHANGED <<timer, read>>
     \/ timer' = "pending" /\ read' = Issued(socket)
  /\ UNCHANGED <<stopped, socket, request, write, response, outgoingVars>>

\* Mutant of OnReadFailed: the timer is cancelled before the error is looked at.
OnReadFailedCancels ==
  /\ read \in {"error", "aborted"}
  /\ read' = "done"
  /\ timer' = Cancelled(timer)
  /\ UNCHANGED <<started, stopped, socket, request, write, response, outgoingVars>>

\* obtain_header after a failed or aborted read: it returns, and leaves the
\* timer armed.
OnReadFailed ==
  /\ read \in {"error", "aborted"}
  /\ read' = "done"
  /\ UNCHANGED <<started, stopped, socket, timer, request, write, response, outgoingVars>>

\* Mutant of OnRequest: a rejected request is still looked at.
OnRequestFallsThrough ==
  \/ /\ request' = "disallowed"
     /\ write' = [write EXCEPT !["disallow"] = Issued(socket), !["health"] = Issued(socket)]
     /\ response' = "health"
     /\ UNCHANGED outgoingVars
  \/ /\ request' = "forwarded"
     /\ Out!Start
     /\ UNCHANGED <<write, response>>

\* on_request: no token, "/health", or any other target.
OnRequest ==
  \/ /\ request' = "disallowed"
     /\ Reply("disallow")
     /\ UNCHANGED outgoingVars
  \/ /\ request' = "health"
     /\ Reply("health")
     /\ UNCHANGED outgoingVars
  \/ /\ request' = "forwarded"
     /\ Out!Start
     /\ UNCHANGED <<write, response>>

\* Mutant of OnHeader: the timer is not cancelled.
OnHeaderKeepsTimer ==
  /\ read = "ok"
  /\ read' = "done"
  /\ IF stopped
     THEN UNCHANGED <<request, write, response, outgoingVars>>
     ELSE OnRequest
  /\ UNCHANGED <<started, stopped, socket, timer>>

\* Mutant of OnHeader: is_stopped() is not looked at.
OnHeaderIgnoresStop ==
  /\ read = "ok"
  /\ read' = "done"
  /\ timer' = Cancelled(timer)
  /\ OnRequest
  /\ UNCHANGED <<started, stopped, socket>>

\* obtain_header after the header was read, with on_header_obtained.
OnHeader ==
  /\ read = "ok"
  /\ read' = "done"
  /\ timer' = Cancelled(timer)
  /\ IF stopped
     THEN UNCHANGED <<request, write, response, outgoingVars>>
     ELSE OnRequest
  /\ UNCHANGED <<started, stopped, socket>>

\* The timer's handler was queued by cancel().
OnDeadlineCancelled ==
  /\ timer = "aborted"
  /\ timer' = "done"
  /\ UNCHANGED <<started, stopped, socket, read, request, write, response, outgoingVars>>

\* on_header_timeout up to its co_await: the first to request the stop answers
\* 408.
OnDeadline ==
  /\ timer = "ok"
  /\ timer' = "done"
  /\ stopped' = TRUE
  /\ IF stopped THEN UNCHANGED <<write, response>> ELSE Reply("timeout")
  /\ UNCHANGED <<started, socket, read, request, outgoingVars>>

\* Mutant of OnTimeoutWritten: the connection is left open after the 408.
OnTimeoutWrittenStaysOpen ==
  /\ write["timeout"] \in Completed
  /\ write' = Settled("timeout")
  /\ UNCHANGED <<started, stopped, socket, timer, read, request, response, outgoingVars>>

\* on_header_timeout after its write, whatever the write's outcome.
OnTimeoutWritten ==
  /\ write["timeout"] \in Completed
  /\ Shutdown(Settled("timeout"))
  /\ UNCHANGED <<started, stopped, timer, request, response, outgoingVars>>

\* on_request_disallow and on_health_request after their write: they return
\* and leave the connection to the destructor.
OnReplyWritten(r) ==
  /\ r \in {"disallow", "health"}
  /\ write[r] \in Completed
  /\ write' = Settled(r)
  /\ UNCHANGED <<started, stopped, socket, timer, read, request, response, outgoingVars>>

\* Mutant of Stop: the session is only marked, as by request_stop().
StopOnlyMarks ==
  /\ Live
  /\ ~stopped
  /\ stopped' = TRUE
  /\ UNCHANGED <<started, socket, timer, read, request, write, response, outgoingVars>>

\* The strand's part of stop(), called by Server::stop_sessions on a session
\* whose weak_ptr could be locked.
Stop ==
  /\ Live
  /\ ~stopped
  /\ stopped' = TRUE
  /\ Shutdown(write)
  /\ UNCHANGED <<started, timer, request, response, outgoingVars>>

\* The steps of the OutgoingSession that do not touch the client.
OutgoingStep ==
  /\ Out!Proceed \/ Out!Fail \/ Out!ReadChunk
  /\ UNCHANGED sessionVars

\* read_response at eof and on_outgoing_session_completed up to its co_await.
OnUpstreamEof ==
  /\ Out!Complete
  /\ Reply("proxied")
  /\ UNCHANGED <<started, stopped, socket, timer, read, request>>

\* on_outgoing_session_completed after its write, whatever the outcome.
OnProxiedWritten ==
  /\ write["proxied"] \in Completed
  /\ Shutdown(Settled("proxied"))
  /\ Out!Finish
  /\ UNCHANGED <<started, stopped, timer, request, response>>

\* Nothing holds the session: it has been destroyed.
Gone == ~Live /\ UNCHANGED vars

------------------------------------------------------------------------------
Environment ==
  \/ HeaderArrives
  \/ ClientBreaks
  \/ DeadlineExpires
  \/ \E r \in Repliers : WriteSettles(r)
  \/ UpstreamStep

Handlers ==
  \/ Start
  \/ OnReadFailed
  \/ OnHeader
  \/ OnDeadlineCancelled
  \/ OnDeadline
  \/ OnTimeoutWritten
  \/ \E r \in Repliers : OnReplyWritten(r)
  \/ OutgoingStep
  \/ OnUpstreamEof
  \/ OnProxiedWritten

Next == Environment \/ Handlers \/ Stop \/ Gone

Spec == Init /\ [][Next]_vars

------------------------------------------------------------------------------
\* Fairness.

\* io_ runs on at least one thread until nothing is left to do, so every
\* queued handler runs; the steady_timer expires; and a reply of the program's
\* own, a few hundred bytes, fits in the send buffer of a connection on which
\* no other write is stuck, so its write settles whatever the client does.
LocalFairness ==
  /\ WF_vars(Handlers)
  /\ WF_vars(DeadlineExpires)
  /\ \A r \in Repliers \ {"proxied"} :
        WF_vars(WriteSettles(r) /\ write["proxied"] # "pending")

\* What the code does not control: the client reads the proxied answer, and
\* every upstream operation settles.
PeerFairness ==
  /\ \A r \in Repliers : WF_vars(WriteSettles(r))
  /\ WF_vars(UpstreamStep)

LocallyFairSpec == Spec /\ LocalFairness

------------------------------------------------------------------------------
\* Safety.

\* The deadline beat the header to the strand, but its handler runs after the
\* header's: timer.cancel() no longer reaches it.
LateTimeout == request # "none" /\ write["timeout"] # "idle"

\* asio::async_write is given a view of response_, so response_ must not be
\* assigned again while that write is pending.  It is not, but for a late
\* deadline (http-session.cpp:164, 229, 263, 285).
PendingWriteOwnsBuffer ==
  \A r \in Repliers : write[r] = "pending" => response = r \/ LateTimeout

\* Whoever wins request_stop() closes the connection: at once in stop(), after
\* the 408 in on_header_timeout.  The loser relies on it and does nothing
\* (http-session.cpp:51, 159).
StopClosesConnection ==
  stopped => socket = "closed" \/ Holds(write["timeout"])

\* The client is never sent a truncated upstream answer as if it were whole:
\* the answer is relayed only at a clean end of the stream and with every
\* chunk of it (http-session.cpp:392, 399, 402).
ProxiedResponseIntact ==
  write["proxied"] # "idle" => answer = "whole" /\ received = sent

\* A stopped session takes no decision about a request any more: no token is
\* drawn and no upstream connection is opened for it (http-session.cpp:129,
\* 184).
StopIsFinal == [][stopped => request' = request]_vars

\* The header was obtained before the deadline expired: expired, and not merely
\* noticed.
TimelyRequest == request # "none" /\ timer # "ok" /\ write["timeout"] = "idle"

\* The comment on the cancelled branch of on_header_timeout, "timeout cancelled
\* because header was obtained" (http-session.cpp:151), as far as it is true: a
\* client whose request is timely is never answered 408, however long it takes.
TimelyRequestIsSafe == [](TimelyRequest => [](write["timeout"] = "idle"))

Client ==
  INSTANCE ClientExchange WITH
    reading <- read # "idle",
    verdict <- request,
    begun <- {r \in Repliers : write[r] # "idle"},
    over <- {r \in Repliers : write[r] = "done"},
    stopping <- stopped,
    open <- ~Released

\* The session keeps to ClientExchange, whatever the order of header, deadline,
\* stop and upstream answer: no reply is begun twice or without its verdict,
\* and the connection, which stop(), two of the repliers and the destructor
\* close, is never closed in front of a reply, nor without one but where the
\* code gives up in silence (http-session.cpp:63, 129, 159, 184, 349, 399).
ImplementsExchange == Client!Spec

\* The comment on the cancelled branch of on_header_timeout: "timeout
\* cancelled because header was obtained" (http-session.cpp:151).  A request
\* that is being served is not answered 408.
TimeoutCancelledOnceHeaderObtained == ~LateTimeout

------------------------------------------------------------------------------
\* What makes the safety properties inductive.

\* How far the upstream's answer has come, stage by stage.
AnswerInv ==
  /\ received = IF stage = "read" /\ awaited = "ok" THEN sent - 1 ELSE sent
  /\ stage \in {"none", "resolve", "connect", "handshake", "send"} => sent = 0
  /\ stage = "read" /\ awaited = "eof" => answer = "whole"
  /\ stage = "responding" => answer = "whole"
  /\ write["proxied"] # "idle" => stage \in {"responding", "ended"} /\ answer = "whole"

\* The handlers of one session run in a fixed order, and each replier writes
\* on the verdict that calls for it, and on that one only.
OrderInv ==
  /\ ~started => timer = "idle"
  /\ timer = "idle" <=> read = "idle"
  /\ request # "none" => read = "done"
  /\ request = "disallowed" <=> write["disallow"] # "idle"
  /\ request = "health" <=> write["health"] # "idle"
  /\ request # "forwarded" => stage = "none"
  /\ write["timeout"] # "idle" => stopped

\* The deadline is disarmed by the header only, or has run; and the connection
\* is not closed under a client that is still being read.
DeadlineInv ==
  /\ request # "none" => timer # "pending"
  /\ timer \in {"aborted", "done"} => request # "none" \/ stopped
  /\ socket = "closed" => request # "none" \/ stopped

IInv ==
  /\ TypeOK
  /\ AnswerInv
  /\ OrderInv
  /\ DeadlineInv
  /\ StopClosesConnection
  /\ PendingWriteOwnsBuffer

------------------------------------------------------------------------------
\* Liveness.

\* A client that does not complete its header is answered or dropped: the
\* deadline protects the server from idle connections, whatever the peers do.
HeaderDeadline == started ~> request # "none" \/ Released

\* A stopped session lets go of its client whatever the peers do, unless its
\* 408 is queued behind a proxied answer that the client does not read.
StoppedReleasesClient ==
  stopped ~> \/ Released
             \/ write["timeout"] = "pending" /\ write["proxied"] = "pending"

\* The session is destroyed and run() can return, provided that the peers make
\* progress: neither an upstream operation nor the write of its answer has a
\* deadline, and OutgoingSession::stop() does nothing (http-session.h:65).
EventuallyDestroyed == PeerFairness => <>[]~Live

==============================================================================
