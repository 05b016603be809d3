---------------------------- MODULE SessionLaunch -----------------------------
(***************************************************************************)
(* Who owns an HTTPSession while it is launched and, at the same time, the *)
(* server shuts down.  Threads of io_ run launch_http_session, one for     *)
(* each session, and one runs stop_sessions; both dispatch a handler to    *)
(* the session's strand.  The strand runs a handler on the calling thread  *)
(* if it is idle.  If it is not, the handler waits, the caller goes on,    *)
(* and any thread that is free runs the handler later.                     *)
(*                                                                         *)
(* start() hands the strand a coroutine that holds no shared_ptr until     *)
(* start_impl has begun; stop()'s handler holds one from the beginning.    *)
(* What a session does once it has begun is modelled in HTTPSession.       *)
(***************************************************************************)
EXTENDS Naturals, FiniteSets

CONSTANTS
  Sessions,      \* Bound: the connections that become sessions
  NumThreads     \* threads that run io_

ASSUME LaunchAssumption ==
  /\ IsFiniteSet(Sessions)
  /\ NumThreads \in Nat \ {0}

VARIABLES
  launcher,    \* where launch_http_session of each session is
  stopper,     \* where schedule_shutdown is
  todo,        \* the sessions that stop_sessions has yet to stop
  registered,  \* the sessions of sessions_, which holds weak_ptrs
  owners,      \* the shared_ptrs to each session
  inline,      \* the handler a strand runs on the thread that dispatched it
  waiting,     \* the handlers that wait for a strand
  stopped,     \* the sessions whose stopped_ stop() has set
  lost         \* the sessions that start_impl began on after their end

vars == <<launcher, stopper, todo, registered, owners, inline, waiting, stopped, lost>>

\* launch_http_session's session, start_impl's self, stop_sessions'
\* active_sessions, and the self that stop()'s handler captures.
Owners == {"launch", "start", "active", "stop"}

Handlers == {"start", "stop"}

TypeOK ==
  /\ launcher \in [Sessions -> {"idle", "register", "start", "leave", "done"}]
  /\ stopper \in {"idle", "snapshot", "stop", "done"}
  /\ {todo, registered, stopped, lost} \subseteq SUBSET Sessions
  /\ owners \in [Sessions -> SUBSET Owners]
  /\ inline \in [Sessions -> Handlers \union {"none"}]
  /\ waiting \in [Sessions -> SUBSET Handlers]

Init ==
  /\ launcher = [s \in Sessions |-> "idle"]
  /\ stopper = "idle"
  /\ todo = {} /\ registered = {} /\ stopped = {} /\ lost = {}
  /\ owners = [s \in Sessions |-> {}]
  /\ inline = [s \in Sessions |-> "none"]
  /\ waiting = [s \in Sessions |-> {}]

\* The threads that launch a session, and the one that shuts the server down.
Launching == {s \in Sessions : launcher[s] \notin {"idle", "done"}}
Stopping == stopper \notin {"idle", "done"}

ThreadFree == Cardinality(Launching) + (IF Stopping THEN 1 ELSE 0) < NumThreads

\* asio::dispatch: the strand is idle, or the handler has to wait.
Dispatch(s, h) ==
  IF inline[s] = "none" /\ waiting[s] = {}
  THEN inline' = [inline EXCEPT ![s] = h] /\ UNCHANGED waiting
  ELSE waiting' = [waiting EXCEPT ![s] = @ \union {h}] /\ UNCHANGED inline

Acquire(s, o) == owners' = [owners EXCEPT ![s] = @ \union {o}]
Release(s, o) == owners' = [owners EXCEPT ![s] = @ \ {o}]

------------------------------------------------------------------------------
\* launch_http_session, on a thread of its own.

Goto(s, place) == launcher' = [launcher EXCEPT ![s] = place]

\* The session is constructed.
Launch(s) ==
  /\ launcher[s] = "idle"
  /\ ThreadFree
  /\ Goto(s, "register")
  /\ Acquire(s, "launch")
  /\ UNCHANGED <<stopper, todo, registered, inline, waiting, stopped, lost>>

\* Mutant of Register: shutdown_pending_ is not looked at.
RegisterAlways(s) ==
  /\ launcher[s] = "register"
  /\ Goto(s, "start")
  /\ registered' = registered \union {s}
  /\ UNCHANGED <<stopper, todo, owners, inline, waiting, stopped, lost>>

\* register_session; shutdown_pending_ is set from the start of the shutdown.
Register(s) ==
  /\ launcher[s] = "register"
  /\ IF stopper = "idle"
     THEN Goto(s, "start") /\ registered' = registered \union {s}
     ELSE Goto(s, "leave") /\ UNCHANGED registered
  /\ UNCHANGED <<stopper, todo, owners, inline, waiting, stopped, lost>>

\* Mutant of CallStart: start_impl is posted, not dispatched.
CallStartPosts(s) ==
  /\ launcher[s] = "start"
  /\ waiting' = [waiting EXCEPT ![s] = @ \union {"start"}]
  /\ Goto(s, "leave")
  /\ UNCHANGED <<stopper, todo, registered, owners, inline, stopped, lost>>

\* start() spawns start_impl on the strand.
CallStart(s) ==
  /\ launcher[s] = "start"
  /\ Dispatch(s, "start")
  /\ Goto(s, "leave")
  /\ UNCHANGED <<stopper, todo, registered, owners, stopped, lost>>

\* start() has returned, and so does launch_http_session.
LeaveLaunch(s) ==
  /\ launcher[s] = "leave"
  /\ inline[s] # "start"
  /\ Goto(s, "done")
  /\ Release(s, "launch")
  /\ UNCHANGED <<stopper, todo, registered, inline, waiting, stopped, lost>>

------------------------------------------------------------------------------
\* schedule_shutdown, on a thread of its own.

BeginShutdown ==
  /\ stopper = "idle"
  /\ ThreadFree
  /\ stopper' = "snapshot"
  /\ UNCHANGED <<launcher, todo, registered, owners, inline, waiting, stopped, lost>>

\* Mutant of Snapshot: the table's pointers are taken for owners without lock().
SnapshotUnlocked ==
  /\ stopper = "snapshot"
  /\ stopper' = "stop"
  /\ todo' = registered
  /\ owners' = [s \in Sessions |-> owners[s] \union IF s \in todo' THEN {"active"} ELSE {}]
  /\ UNCHANGED <<launcher, registered, inline, waiting, stopped, lost>>

\* stop_sessions locks every weak_ptr whose session still exists.
Snapshot ==
  /\ stopper = "snapshot"
  /\ stopper' = "stop"
  /\ todo' = {s \in registered : owners[s] # {}}
  /\ owners' = [s \in Sessions |-> owners[s] \union IF s \in todo' THEN {"active"} ELSE {}]
  /\ UNCHANGED <<launcher, registered, inline, waiting, stopped, lost>>

\* No call of stop() is running its handler.
StopReturned == \A s \in Sessions : inline[s] # "stop"

\* Mutant of CallStop: the handler captures this and no self.
CallStopRaw(s) ==
  /\ stopper = "stop"
  /\ s \in todo
  /\ StopReturned
  /\ todo' = todo \ {s}
  /\ Dispatch(s, "stop")
  /\ UNCHANGED <<launcher, stopper, registered, owners, stopped, lost>>

\* stop() dispatches its handler to the strand.
CallStop(s) ==
  /\ stopper = "stop"
  /\ s \in todo
  /\ StopReturned
  /\ todo' = todo \ {s}
  /\ Dispatch(s, "stop")
  /\ Acquire(s, "stop")
  /\ UNCHANGED <<launcher, stopper, registered, stopped, lost>>

\* Mutant of LeaveStop: active_sessions outlives stop_sessions.
LeaveStopKeepsActive ==
  /\ stopper = "stop"
  /\ todo = {}
  /\ StopReturned
  /\ stopper' = "done"
  /\ UNCHANGED <<launcher, todo, registered, owners, inline, waiting, stopped, lost>>

\* stop_sessions returns.
LeaveStop ==
  /\ stopper = "stop"
  /\ todo = {}
  /\ StopReturned
  /\ stopper' = "done"
  /\ owners' = [s \in Sessions |-> owners[s] \ {"active"}]
  /\ UNCHANGED <<launcher, todo, registered, inline, waiting, stopped, lost>>

------------------------------------------------------------------------------
\* The strand.

\* start_impl up to its first co_await.  shared_from_this() of a session that
\* has been destroyed is undefined, and nothing is said of what follows; if
\* the TLS context cannot be set up self goes at once, or else it stays.
RunStart(s) ==
  /\ IF owners[s] = {}
     THEN lost' = lost \union {s} /\ UNCHANGED owners
     ELSE UNCHANGED lost /\ (UNCHANGED owners \/ Acquire(s, "start"))
  /\ UNCHANGED stopped

\* Mutant of RunStop: the handler leaves its self behind.
RunStopKeepsSelf(s) ==
  /\ stopped' = stopped \union {s}
  /\ UNCHANGED <<owners, lost>>

\* stop()'s handler, whose self goes with it.
RunStop(s) ==
  /\ stopped' = stopped \union {s}
  /\ Release(s, "stop")
  /\ UNCHANGED lost

Run(s, h) == IF h = "start" THEN RunStart(s) ELSE RunStop(s)

RunInline(s) ==
  /\ inline[s] # "none"
  /\ Run(s, inline[s])
  /\ inline' = [inline EXCEPT ![s] = "none"]
  /\ UNCHANGED <<launcher, stopper, todo, registered, waiting>>

RunWaiting(s) ==
  /\ inline[s] = "none"
  /\ ThreadFree
  /\ \E h \in waiting[s] : /\ Run(s, h)
                           /\ waiting' = [waiting EXCEPT ![s] = @ \ {h}]
  /\ UNCHANGED <<launcher, stopper, todo, registered, inline>>

\* The last coroutine of the session returns.
SessionEnds(s) ==
  /\ "start" \in owners[s]
  /\ inline[s] = "none"
  /\ ThreadFree
  /\ Release(s, "start")
  /\ UNCHANGED <<launcher, stopper, todo, registered, inline, waiting, stopped, lost>>

------------------------------------------------------------------------------
\* No thread and no strand has anything left to do, or the behaviour is
\* undefined.
Over ==
  /\ \/ lost # {}
     \/ /\ stopper = "done"
        /\ \A s \in Sessions :
             launcher[s] = "done" /\ waiting[s] = {} /\ "start" \notin owners[s]
  /\ UNCHANGED vars

LaunchStep(s) == Launch(s) \/ Register(s) \/ CallStart(s) \/ LeaveLaunch(s)

StopSessions == Snapshot \/ (\E s \in Sessions : CallStop(s)) \/ LeaveStop

StrandStep(s) == RunInline(s) \/ RunWaiting(s) \/ SessionEnds(s)

Step ==
  \/ BeginShutdown
  \/ StopSessions
  \/ \E s \in Sessions : LaunchStep(s) \/ StrandStep(s)

Next == (lost = {} /\ Step) \/ Over

Spec == Init /\ [][Next]_vars

\* A thread goes on with what it has begun, and a handler that waits gets its
\* turn.
ThreadFairness ==
  /\ WF_vars(lost = {} /\ StopSessions)
  /\ \A s \in Sessions :
       /\ WF_vars(lost = {} /\ (Register(s) \/ CallStart(s) \/ LeaveLaunch(s)))
       /\ WF_vars(lost = {} /\ (RunInline(s) \/ RunWaiting(s)))

\* The peers make progress, so that a stopped session ends (see HTTPSession,
\* EventuallyDestroyed).  The code does not see to it: OutgoingSession::stop()
\* does nothing, and no operation on the upstream has a deadline.
PeerFairness ==
  \A s \in Sessions : WF_vars(lost = {} /\ s \in stopped /\ SessionEnds(s))

FairSpec == Spec /\ ThreadFairness

------------------------------------------------------------------------------
\* start_impl begins with "auto self = this->shared_from_this();"
\* (http-session.cpp:61), which requires that somebody owns the session.
StartFindsOwner == lost = {}

\* A session is destroyed before start_impl begins only if stop()'s handler
\* ran before it, on another thread than the launch: its client is being
\* dropped anyway, and no session is lost in a server that is not shutting down
\* (server.cpp:180, http-session.cpp:42).
LostOnlyBehindStop == lost # {} => NumThreads > 1 /\ lost \subseteq stopped

\* stop()'s handler is on its way to the session's strand, or running there.
StopUnderWay(s) == inline[s] = "stop" \/ "stop" \in waiting[s]

\* What start_impl cannot rely on, stop() can: the session that stop_sessions is
\* about to stop, and the one whose handler waits for the strand, however long,
\* still exists (server.cpp:289, http-session.cpp:49).
StopFindsOwner ==
  \A s \in Sessions : s \in todo \/ StopUnderWay(s) => owners[s] # {}

\* No session that is in the table and still exists is passed over by
\* stop_sessions: it is stopped, or is going to be (server.cpp:61, 289, 303).
EverySessionIsStopped ==
  stopper \in {"stop", "done"} =>
    \A s \in registered : owners[s] # {} => s \in todo \union stopped \/ StopUnderWay(s)

\* No shared_ptr is forgotten on the way: when neither the launch nor the
\* shutdown is busy with a session, only its own coroutines own it, and it goes
\* with the last of them (server.cpp:177, 287, http-session.cpp:49, 61).
NoOwnerLeaks ==
  \A s \in Sessions :
    s \notin Launching /\ ~Stopping /\ ~StopUnderWay(s) => owners[s] \subseteq {"start"}

\* The sessions, for ServerLifecycle: one that was registered is active as long
\* as it has an owner.
Mode == IF stopper = "idle" THEN "running" ELSE "draining"

Life ==
  [s \in Sessions |-> IF launcher[s] \in {"idle", "register"} THEN "new"
                     ELSE IF s \in registered /\ owners[s] # {} THEN "active" ELSE "gone"]

Lifecycle == INSTANCE ServerLifecycle WITH Conns <- Sessions, mode <- Mode, life <- Life

\* The owners of the sessions add up to the life cycle that the server promises:
\* no session becomes active once the shutdown has begun, and one whose last
\* owner is gone never has an owner again, although sessions_ still points to it
\* (server.cpp:180, 289, 303).
ImplementsLifecycle == Lifecycle!Spec

\* Once the shutdown has begun every session is destroyed, whatever was being
\* launched (server.cpp:289, 319), provided that the peers make progress: an
\* upstream that is silent keeps a stopped session for ever (http-session.h:65).
ShutdownReleases ==
  PeerFairness =>
    (stopper # "idle" ~> lost # {} \/ \A s \in Sessions : owners[s] = {})

------------------------------------------------------------------------------
\* What makes them inductive.

\* Whoever waits for a strand waits behind the other.
StrandInv ==
  \A s \in Sessions :
    /\ launcher[s] \in {"register", "start", "leave"} => "launch" \in owners[s]
    /\ inline[s] = "start" => launcher[s] = "leave"
    /\ waiting[s] # {} => launcher[s] \in {"leave", "done"}
    /\ "start" \in waiting[s] => s \in stopped \/ inline[s] = "stop"

\* stop_sessions' active_sessions owns the sessions it has yet to stop, and the
\* self of stop()'s handler the one it is about to stop, once.
OwnerInv ==
  /\ todo # {} => stopper = "stop"
  /\ \A s \in Sessions :
       /\ s \in todo => "active" \in owners[s]
       /\ StopUnderWay(s) => "stop" \in owners[s] /\ s \notin stopped
       /\ inline[s] = "stop" => "stop" \notin waiting[s]
       /\ StopUnderWay(s) \/ s \in stopped => stopper \in {"stop", "done"} /\ s \notin todo
       /\ "launch" \in owners[s] => s \in Launching
       /\ "active" \in owners[s] => stopper = "stop"
       /\ "stop" \in owners[s] => StopUnderWay(s)
       /\ launcher[s] = "idle" => owners[s] = {}
       /\ s \in registered => launcher[s] \notin {"idle", "register"}

StopInv == OwnerInv /\ EverySessionIsStopped

\* With one thread a launch and the shutdown exclude each other, so no handler
\* ever waits.
OneThreadInv ==
  NumThreads = 1 =>
    \A s \in Sessions : /\ s \in Launching => ~Stopping
                        /\ inline[s] = "stop" => Stopping
                        /\ waiting[s] = {}

IInv == TypeOK /\ StrandInv /\ LostOnlyBehindStop /\ OneThreadInv

==============================================================================
