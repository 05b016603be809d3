# market-bridge: a verification development

market-bridge is a proxy server in C++20 on top of Asio: clients send HTTP or HTTPS requests to it, it
answers `/health` itself, rejects what exceeds its rate limit, and forwards everything else over TLS to one
upstream exchange. This directory models its concurrent core and its start-up in TLA+. TLC checks the models on small
instances, and TLAPS proves every safety property, every action property and every refinement among them for every value of the constants.

## 1. Inventory

| component | source | state it keeps | operations | hard because |
|---|---|---|---|---|
| `HTTPSession<T>` | `http-session.{h,cpp}`, `utils/session-helper.h` | the client's stream, `stopped_`, the header's timer, `response_`, `request_` | `start`, `stop`, header read, header timeout, four replies, `shutdown` | the order in which completions reach the strand; one reply buffer; `stop()` against the timeout |
| `OutgoingSession` | `http-session.{h,cpp}` | the upstream stream, the answer so far, a pointer to the outer session | resolve, connect, handshake, send, read, hand over | failures at every stage, truncated answers, no deadline, empty `stop()` |
| `TokenBucket` | `tocken-bucket.{h,cpp}` | `tokens_`, `last_refill_`, `mutex_` | `allow`, `refill`, `reset` | shared by sessions on all threads; limits in every window of time |
| `Server`, listeners and shutdown | `server.{h,cpp}` | `shutdown_pending_`, the acceptors, the signal wait | `listener` (two), `schedule_shutdown`, `stop_sessions`, `close_acceptors`, `uninstall_*` | three threads, three mutexes that do not cover everything, two ways to end |
| `Server`, sessions | `server.{h,cpp}` | `sessions_`, the TLS server context and its `once_flag` | `dispatch_http_request`, `ssl_handshake`, `launch_http_session`, `register_session` | registration against the shutdown's snapshot; a failed `call_once` |
| `HandshakeSession` | `handshake_session.{h,cpp}` | the TLS stream | `start`, completion, empty `stop()` | no deadline |
| HTTP messages | `utils/http-helper.h` | none | `parse_request`, `generate_http_response`, `to_string` | malformed input |
| configuration | `config/config_json.*`, `common/config.h`, `common/app.h` | `Config` | read file, merge arguments, validate | precedence, partial failure, widths of numbers |
| program entry | `main.cpp`, `logs/logger.h` | the exit code, the logger | parse, set up the logger, run | several ways to give up |
| the rest | `startup-table.cpp`, `common/ec-handler.h` | none | | |

How they interact. `Server` accepts a socket and, after a peek or a TLS handshake where needed, hands it to an
`HTTPSession`, of which it keeps a weak pointer only; the coroutines of the session keep it alive. The session
asks the one `TokenBucket` and may create an `OutgoingSession`, which runs on the session's strand, owns the
session, and calls back `on_outgoing_session_completed`. The only call from the server to a session is `stop()`,
from the shutdown. Before all this `main` merges the defaults, the configuration file and the command line into the one
`Config` that the server and its sessions copy from. All of it runs on the worker threads that execute `io_context::run`, which returns when no
operation is outstanding. That is how the program ends.

What makes the components correct:

* a session answers a request at most from one source at a time, bounds the wait for the header, never passes on a
  truncated answer, closes its connection when stopped, and is destroyed in the end;
* the bucket never grants more than `burst_size` plus the rate allows in any window, and denies nothing else; at a rate and a burst
  of at least one, who is denied and waits as `Retry-After` says is denied again for a competitor only (with either of them 0,
  which the configuration accepts, waiting does not help);
* the server refuses or stops every session once a shutdown has begun, both listeners end together, no handshake uses a
  context that is not ready, no wait is forgotten that would keep `run()` from returning, and it returns;
* a session is owned by somebody whenever one of its handlers begins, and by nobody once it is over;
* the server is run with the settings that were asked for, exactly, and with nothing of a file that has an error.

`PROJECT.json` lists every hazard at its line with the properties that watch it.

## 2. Modules

| module | models | role |
|---|---|---|
| `AsyncOp` | Asio's side of one asynchronous operation (external) | definitions |
| `OutgoingSession` | `HTTPSession::OutgoingSession` | component, used by `HTTPSession` |
| `ClientExchange` | what a session promises its client | abstract specification |
| `HTTPSession` | `HTTPSession<T>` with its `OutgoingSession`; implements `ClientExchange` | component and composition |
| `HTTPSessionProofs` | | theorems of `HTTPSession` |
| `RateLimit` | what a rate limiter promises | abstract specification |
| `TokenBucket` | `TokenBucket`; implements `RateLimit` | component |
| `TokenBucketProofs` | | theorems of `TokenBucket` |
| `ServerLifecycle` | what the server promises about its life | abstract specification |
| `Server` | `Server`; implements `ServerLifecycle` | component |
| `ServerProofs`, `ServerListenerProofs` | | theorems of `Server`: sessions, contexts and life cycle; the end of the listeners |
| `SessionLaunch` | launching sessions against the shutdown: `launch_http_session`, `start`, `stop_sessions`, `stop` and the strand between them; implements `ServerLifecycle` | composition of `Server` and `HTTPSession` |
| `SessionLaunchProofs` | | theorems of `SessionLaunch` |
| `Startup`, `MCStartup` | `main`, `process_arguments`, `load_json_config` | component |
| `StartupProofs` | | theorems of `Startup` |

Most modules have few constants, all given in the configs, so TLC runs the component modules themselves; `MCStartup` adds the set of
numbers, some of them negative.
Definitions whose comment begins with "Mutant of" are the plausible bugs by which each property was tested: put in
place of the definition they name, they make TLC find the property violated.

### AsyncOp
An operation is `pending`, then completed with an outcome (`ok`, `eof`, `error`, `aborted`) while its handler is queued, then
`done`. Cancelling a timer or closing a socket acts on a pending operation only: an operation that has completed
delivers its outcome although its handler has not run. Most races in the session come from this. A pending operation
and a queued handler hold a shared pointer to the session.

### HTTPSession and OutgoingSession
All handlers of a session run on `strand_`, so one step is one handler up to its next `co_await`; `co_spawn` and `dispatch` on the
strand from the strand run at once and belong to the step. `timer`, `read`, `write[r]` and `awaited` are the operations, and
`response` says whose text `response_` holds. The environment settles operations (`HeaderArrives`, `ClientBreaks`, `DeadlineExpires`,
`WriteSettles`, `UpstreamStep`). A handler consumes a settled operation. `Stop` is the strand's part of `stop()`; its call
by `Server::stop_sessions` may come at any time while something holds the session, before `start_impl` included. `OnRequest`
chooses the verdict (no token, `/health`, other) freely. The upstream's answer is a number of chunks, `sent` by the upstream
and `received` into the accumulated answer; `answer = "whole"` once the upstream closed the TLS stream properly. After nothing holds the
session it stutters (`Gone`).

`ClientExchange` is the client's view of all that: whether the session has begun to read, a verdict, the sets of replies that were begun and that are
over, whether the session no longer serves, and whether the connection is open. The refinement maps the verdict to `request`, the replies to the
writes, and `open` to `~Released`: the connection is closed by `shutdown()`, or by the destructor when nothing holds the session any more
(`http-session.cpp:32`). It forbids in one formula what six handlers could do wrong together: a second reply of a kind, a reply without its
verdict, a 408 after somebody else's stop, and a connection closed for no reason. The reasons are a stop, the end of all the replies that
were begun (`Finish`, `Drop`), and, with no reply at all, two more: the session could not be set up (`http-session.cpp:63`), or the
request was forwarded and no whole answer came back (`:349`, `:399`). A client whose header fails is not dropped silently: the deadline
still answers it with a 408.

### TokenBucket and RateLimit
Time comes in ticks, `Second` of them to the second, and tokens in parts, `Second` of them to the token; `elapsed * rate_` is then
exact. `allow()` is four steps, from the lock to the unlock, and `Tick` may come between any two. `hist` is a
history variable: the times (of the refill) at which requests were granted. `RateLimit` has no bucket at all: it grants exactly
when the grant keeps every window of `hist` admissible. That `TokenBucket` implements it says both that it is never too
generous and that it is never too strict.

### Server and ServerLifecycle
A handler occupies one of `NumThreads` threads while it runs. `listener`, `schedule_shutdown` and what they call are cut into
steps at every access to what other threads access: `shutdown_pending_`, the acceptor members, the acceptors, the table; reading a member
and the call through it are one access. The
handlers of a connection have one critical section each and are one step. `accepted[p]` is the connection that a completed
`async_accept` holds until its handler runs. `member[p]` is the `unique_ptr`, `acceptor[p]` the object: `close_acceptors` moves the two members
away, closes the two objects and destroys them, in six steps. `uninstall_listeners` reads each member three times, for the null test,
`is_open()` and `close()`; if it was moved away in between, the program dereferences null: `Crash`, after which nothing happens any more.
`async_accept` on an acceptor that was destroyed is undefined: it crashes as well, or fails and is not noticed. `misused` records which.
A crash ends the behaviour, so every liveness property of this module says `\/ Crashed`; how far a misuse can go is `MisuseNeedsOverlap`.
`ServerLifecycle` knows connections that are
new, active or gone and a server that runs, drains or has ended. Several may leave in one step, since a vector of
`shared_ptr`s releases all it holds at once; `Server` lets them go one by one, `SessionLaunch` together.

### SessionLaunch
`HTTPSession` takes a session that has not begun to be alive, and `Server` knows a session only as a connection. Between the two is the
question who owns a session until `start_impl` has taken a pointer to it. `owners[s]` is the set of `shared_ptr`s: the local variable of
`launch_http_session`, `self` of `start_impl`, the vector of `stop_sessions`, and the `self` captured by `stop()`'s handler. Asio's strand is
explicit: `Dispatch` runs the handler on the calling thread (`inline`) if the strand is idle, or else leaves it in `waiting` for any free thread
and lets the caller go on. A session without owners is destroyed. `start_impl` on a destroyed session is undefined behaviour; the
model records it in `lost` and stops.

Seen from `ServerLifecycle` a session becomes active when it is registered and is gone with its last owner. That the
module implements it ties `owners`, which the code never looks at as a whole, to what `Server` takes for granted: `lock()` on a weak pointer
of the table gives a session only while it has an owner, and no session comes back to life.

### Startup
One action per part of `main` that can end it: parsing, opening the document, each of its five sections, the end of `load_json_config`, merging the
options with the comparison of the ports, logger and acceptors. `file` and `args` are what the two sources give for each setting, or
`Absent`; a JSON value of the wrong type is `Malformed`. Keys, texts of errors and the contents of texts are abstracted (a text is empty, the
default or another one; a word is one the reader knows or `unknown`). Numbers are integers of which the greatest are
stored unsigned: `AsInt64` is `get<std::int64_t>`, and `Read` cuts a port to its width as `static_cast<uint16_t>` does. A section that is no object or
has an unknown property is a free choice of `MergeSection`, as the failures of the file system are of `Load` and `Listen`.

## 3. Runs

| run | instance | checks | shows |
|---|---|---|---|
| `HTTPSession_safety` | 2 chunks | `TypeOK`, `PendingWriteOwnsBuffer`, `StopClosesConnection`, `ProxiedResponseIntact`, `StopIsFinal`, `ImplementsExchange` | the session is safe in every order of its handlers, and the client sees what it was promised |
| `HTTPSession_liveness` | 1 chunk, fair threads and clock | `TimelyRequestIsSafe`, `HeaderDeadline`, `StoppedReleasesClient`, `EventuallyDestroyed` | what the session does by itself, whatever the peers do; no session leaks if they make progress |
| `HTTPSession_late` | 1 chunk | `TimeoutCancelledOnceHeaderObtained` (violated) | a 408 for a request that is being served |
| `TokenBucket` | 2 threads, rate 1, burst 2, half-second ticks, 3 seconds | `TypeOK`, `WindowBound`, `ImplementsRateLimit`, `RetryAfterSuffices` | the limit holds and is exact; the advice to retry is good |
| `Server_threads` | 3 threads, 2 connections | `TypeOK`, `NoSessionEscapesShutdown`, `HandshakeContextReady`, `EndReleasesWaits`, `QuietMeansFinished`, `MisuseNeedsOverlap`, `ImplementsLifecycle` | shutdown against listeners and sessions; nobody is left waiting; an acceptor is misused behind `close_acceptors` only |
| `Server_one_thread` | 1 thread, 3 connections | `MisuseNeedsOverlap` | no misuse of the acceptors in any order of the handlers of one thread |
| `Server_liveness` | 2 threads, 3 connections, single request, fair threads | `EachRequestEndsAListener`, `ListenersEndTogether`, `ShutdownCompletes`, `RunReturns` | at most two requests in single-request mode; but for a crash the end of the server needs no peer, and `run()` returns if the peers make progress |
| `Server_single_request` | 1 thread, 2 connections | `SingleRequestHandlesAtMostOne` (violated) | two requests handled in single-request mode |
| `Server_closed_acceptor` | 2 threads, 1 connection | `ClosedAcceptorAborts` (violated) | a closed acceptor that does not report `aborted` |
| `SessionLaunch` | 3 threads, 2 sessions, fair threads | `LostOnlyBehindStop`, `StopFindsOwner`, `EverySessionIsStopped`, `NoOwnerLeaks`, `ImplementsLifecycle`, `ShutdownReleases` | a session is lost only behind its own `stop()`, which always finds it; a shutdown stops them all, and releases them if the peers make progress |
| `SessionLaunch_unowned` | 2 threads, 2 sessions | `StartFindsOwner` (violated) | `start_impl` begins on a destroyed session |
| `Startup` | 7 settings of which each source gives up to 2, 6 numbers, ports of 2 bits, numbers of 6 | `TypeOK`, `SettingsPrecedence`, `ServesOnDistinctPorts`, `BadFileNeverServes` | every command line with every document |

Bounds, and why they are enough. *Chunks*: with two, an answer takes several reads and can be cut between any two; the
theorems lift the bound for the safety properties. *Connections*: the listeners and the shutdown treat connections
independently but for the TLS context, for which two matter (one fails to initialise it, the other tries again), and for
single-request mode, which two refute; three are used with one thread, where the accept loops are the subject, and where it is shown that
a third is never handled in single-request mode. *Threads*: at most two listeners and
one shutdown occupy threads for more than a step, so three threads show every overlap; two are the smallest number that
overlaps, and one is the smallest the code permits. *Time*: three seconds let the bucket drain, refill partly and refill beyond its
capacity; the theorem lifts this bound too. *Ports*: always two; `app.h:91` rejects equal ports, which `Startup` checks. *Sessions that are
launched*: ownership is per session, two show that `stop_sessions` holds one while it stops another. *Settings*: they are read independently, except
the two ports, which are compared; both are given, and one setting of every other kind, two of the words among them, which the command line treats
differently. Two settings in each source are enough for a good value beside a bad one, for the two ports together, and for an option over
any value of the file. *Numbers*: one of each kind, in and out of range of a port and of a count,
negative, congruent to a port, and negative once signed. The theorems cover all settings and all widths.

### The four runs that end in a counterexample
1. `HTTPSession_late`. The deadline expires while the header's completion is queued. `cancel()` (`http-session.cpp:122`)
   no longer reaches the timer; its handler wins `request_stop()` and answers 408 while the request is being served, assigning
   `response_` under a pending write where there is one. `PendingWriteOwnsBuffer` therefore excepts this case, and only this one. What the
   comment is true of is `TimelyRequestIsSafe`: a header that was obtained before the deadline expired.
2. `Server_single_request`. Both listeners have accepted; each dispatches its connection before it leaves its loop.
   More than two it cannot be: `EachRequestEndsAListener`.
3. `Server_closed_acceptor`. The shutdown closes the acceptor between the loop's test and `async_accept`. The listener sees a bad
   descriptor, not an abort: the shortest trace ends with an acceptor that is closed and not yet destroyed.
4. `SessionLaunch_unowned`. The shutdown collects a session that is registered but not started, and `stop()`'s handler is on the strand when
   `start()` puts `start_impl` behind it. The launcher returns, the handler ends, the vector goes, and with it the session; `start_impl`
   then calls `shared_from_this()` (`http-session.cpp:61`) on an object that no longer exists. Two threads suffice; with one it cannot happen,
   and with any number it happens to stopped sessions only (`LostBehindStop`). `stop()` itself is safe
   (`StopFindsOwner`), because it captures a `shared_ptr`, as `start()` does not.

### Fairness
*Threads*: weak fairness of the handlers. `io_.run()` executes queued handlers until none is outstanding, and a handler that has begun goes on.
*Clock*: a `steady_timer` expires. *Short replies*: the write of the 408, 429 or health reply settles, because a few hundred bytes fit in
the socket's send buffer unless a proxied answer is stuck in front of them; this is assumed of the operating system.
*Peers*: that a client reads, sends or goes away, and that the upstream settles what it was asked, is assumed in `PeerFairness` only, which is a
premise of the three properties that need it. The code
sets no deadline to the peek, the TLS handshakes, the upstream operations or the write of the proxied answer, and `OutgoingSession::stop()` is
empty (`http-session.h:65`), so `EventuallyDestroyed`, `RunReturns` and `ShutdownReleases` really need it; in `Server` and
`SessionLaunch` it is what `EventuallyDestroyed` promises of a session under the same premise. The other liveness properties do not need it.
*Crashes*: the fairness of `Server` is that of a program that has not crashed.

## 4. Proofs

`HTTPSessionProofs`, for every `MaxChunks \in Nat`. The inductive invariant `IInv` consists of `TypeOK`, the safety invariants about the buffer and the stop, and
* `DeadlineInv`: once the header was obtained the deadline cannot begin to expire;
* `OrderInv`: the handlers of one session run in a fixed order, and each reply is written only on the verdict that calls for it. It is
  needed because `PendingWriteOwnsBuffer` speaks of pairs of writes, which exclude each other only through the one `request`;
* `AnswerInv`: how `received` relates to `sent` in each stage. `ProxiedResponseIntact` alone says nothing about the reads that lead to the end
  of the answer.

Theorems: `TypeCorrect`, `BufferOwned`, `StopCloses`, `ProxiedIntact` (one per invariant of `HTTPSession_safety`), and
`StoppedDecidesNothing` for the action property `StopIsFinal`; and `RefinesExchange`, the refinement of `ClientExchange`. The refinement needs
`OrderInv` (the replies on a verdict were not begun before it, a 408 only after a stop, and what is over when the last handler of a session is gone)
and `AnswerInv` (a relay is begun once).
`TimelyNeverTimesOut` proves `TimelyRequestIsSafe`, a temporal formula with one `[]` inside another: the lemma `TimelyStays` says that no step
makes a timely request untimely, since a timer that was cancelled cannot expire, and the nested `[]` follows from it.

`TokenBucketProofs`, for every set of threads and all natural numbers `Rate`, `Capacity`, `Second > 0`, `MaxTime` (assumption
`BucketAssumption`). `WindowBound` is not inductive: it says nothing about the tokens that are left. `TokensBound` adds them to the grants of every window
that reaches to the present; `MutexInv` and `ClockInv` supply that the clock is read under the lock, and so never runs
backwards between refills. Theorems: `TypeCorrect`, `RateKept`, and `ExactLimiter`, the refinement of `RateLimit`. A grant of the bucket is one of
`RateLimit` by `TokensBound`. A denial needs the converse, `ExactInv`: a bucket that is not full has lost its tokens to the grants of some
window, for which the bound is exact, so that one more grant would break it. `CallInv` says that a call has no answer before it is decided.
`RetryAdviceSound` rests on the same converse: by the lemma `RecentGrant` the tokens that flowed in since the last grant are all still there, so
that a bucket with less than one token has granted one less than one token's time ago. It excepts a burst of 0, where the bucket never had a token, and says
nothing at a rate of 0.

`ServerProofs`, for every finite set of connections and every number of threads. `ServerInv` adds to the properties
* `ContextInv`: a used-up `once_flag` means a ready context (for `HandshakeContextReady`);
* `ShutdownInv` and `TableInv`: the shutdown has stopped nothing before it collected the table, and every session that lives is in the table, so
  that the snapshot misses none that was registered before it (for `NoSessionEscapesShutdown`);
* `AcceptInv`: the connections that the accepts hold are different and undispatched (for `TypeOK`, and for the refinement, where
  a connection must be admitted once).

Theorems: `TypeCorrect`, `NoneEscapes`, `ContextsReady`; and `KeepsLifecycle`, the refinement of `ServerLifecycle`. The lemma `NextSoloInv` is about
one thread: by the guard `ThreadFree` no two handlers overlap, so that what a listener has read of `shutdown_pending_` and of the
acceptor members is still true when it acts on it.

`ServerListenerProofs`, under the same assumptions, is about the end. `EndReleasesWaits` does not follow from what any one listener has done: which acceptor
is open, who awaits an accept, and what is left of the signal depend on how far each listener and the shutdown have come. `ReleaseInv` says
it for the three of them:
* `AcceptorInv`: only an open acceptor has a pending accept, and what `close_acceptors` has moved away is closed before it is destroyed;
* `UninstallInv`: a listener that has dealt with an acceptor leaves it closed, or its listener on the way out. It has to except the acceptors
  that `close_acceptors` has moved away and not closed yet (`ToClose`), whose member a listener finds null and goes on;
* `SignalInv`: who closes an acceptor has disposed of the signal before;
* `WaitInv`: a suspended listener has an accept that will resume it.

`MisuseIsOverlap` proves `MisuseNeedsOverlap`: with several threads a member is null and an acceptor destroyed only from the moves of `close_acceptors` on
(`AcceptorInv`), and with one thread `SoloInv` excludes the misuse. The other theorems: `NoWaitLeft` for `EndReleasesWaits`, and from it `NothingForgotten` for `QuietMeansFinished`, which is what
the liveness property `RunReturns` comes down to in the end: when everything is quiet, `Finished` holds. `RequestsCostListeners` for `EachRequestEndsAListener` counts: `OthersCount` and
`DispatchCounts` say that a step adds a request only together with a listener that leaves, and none takes a listener back.

`SessionLaunchProofs`, for every finite set of sessions. `StrandInv` says who waits behind whom: whatever waits for a strand came when the
other handler was there, and the launcher owns the session until `start()` has returned. With `NumThreads = 1`, `OneThreadInv` adds that a launch and the
shutdown exclude each other, so that nothing ever waits; `LostOnlyBehindStop` needs it for its part about threads. Theorem: `LostBehindStop`.
A second invariant, `StopInv`, is about the shutdown: `OwnerInv` says for each kind of `shared_ptr` when it is there and when it is not, and
`EverySessionIsStopped` is inductive with it. Theorems: `StopOwnsSession`, `AllAreStopped`, `OwnersReleased`, and `LaunchKeepsLifecycle`,
the refinement of `ServerLifecycle`. There the lemma `OwnersStep` says that a session without owners stays without them once it was launched, and
`StepImplements` maps the release of the whole vector to the departure of all sessions that had no other owner.

`StartupProofs`, for every set of given settings and however many of them a source gives, all numbers below `Wrap`, all limits and all default ports that differ (`StartupAssumption`).
`StageInv` says what `cfg` and `merged_config` are made of at each stage; in `MergeInv` section by section. The lemma `ReadExact` says that a number
that `read_port` accepts is neither wrapped by the signed read nor cut by the cast. Theorems: `TypeCorrect`, `PrecedenceHolds`,
`DistinctPorts`, `BadFileRefused`.

Every invariant and action property of the runs that pass is the subject of a theorem, and so are the four refinements.

Only model-checked: the seven liveness properties, and `ENABLED` with them, which are outside the prover's reach. For some of them their safety part is proved:
`QuietMeansFinished` for `RunReturns`, `EndReleasesWaits` for `ListenersEndTogether` and `ShutdownCompletes`,
`NoOwnerLeaks` for `ShutdownReleases`. What is left to TLC there is that handlers run. Freedom from deadlock is checked by TLC on
every run. The models contain no recursion, and nothing is proved by induction over data.

## 5. Not modelled

* `utils/http-helper.h`: `parse_request` and the formatting of messages work on one message in memory and keep no state. Their verdict
  is a free input of `OnRequest`; no property of the sessions depends on how it is found. The repository's unit tests cover them.
* Logging, the start-up table, and what `init_logger` sets up beyond success or failure.
* `cxxopts` and `nlohmann::json` themselves: `Startup` begins with what they return.
* Exceptions for want of memory and failures of `close(2)`.
* Rounding of doubles in `TokenBucket`.
* The limiter used when throttling is disabled: it has no state.
* A host whose `hardware_concurrency()` is 0 (`server.cpp:39`).
* What happens after undefined behaviour, but for a failed accept on a destroyed acceptor: after a lost session, or a crash, the model stops.
* Data races proper on the acceptor members: they appear as the interleavings of the steps above, between which a member that is read is either
  there or moved away.

## 6. Plan

Done: `HTTPSession` with `OutgoingSession`, `TokenBucket`, `Server`, `SessionLaunch`, `Startup`; three abstract specifications, with the refinements
proved; the theorems of section 4.

Left:
1. Guards of the actions stated without `ENABLED`, so that freedom from deadlock, checked by TLC only, can be proved too.
2. A bucket whose refills are rounded, with the bound on the drift of its windows.
3. The rest of a composition of `Server` and `HTTPSession`: `SessionLaunch` has the ownership of a session while it is launched and stopped, not what its
   coroutines do afterwards.
4. The message helpers as operators, checked against a reference definition on bounded inputs.
