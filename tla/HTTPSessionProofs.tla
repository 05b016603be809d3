------------------------- MODULE HTTPSessionProofs ---------------------------
(***************************************************************************)
(* Proofs about HTTPSession, for every value of MaxChunks.                 *)
(***************************************************************************)
EXTENDS HTTPSession, TLAPS

\* Initially nothing has happened.
LEMMA InitIInv == Init => IInv
<1> SUFFICES ASSUME Init PROVE IInv
  OBVIOUS
<1>1. Out!TypeOK
  BY MaxChunksAssumption
     DEF Init, Out!Init, Out!TypeOK, Out!Stages, Out!IOStages, Out!AsyncOps, Out!Completed
<1>2. TypeOK
  BY <1>1 DEF Init, TypeOK, AsyncOps, Completed, Repliers, Verdicts
<1>3. AnswerInv
  BY DEF Init, Out!Init, AnswerInv, Repliers
<1>4. OrderInv
  BY DEF Init, Out!Init, OrderInv, Repliers
<1>5. DeadlineInv /\ StopClosesConnection /\ PendingWriteOwnsBuffer
  BY DEF Init, DeadlineInv, StopClosesConnection, PendingWriteOwnsBuffer
<1>6. QED
  BY <1>2, <1>3, <1>4, <1>5 DEF IInv

\* Every step preserves the inductive invariant.
LEMMA NextIInv == IInv /\ [Next]_vars => IInv'
<1> SUFFICES ASSUME IInv, [Next]_vars PROVE IInv'
  OBVIOUS
<1> USE DEF IInv, TypeOK, AnswerInv, OrderInv, DeadlineInv, StopClosesConnection,
            PendingWriteOwnsBuffer, LateTimeout, Repliers, Verdicts, AsyncOps, Completed, Holds
<1>1. CASE HeaderArrives
  BY <1>1 DEF HeaderArrives, outgoingVars, Out!TypeOK
<1>2. CASE ClientBreaks
  BY <1>2 DEF ClientBreaks, outgoingVars, Out!TypeOK
<1>3. CASE DeadlineExpires
  BY <1>3 DEF DeadlineExpires, outgoingVars, Out!TypeOK
<1>4. ASSUME NEW r \in Repliers, WriteSettles(r) PROVE IInv'
  BY <1>4 DEF WriteSettles, outgoingVars, Out!TypeOK
<1>5. CASE UpstreamStep
  <2> USE <1>5 DEF UpstreamStep, sessionVars
  <2>1. CASE Out!Settle
    <3>1. Out!TypeOK'
      BY <2>1 DEF Out!Settle, Out!TypeOK, Out!Stages, Out!IOStages, Out!AsyncOps, Out!Completed
    <3>2. AnswerInv'
      BY <2>1 DEF Out!Settle, Out!TypeOK, Out!IOStages
    <3>3. QED
      BY <2>1, <3>1, <3>2 DEF Out!Settle, Out!IOStages
  <2>2. CASE Out!UpstreamSends
    <3>1. Out!TypeOK'
      BY <2>2, MaxChunksAssumption DEF Out!UpstreamSends, Out!TypeOK, Out!AsyncOps, Out!Completed
    <3>2. AnswerInv'
      BY <2>2, MaxChunksAssumption DEF Out!UpstreamSends, Out!TypeOK
    <3>3. QED
      BY <2>2, <3>1, <3>2 DEF Out!UpstreamSends
  <2>3. CASE Out!UpstreamCloses
    BY <2>3 DEF Out!UpstreamCloses, Out!TypeOK, Out!AsyncOps, Out!Completed
  <2>4. QED
    BY <2>1, <2>2, <2>3 DEF Out!Upstream
<1>6. CASE Start
  BY <1>6 DEF Start, Issued, outgoingVars, Out!TypeOK
<1>7. CASE OnReadFailed
  BY <1>7 DEF OnReadFailed, outgoingVars, Out!TypeOK
<1>8. CASE OnHeader
  <2> USE <1>8 DEF OnHeader, Cancelled, outgoingVars, Out!TypeOK
  <2>1. CASE stopped
    BY <2>1
  <2>2. CASE ~stopped
    BY <2>2 DEF OnRequest, Reply, Issued, Out!Start, Out!Stages, Out!IOStages,
                Out!AsyncOps, Out!Completed
  <2>3. QED
    BY <2>1, <2>2
<1>9. CASE OnDeadlineCancelled
  BY <1>9 DEF OnDeadlineCancelled, outgoingVars, Out!TypeOK
<1>10. CASE OnDeadline
  BY <1>10 DEF OnDeadline, Reply, Issued, outgoingVars, Out!TypeOK
<1>11. CASE OnTimeoutWritten
  BY <1>11 DEF OnTimeoutWritten, Shutdown, Settled, Cancelled, outgoingVars, Out!TypeOK
<1>12. ASSUME NEW r \in Repliers, OnReplyWritten(r) PROVE IInv'
  BY <1>12 DEF OnReplyWritten, Settled, outgoingVars, Out!TypeOK
<1>13. CASE OutgoingStep
  <2> USE <1>13 DEF OutgoingStep, sessionVars, Out!TypeOK, Out!AsyncOps, Out!Completed,
                    Out!Stages, Out!IOStages
  <2>1. CASE Out!Proceed
    BY <2>1 DEF Out!Proceed, Out!Successor
  <2>2. CASE Out!Fail
    BY <2>2 DEF Out!Fail
  <2>3. CASE Out!ReadChunk
    BY <2>3 DEF Out!ReadChunk
  <2>4. QED
    BY <2>1, <2>2, <2>3
<1>14. CASE OnUpstreamEof
  BY <1>14 DEF OnUpstreamEof, Reply, Issued, Out!Complete, Out!TypeOK, Out!Stages, Out!IOStages,
               Out!AsyncOps, Out!Completed
<1>15. CASE OnProxiedWritten
  BY <1>15 DEF OnProxiedWritten, Shutdown, Settled, Cancelled, Out!Finish, Out!TypeOK,
               Out!Stages, Out!IOStages
<1>16. CASE Stop
  BY <1>16 DEF Stop, Shutdown, Cancelled, outgoingVars, Out!TypeOK
<1>17. CASE UNCHANGED vars
  BY <1>17 DEF vars, sessionVars, outgoingVars, Out!TypeOK
<1>18. QED
  BY <1>1, <1>2, <1>3, <1>4, <1>5, <1>6, <1>7, <1>8, <1>9, <1>10, <1>11, <1>12, <1>13,
     <1>14, <1>15, <1>16, <1>17 DEF Next, Environment, Handlers, Gone

\* The inductive invariant holds in every reachable state.
LEMMA Invariance == Spec => []IInv
  BY InitIInv, NextIInv, PTL DEF Spec

\* Every variable keeps its type; above all, response_ never holds more than
\* the upstream has sent.
THEOREM TypeCorrect == Spec => []TypeOK
<1>1. IInv => TypeOK
  BY DEF IInv
<1>2. QED
  BY <1>1, Invariance, PTL

\* The buffer of a pending write is not assigned (http-session.cpp:164, 229,
\* 263, 285), a late deadline excepted.
THEOREM BufferOwned == Spec => []PendingWriteOwnsBuffer
<1>1. IInv => PendingWriteOwnsBuffer
  BY DEF IInv
<1>2. QED
  BY <1>1, Invariance, PTL

\* Whoever sets stopped_ sees to it that the connection is closed
\* (http-session.cpp:51, 159).
THEOREM StopCloses == Spec => []StopClosesConnection
<1>1. IInv => StopClosesConnection
  BY DEF IInv
<1>2. QED
  BY <1>1, Invariance, PTL

\* An upstream answer is relayed whole or not at all (http-session.cpp:392,
\* 399, 402): a write of it was begun at a clean end of the stream only, and
\* nothing is sent or received after that.
THEOREM ProxiedIntact == Spec => []ProxiedResponseIntact
<1>1. IInv => ProxiedResponseIntact
  BY DEF IInv, AnswerInv, ProxiedResponseIntact
<1>2. QED
  BY <1>1, Invariance, PTL

\* A stopped session decides nothing any more (http-session.cpp:129, 184).
THEOREM StoppedDecidesNothing == Spec => StopIsFinal
<1>1. [Next]_vars => (stopped => request' = request)
  BY DEF Next, Environment, Handlers, vars, sessionVars, outgoingVars, HeaderArrives, ClientBreaks,
         DeadlineExpires, WriteSettles, UpstreamStep, Start, OnReadFailed, OnHeader,
         OnDeadlineCancelled, OnDeadline, OnTimeoutWritten, OnReplyWritten, OutgoingStep,
         OnUpstreamEof, OnProxiedWritten, Stop, Gone
<1>2. QED
  BY <1>1, PTL DEF Spec, StopIsFinal

\* The session keeps to ClientExchange, with the writes that were begun as its
\* replies and the destructor's close as one of the ways in which the
\* connection is closed (http-session.cpp:63, 129, 159, 184, 349, 399).
THEOREM RefinesExchange == Spec => ImplementsExchange
<1> DEFINE begun == {r \in Repliers : write[r] # "idle"}
<1> DEFINE over == {r \in Repliers : write[r] = "done"}
<1>1. Init => Client!Init
  BY DEF Init, Client!Init, Released, Live, Repliers
<1>2. IInv /\ [Next]_vars => [Client!Next]_Client!vars
  <2> SUFFICES ASSUME IInv, [Next]_vars PROVE [Client!Next]_Client!vars
    OBVIOUS
  <2> USE DEF IInv, TypeOK, OrderInv, DeadlineInv, StopClosesConnection, Repliers, AsyncOps,
              Completed, Released, Live, Holds, Client!vars
  <2>1. CASE HeaderArrives \/ ClientBreaks
    BY <2>1 DEF HeaderArrives, ClientBreaks, outgoingVars, Out!Active
  <2>2. CASE DeadlineExpires
    BY <2>2 DEF DeadlineExpires, outgoingVars, Out!Active
  <2>3. ASSUME NEW r \in Repliers, WriteSettles(r) PROVE UNCHANGED Client!vars
    <3>1. Live /\ Live'
      BY <2>3 DEF WriteSettles
    <3>2. UNCHANGED <<read, request, stopped, socket>> /\ begun' = begun /\ over' = over
      BY <2>3 DEF WriteSettles
    <3>3. QED
      BY <3>1, <3>2
  <2>4. CASE UpstreamStep
    BY <2>4 DEF UpstreamStep, sessionVars, Out!Upstream, Out!Settle, Out!UpstreamSends,
                Out!UpstreamCloses, Out!Active
  <2>5. CASE Start
    <3>1. UNCHANGED <<request, stopped, socket>> /\ begun' = begun /\ over' = over
      BY <2>5 DEF Start
    <3>2. CASE UNCHANGED <<timer, read>>
      <4>1. read = "idle" /\ Live
        BY <2>5, <3>2 DEF Start
      <4>2. CASE stopped
        <5>1. socket = "closed" \/ Holds(write["timeout"])
          BY <4>2
        <5>2. QED
          BY <3>1, <3>2, <5>1, <4>1
      <4>3. QED
        BY <3>1, <3>2, <4>1, <4>2 DEF Client!Next, Client!Drop
    <3>3. CASE timer' = "pending" /\ read' = Issued(socket)
      BY <2>5, <3>1, <3>3 DEF Start, Issued, Client!Next, Client!Listen
    <3>4. QED
      BY <2>5, <3>2, <3>3 DEF Start
  <2>6. CASE OnReadFailed
    BY <2>6 DEF OnReadFailed, outgoingVars
  <2>7. ASSUME NEW r \in Repliers, Reply(r), write[r] = "idle"
        PROVE  begun' = begun \union {r} /\ r \notin begun /\ over' = over /\ Holds(write'[r])
    BY <2>7 DEF Reply, Issued
  <2>8. ASSUME NEW r \in Repliers, write[r] \in Completed
        PROVE  /\ write' = Settled(r) \/ Shutdown(Settled(r))
                     => begun' = begun /\ over' = over \union {r} /\ r \in begun \ over
               /\ Shutdown(Settled(r)) => socket' = "closed"
    BY <2>8 DEF Shutdown, Settled, Cancelled
  <2>9. CASE OnHeader /\ stopped
    <3>1. UNCHANGED <<request, stopped, socket>> /\ begun' = begun /\ over' = over
          /\ (read = "idle" <=> read' = "idle")
      BY <2>9 DEF OnHeader
    <3>2. socket = "closed" \/ (Live' /\ Live)
      BY <2>9 DEF OnHeader
    <3>3. QED
      BY <3>1, <3>2
  <2>10. CASE OnHeader /\ ~stopped
    <3>1. /\ request = "none" /\ read = "ok" /\ read' = "done" /\ ~stopped
          /\ UNCHANGED <<stopped, socket>> /\ socket = "open"
          /\ timer' \notin {"idle", "done"}
      BY <2>10 DEF OnHeader, Cancelled
    <3>2. ~Released /\ ~Released'
      BY <3>1
    <3>3. CASE request' = "disallowed" /\ Reply("disallow")
      BY <2>7, <3>1, <3>2, <3>3 DEF Client!Next, Client!Refuse, Client!Decide, Client!Begin
    <3>4. CASE request' = "health" /\ Reply("health")
      BY <2>7, <3>1, <3>2, <3>4 DEF Client!Next, Client!ReportHealth, Client!Decide, Client!Begin
    <3>5. CASE request' = "forwarded" /\ write' = write
      BY <3>1, <3>2, <3>5 DEF Client!Next, Client!Forward, Client!Decide
    <3>6. QED
      BY <2>10, <3>3, <3>4, <3>5 DEF OnHeader, OnRequest
  <2>11. CASE OnDeadlineCancelled
    <3>1. UNCHANGED <<read, request, stopped, socket, write>> /\ Live /\ timer = "aborted"
      BY <2>11 DEF OnDeadlineCancelled
    <3>2. CASE Released <=> Released'
      BY <3>1, <3>2
    <3>3. CASE ~Released /\ Released'
      <4>1. over' = begun' /\ ~Live' /\ socket = "open"
        BY <3>1, <3>3
      <4>2. request # "none"
        BY <3>1, <3>3, <4>1
      <4>3. begun # {} \/ request = "forwarded"
        BY <4>2 DEF Verdicts
      <4>4. QED
        BY <3>1, <3>3, <4>1, <4>3 DEF Client!Next, Client!Drop
    <3>4. QED
      BY <2>11, <3>2, <3>3 DEF OnDeadlineCancelled, outgoingVars, Out!Active
  <2>12. CASE OnDeadline /\ stopped
    <3>1. UNCHANGED <<read, request, stopped, socket, write>>
      BY <2>12 DEF OnDeadline
    <3>2. socket = "closed" \/ (Live' /\ Live)
      BY <2>12, <3>1 DEF OnDeadline
    <3>3. QED
      BY <3>1, <3>2
  <2>13. CASE OnDeadline /\ ~stopped
    <3>1. /\ UNCHANGED <<read, request, socket>> /\ stopped' = TRUE
          /\ Reply("timeout") /\ write["timeout"] = "idle" /\ read # "idle" /\ Live
      BY <2>13 DEF OnDeadline
    <3>2. Live'
      BY <2>7, <3>1
    <3>3. QED
      BY <2>7, <2>13, <3>1, <3>2 DEF Client!Next, Client!TimeOut, Client!Begin
  <2>14. CASE OnTimeoutWritten
    <3>1. UNCHANGED <<request, stopped>> /\ (read = "idle" <=> read' = "idle")
      BY <2>14 DEF OnTimeoutWritten, Shutdown, Cancelled
    <3>2. Client!Finish("timeout")
      BY <2>8, <2>14, <3>1 DEF OnTimeoutWritten, Client!Finish
    <3>3. QED
      BY <2>8, <2>14, <3>2 DEF OnTimeoutWritten, Client!Next
  <2>15. ASSUME NEW r \in Repliers, OnReplyWritten(r) PROVE Client!Next
    <3>1. UNCHANGED <<request, stopped, socket, read, timer, outgoingVars>> /\ Live
          /\ write' = Settled(r) /\ r \in {"disallow", "health"}
      BY <2>15 DEF OnReplyWritten
    <3>2. begun' = begun /\ over' = over \union {r} /\ r \in begun \ over
      BY <2>8, <2>15, <3>1 DEF OnReplyWritten
    <3>3. CASE Live'
      BY <3>1, <3>2, <3>3 DEF Client!Next, Client!Finish
    <3>4. CASE ~Live'
      <4>1. over' = begun'
        BY <3>4, <3>1, <2>15 DEF Settled
      <4>2. QED
        BY <3>1, <3>2, <3>4, <4>1 DEF Client!Next, Client!Finish
    <3>5. QED
      BY <3>3, <3>4
  <2>16. CASE OutgoingStep
    <3>1. UNCHANGED <<read, request, stopped, socket, write>> /\ Live /\ request = "forwarded"
      BY <2>16 DEF OutgoingStep, sessionVars, Out!Proceed, Out!Successor, Out!Fail,
                   Out!ReadChunk, Out!Active, Out!IOStages
    <3>2. CASE Live'
      BY <3>1, <3>2
    <3>3. CASE ~Live'
      <4>1. over' = begun'
        BY <3>1, <3>3
      <4>2. QED
        BY <3>1, <3>3, <4>1 DEF Client!Next, Client!Drop
    <3>4. QED
      BY <3>2, <3>3
  <2>17. CASE OnUpstreamEof
    <3>1. /\ UNCHANGED <<request, stopped, socket, read>> /\ Reply("proxied")
          /\ request = "forwarded" /\ write["proxied"] = "idle" /\ Live
      BY <2>17 DEF OnUpstreamEof, Out!Complete, AnswerInv, Out!Active
    <3>2. Live'
      BY <2>7, <3>1
    <3>3. QED
      BY <2>7, <3>1, <3>2 DEF Client!Next, Client!Relay, Client!Begin
  <2>18. CASE OnProxiedWritten
    <3>1. UNCHANGED <<request, stopped>> /\ (read = "idle" <=> read' = "idle")
      BY <2>18 DEF OnProxiedWritten, Shutdown, Cancelled
    <3>2. Client!Finish("proxied")
      BY <2>8, <2>18, <3>1 DEF OnProxiedWritten, Client!Finish
    <3>3. QED
      BY <2>8, <2>18, <3>2 DEF OnProxiedWritten, Client!Next
  <2>19. CASE Stop
    <3>1. begun' = begun /\ over' = over
      BY <2>19 DEF Stop, Shutdown, Cancelled
    <3>2. QED
      BY <2>19, <3>1 DEF Stop, Shutdown, Cancelled, Client!Next, Client!Stop
  <2>20. CASE UNCHANGED vars
    BY <2>20 DEF vars, sessionVars, outgoingVars, Out!Active
  <2>21. QED
    BY <2>1, <2>2, <2>3, <2>4, <2>5, <2>6, <2>9, <2>10, <2>11, <2>12, <2>13, <2>14, <2>15,
       <2>16, <2>17, <2>18, <2>19, <2>20 DEF Next, Environment, Handlers, Gone
<1>3. QED
  BY <1>1, <1>2, Invariance, PTL DEF Spec, ImplementsExchange, Client!Spec

------------------------------------------------------------------------------
\* A request that was in time stays so: no step brings its deadline back.
LEMMA TimelyStays ==
  ASSUME IInv, TimelyRequest, [Next]_vars
  PROVE  TimelyRequest'
<1> USE DEF TimelyRequest, IInv, TypeOK, OrderInv, DeadlineInv, Repliers
<1>1. timer # "pending" /\ read = "done" /\ started
  OBVIOUS
<1>2. CASE UNCHANGED <<request, timer>> /\ write'["timeout"] = "idle"
  BY <1>2
<1>3. CASE Environment
  BY <1>1, <1>2, <1>3 DEF Environment, HeaderArrives, ClientBreaks, DeadlineExpires, WriteSettles,
     UpstreamStep, sessionVars
<1>4. CASE Start \/ OnReadFailed \/ OnHeader \/ OnDeadline \/ OnTimeoutWritten
  BY <1>1, <1>4 DEF Start, OnReadFailed, OnHeader, OnDeadline, OnTimeoutWritten, Completed
<1>5. CASE OnDeadlineCancelled \/ OutgoingStep \/ Gone \/ UNCHANGED vars
  BY <1>2, <1>5 DEF OnDeadlineCancelled, OutgoingStep, Gone, vars, sessionVars
<1>6. ASSUME NEW r \in Repliers, OnReplyWritten(r) PROVE TimelyRequest'
  BY <1>2, <1>6 DEF OnReplyWritten, Settled
<1>7. CASE OnUpstreamEof
  BY <1>2, <1>7 DEF OnUpstreamEof, Reply
<1>8. CASE OnProxiedWritten \/ Stop
  BY <1>2, <1>8 DEF OnProxiedWritten, Stop, Shutdown, Settled, Cancelled
<1>9. QED
  BY <1>3, <1>4, <1>5, <1>6, <1>7, <1>8 DEF Next, Handlers

\* A client whose header was obtained before the deadline expired is never
\* answered 408 (http-session.cpp:122, 151).
THEOREM TimelyNeverTimesOut == Spec => TimelyRequestIsSafe
<1>1. IInv /\ TimelyRequest /\ [Next]_vars => TimelyRequest'
  BY TimelyStays
<1>2. TimelyRequest => write["timeout"] = "idle"
  BY DEF TimelyRequest
<1>3. QED
  BY <1>1, <1>2, Invariance, PTL DEF Spec, TimelyRequestIsSafe

==============================================================================
