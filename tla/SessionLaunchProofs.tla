-------------------------- MODULE SessionLaunchProofs -------------------------
(***************************************************************************)
(* Proofs about SessionLaunch, for any sessions and any number of threads. *)
(***************************************************************************)
EXTENDS SessionLaunch, FiniteSetTheorems, TLAPS

\* A free thread, if there is only one, is doing nothing.
LEMMA FreeThread ==
  ASSUME NumThreads = 1, ThreadFree PROVE Launching = {} /\ ~Stopping
<1>1. IsFiniteSet(Launching)
  BY LaunchAssumption, FS_Subset DEF Launching
<1>2. Cardinality(Launching) \in Nat
  BY <1>1, FS_CardinalityType
<1>3. Cardinality(Launching) = 0 /\ ~Stopping
  BY <1>2 DEF ThreadFree
<1>4. QED
  BY <1>1, <1>3, FS_EmptySet

\* Initially there is no session.
LEMMA InitIInv == Init => IInv
BY DEF Init, IInv, TypeOK, StrandInv, LostOnlyBehindStop, OneThreadInv, Handlers, Launching, Stopping

\* Every step preserves the inductive invariant.
LEMMA NextIInv == IInv /\ [Next]_vars => IInv'
<1> SUFFICES ASSUME IInv, [Next]_vars PROVE IInv'
  OBVIOUS
<1> USE DEF IInv, TypeOK, LostOnlyBehindStop, Owners, Handlers
<1>1. ASSUME NEW s \in Sessions, Launch(s) PROVE IInv'
  <2> USE <1>1 DEF Launch, Goto, Acquire
  <2>1. TypeOK' /\ StrandInv' /\ LostOnlyBehindStop'
    BY DEF StrandInv
  <2>2. OneThreadInv'
    BY FreeThread DEF OneThreadInv, Launching, Stopping
  <2>3. QED
    BY <2>1, <2>2
<1>2. ASSUME NEW s \in Sessions, Register(s) PROVE IInv'
  BY <1>2 DEF Register, Goto, StrandInv, OneThreadInv, Launching, Stopping
<1>3. ASSUME NEW s \in Sessions, CallStart(s) PROVE IInv'
  <2> USE <1>3 DEF CallStart, Goto, Dispatch
  <2>1. TypeOK' /\ LostOnlyBehindStop'
    OBVIOUS
  <2>2. StrandInv'
    BY DEF StrandInv
  <2>3. OneThreadInv'
    BY DEF OneThreadInv, StrandInv, Launching, Stopping
  <2>4. QED
    BY <2>1, <2>2, <2>3
<1>4. ASSUME NEW s \in Sessions, LeaveLaunch(s) PROVE IInv'
  BY <1>4 DEF LeaveLaunch, Goto, Release, StrandInv, OneThreadInv, Launching, Stopping
<1>5. CASE BeginShutdown
  <2>1. TypeOK' /\ StrandInv' /\ LostOnlyBehindStop'
    BY <1>5 DEF BeginShutdown, StrandInv
  <2>2. OneThreadInv'
    BY <1>5, FreeThread DEF BeginShutdown, OneThreadInv, Launching, Stopping
  <2>3. QED
    BY <2>1, <2>2
<1>6. CASE Snapshot
  <2>1. TypeOK'
    BY <1>6 DEF Snapshot
  <2>2. \A s \in Sessions : owners[s] \subseteq owners'[s]
    BY <1>6 DEF Snapshot
  <2>3. StrandInv'
    BY <1>6, <2>2 DEF Snapshot, StrandInv
  <2>4. QED
    BY <1>6, <2>1, <2>3 DEF Snapshot, OneThreadInv, Launching, Stopping
<1>7. ASSUME NEW s \in Sessions, CallStop(s) PROVE IInv'
  <2> USE <1>7 DEF CallStop, Dispatch, Acquire
  <2>1. TypeOK' /\ LostOnlyBehindStop'
    OBVIOUS
  <2>2. StrandInv'
    BY DEF StrandInv, StopReturned
  <2>3. OneThreadInv'
    BY DEF OneThreadInv, StrandInv, StopReturned, Launching, Stopping
  <2>4. QED
    BY <2>1, <2>2, <2>3
<1>8. CASE LeaveStop
  BY <1>8 DEF LeaveStop, StopReturned, StrandInv, OneThreadInv, Launching, Stopping
<1>9. ASSUME NEW s \in Sessions, RunInline(s) PROVE IInv'
  <2> USE <1>9 DEF RunInline, Run, RunStart, RunStop, Acquire, Release
  <2>1. TypeOK'
    OBVIOUS
  <2>2. StrandInv' /\ LostOnlyBehindStop'
    BY DEF StrandInv
  <2>3. OneThreadInv'
    BY DEF OneThreadInv, Launching, Stopping
  <2>4. QED
    BY <2>1, <2>2, <2>3
<1>10. ASSUME NEW s \in Sessions, RunWaiting(s) PROVE IInv'
  <2> USE <1>10 DEF RunWaiting, Run, RunStart, RunStop, Acquire, Release
  <2>1. TypeOK'
    OBVIOUS
  <2>2. NumThreads > 1
    BY LaunchAssumption DEF OneThreadInv
  <2>3. StrandInv' /\ LostOnlyBehindStop'
    BY <2>2 DEF StrandInv
  <2>4. OneThreadInv'
    BY <2>2, LaunchAssumption DEF OneThreadInv
  <2>5. QED
    BY <2>1, <2>3, <2>4
<1>11. ASSUME NEW s \in Sessions, SessionEnds(s) PROVE IInv'
  BY <1>11 DEF SessionEnds, Release, StrandInv, OneThreadInv, Launching, Stopping
<1>12. CASE UNCHANGED vars
  BY <1>12 DEF vars, StrandInv, OneThreadInv, Launching, Stopping
<1>13. QED
  BY <1>1, <1>2, <1>3, <1>4, <1>5, <1>6, <1>7, <1>8, <1>9, <1>10, <1>11, <1>12
     DEF Next, Step, Over, StopSessions, LaunchStep, StrandStep

\* The inductive invariant holds in every reachable state.
LEMMA Invariance == Spec => []IInv
  BY InitIInv, NextIInv, PTL DEF Spec

\* start_impl can come too late only behind stop()'s handler, on a server with
\* two threads at least (http-session.cpp:42, 49).
THEOREM LostBehindStop == Spec => []LostOnlyBehindStop
<1>1. IInv => LostOnlyBehindStop
  BY DEF IInv
<1>2. QED
  BY <1>1, Invariance, PTL

------------------------------------------------------------------------------
\* Every step keeps the sessions owned that stop_sessions or a stop() handler
\* has yet to deal with.
LEMMA NextOwnerInv ==
  ASSUME IInv, OwnerInv, [Next]_vars
  PROVE  OwnerInv'
<1> USE DEF IInv, TypeOK, Owners, Handlers, OwnerInv, StopUnderWay, Launching
<1>1. ASSUME NEW s \in Sessions, Launch(s) PROVE OwnerInv'
  BY <1>1 DEF Launch, Goto, Acquire
<1>2. ASSUME NEW s \in Sessions, Register(s) PROVE OwnerInv'
  BY <1>2 DEF Register, Goto
<1>3. ASSUME NEW s \in Sessions, CallStart(s) PROVE OwnerInv'
  BY <1>3 DEF CallStart, Goto, Dispatch
<1>4. ASSUME NEW s \in Sessions, LeaveLaunch(s) PROVE OwnerInv'
  BY <1>4 DEF LeaveLaunch, Goto, Release
<1>5. CASE BeginShutdown
  BY <1>5 DEF BeginShutdown
<1>6. CASE Snapshot
  BY <1>6 DEF Snapshot
<1>7. ASSUME NEW s \in Sessions, CallStop(s) PROVE OwnerInv'
  BY <1>7 DEF CallStop, Dispatch, Acquire
<1>8. CASE LeaveStop
  BY <1>8 DEF LeaveStop
<1>9. ASSUME NEW s \in Sessions, RunInline(s) PROVE OwnerInv'
  BY <1>9 DEF RunInline, Run, RunStart, RunStop, Acquire, Release, StrandInv
<1>10. ASSUME NEW s \in Sessions, RunWaiting(s) PROVE OwnerInv'
  BY <1>10 DEF RunWaiting, Run, RunStart, RunStop, Acquire, Release, StrandInv
<1>11. ASSUME NEW s \in Sessions, SessionEnds(s) PROVE OwnerInv'
  BY <1>11 DEF SessionEnds, Release
<1>12. CASE UNCHANGED vars
  BY <1>12 DEF vars
<1>13. QED
  BY <1>1, <1>2, <1>3, <1>4, <1>5, <1>6, <1>7, <1>8, <1>9, <1>10, <1>11, <1>12
     DEF Next, Step, Over, StopSessions, LaunchStep, StrandStep

\* A session that was destroyed has no owner again, and one that exists when the
\* sessions are collected is stopped.
LEMMA NextStopInv ==
  ASSUME IInv, StopInv, [Next]_vars
  PROVE  EverySessionIsStopped'
<1> USE DEF IInv, TypeOK, StopInv, OwnerInv, EverySessionIsStopped, StopUnderWay
<1>1. ASSUME NEW s \in Sessions, LaunchStep(s) PROVE EverySessionIsStopped'
  <2>1. CASE Launch(s) \/ Register(s)
    BY <2>1 DEF Launch, Register, Goto, Acquire
  <2>2. CASE CallStart(s) \/ LeaveLaunch(s)
    BY <2>2 DEF CallStart, LeaveLaunch, Goto, Dispatch, Release, StrandInv
  <2>3. QED
    BY <1>1, <2>1, <2>2 DEF LaunchStep
<1>2. CASE BeginShutdown \/ Snapshot \/ LeaveStop
  BY <1>2 DEF BeginShutdown, Snapshot, LeaveStop
<1>3. ASSUME NEW s \in Sessions, CallStop(s) PROVE EverySessionIsStopped'
  BY <1>3 DEF CallStop, Dispatch, Acquire
<1>4. ASSUME NEW s \in Sessions, StrandStep(s) PROVE EverySessionIsStopped'
  <2>1. CASE RunInline(s)
    BY <2>1 DEF RunInline, Run, RunStart, RunStop, Acquire, Release, Handlers
  <2>2. CASE RunWaiting(s)
    BY <2>2 DEF RunWaiting, Run, RunStart, RunStop, Acquire, Release, Handlers
  <2>3. CASE SessionEnds(s)
    BY <2>3 DEF SessionEnds, Release
  <2>4. QED
    BY <1>4, <2>1, <2>2, <2>3 DEF StrandStep
<1>5. CASE UNCHANGED vars
  BY <1>5 DEF vars
<1>6. QED
  BY <1>1, <1>2, <1>3, <1>4, <1>5 DEF Next, Step, Over, StopSessions

\* Both hold from the beginning.
LEMMA StopInvariance == Spec => []StopInv
<1>1. Init => StopInv
  BY DEF Init, StopInv, OwnerInv, EverySessionIsStopped, StopUnderWay, Launching
<1>2. IInv /\ StopInv /\ [Next]_vars => StopInv'
  BY NextOwnerInv, NextStopInv DEF StopInv
<1>3. QED
  BY <1>1, <1>2, Invariance, PTL DEF Spec

\* stop() and its handler find their session alive (server.cpp:289,
\* http-session.cpp:49), for any number of sessions and threads.
THEOREM StopOwnsSession == Spec => []StopFindsOwner
<1>1. StopInv => StopFindsOwner
  BY DEF StopInv, OwnerInv, StopFindsOwner, StopUnderWay
<1>2. QED
  BY <1>1, StopInvariance, PTL

\* No session survives the shutdown unstopped (server.cpp:61, 289, 303).
THEOREM AllAreStopped == Spec => []EverySessionIsStopped
<1>1. StopInv => EverySessionIsStopped
  BY DEF StopInv
<1>2. QED
  BY <1>1, StopInvariance, PTL

\* Neither a launch nor the shutdown leaves an owner behind (server.cpp:177, 287,
\* http-session.cpp:49, 61).
THEOREM OwnersReleased == Spec => []NoOwnerLeaks
<1>1. IInv /\ StopInv => NoOwnerLeaks
  BY DEF IInv, TypeOK, Owners, StopInv, OwnerInv, NoOwnerLeaks, Stopping
<1>2. QED
  BY <1>1, Invariance, StopInvariance, PTL

------------------------------------------------------------------------------
\* A step that takes owners from sessions, and gives none to a session without
\* one, is a step of the life cycle.
LEMMA OwnersStep ==
  ASSUME IInv, Mode' = Mode, UNCHANGED registered,
         owners' \in [Sessions -> SUBSET Owners],
         \A s \in Sessions :
           launcher'[s] \in {"idle", "register"} <=> launcher[s] \in {"idle", "register"},
         \A s \in Sessions :
           owners[s] = {} => owners'[s] = {} \/ launcher'[s] \in {"idle", "register"}
  PROVE  [Lifecycle!Next]_(Lifecycle!vars)
<1> DEFINE gone == {s \in Sessions : Life[s] = "active" /\ owners'[s] = {}}
<1>1. Life' = [s \in Sessions |-> IF s \in gone THEN "gone" ELSE Life[s]]
  BY DEF Life
<1>2. Lifecycle!Leave(gone)
  BY <1>1 DEF Lifecycle!Leave
<1>3. QED
  BY <1>2 DEF Lifecycle!Next

\* Every step of a launch, of the shutdown and of a strand is a step of the life
\* cycle, or none of it.
LEMMA StepImplements ==
  ASSUME IInv, StopInv, [Next]_vars
  PROVE  [Lifecycle!Next]_(Lifecycle!vars)
<1> USE DEF IInv, TypeOK
<1>1. ASSUME NEW s \in Sessions, Launch(s) PROVE [Lifecycle!Next]_(Lifecycle!vars)
  BY <1>1, OwnersStep DEF Launch, Goto, Acquire, Owners, Mode
<1>2. ASSUME NEW s \in Sessions, Register(s) PROVE [Lifecycle!Next]_(Lifecycle!vars)
  <2>1. Mode' = Mode /\ Life[s] = "new"
    BY <1>2 DEF Register, Mode, Life
  <2>2. owners[s] # {} /\ s \notin registered
    BY <1>2 DEF Register, StrandInv, StopInv, OwnerInv
  <2>3. CASE stopper = "idle"
    <3>1. Life' = [Life EXCEPT ![s] = "active"]
      BY <1>2, <2>2, <2>3 DEF Register, Goto, Life
    <3>2. QED
      BY <2>1, <2>3, <3>1 DEF Mode, Lifecycle!Next, Lifecycle!Admit
  <2>4. CASE stopper # "idle"
    <3>1. Life' = [Life EXCEPT ![s] = "gone"]
      BY <1>2, <2>2, <2>4 DEF Register, Goto, Life
    <3>2. QED
      BY <2>1, <2>4, <3>1 DEF Mode, Lifecycle!Next, Lifecycle!Refuse
  <2>5. QED
    BY <2>3, <2>4
<1>3. ASSUME NEW s \in Sessions, CallStart(s) PROVE [Lifecycle!Next]_(Lifecycle!vars)
  BY <1>3, OwnersStep DEF CallStart, Goto, Mode
<1>4. ASSUME NEW s \in Sessions, LeaveLaunch(s) PROVE [Lifecycle!Next]_(Lifecycle!vars)
  BY <1>4, OwnersStep DEF LeaveLaunch, Goto, Release, Mode
<1>5. CASE BeginShutdown
  <2>1. Life' = Life
    BY <1>5 DEF BeginShutdown, Life
  <2>2. QED
    BY <1>5, <2>1 DEF BeginShutdown, Mode, Lifecycle!Next, Lifecycle!Drain
<1>6. CASE Snapshot
  <2>1. \A s \in Sessions : owners'[s] = {} <=> owners[s] = {}
    BY <1>6 DEF Snapshot
  <2>2. Life' = Life /\ Mode' = Mode
    BY <1>6, <2>1 DEF Snapshot, Life, Mode
  <2>3. QED
    BY <2>2 DEF Lifecycle!vars
<1>7. ASSUME NEW s \in Sessions, CallStop(s) PROVE [Lifecycle!Next]_(Lifecycle!vars)
  <2>1. owners[s] # {}
    BY <1>7 DEF CallStop, StopInv, OwnerInv
  <2>2. QED
    BY <1>7, <2>1, OwnersStep DEF CallStop, Acquire, Owners, Mode
<1>8. CASE LeaveStop
  BY <1>8, OwnersStep DEF LeaveStop, Mode
<1>9. ASSUME NEW s \in Sessions, NEW h \in Handlers, Run(s, h),
             UNCHANGED <<launcher, stopper, registered>>
      PROVE  [Lifecycle!Next]_(Lifecycle!vars)
  BY <1>9, OwnersStep DEF Run, RunStart, RunStop, Acquire, Release, Owners, Mode
<1>10. ASSUME NEW s \in Sessions, SessionEnds(s) PROVE [Lifecycle!Next]_(Lifecycle!vars)
  BY <1>10, OwnersStep DEF SessionEnds, Release, Mode
<1>11. CASE UNCHANGED vars
  BY <1>11 DEF vars, Lifecycle!vars, Mode, Life
<1>12. ASSUME NEW s \in Sessions, StrandStep(s) PROVE [Lifecycle!Next]_(Lifecycle!vars)
  BY <1>9, <1>10, <1>12 DEF StrandStep, RunInline, RunWaiting
<1>13. QED
  BY <1>1, <1>2, <1>3, <1>4, <1>5, <1>6, <1>7, <1>8, <1>11, <1>12
     DEF Next, Step, Over, StopSessions, LaunchStep

\* Launches, strands and the shutdown keep to ServerLifecycle, as Server does
\* (server.cpp:180, 289, 303).
THEOREM LaunchKeepsLifecycle == Spec => ImplementsLifecycle
<1>1. Init => Lifecycle!Init
  BY DEF Init, Life, Mode, Lifecycle!Init
<1>2. IInv /\ StopInv /\ [Next]_vars => [Lifecycle!Next]_(Lifecycle!vars)
  BY StepImplements
<1>3. QED
  BY <1>1, <1>2, Invariance, StopInvariance, PTL DEF Spec, ImplementsLifecycle, Lifecycle!Spec

==============================================================================
