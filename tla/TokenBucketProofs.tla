------------------------- MODULE TokenBucketProofs ---------------------------
(***************************************************************************)
(* Proofs about TokenBucket, for every set of threads, rate, burst size    *)
(* and granularity of time.                                                *)
(***************************************************************************)
EXTENDS TokenBucket, TLAPS

\* What flows in during two adjacent spans of time adds up.
LEMMA FlowAdds ==
  ASSUME NEW a \in Int, NEW b \in Int, NEW c \in Int
  PROVE  Rate * (c - a) = Rate * (b - a) + (c - b) * Rate
  BY BucketAssumption

\* A full bucket, capacity_ in parts of a token, is a natural number.
LEMMA FullNat == Full \in Nat
  BY BucketAssumption DEF Full

\* What flows in during a span of time, in refill, is a natural number.
LEMMA FlowNat ==
  ASSUME NEW a \in Nat, NEW b \in Nat, a <= b
  PROVE  (b - a) * Rate \in Nat
<1>1. b - a \in Nat
  OBVIOUS
<1>2. QED
  BY <1>1, BucketAssumption

\* While a thread is in the bucket no other one is.
LEMMA MutexAlone ==
  ASSUME MutexInv,
         NEW t \in Threads, pc[t] # "idle",
         NEW u \in Threads, pc[u] # "idle"
  PROVE  t = u
  BY DEF MutexInv

\* The constructor's bucket is full and has granted nothing.
LEMMA InitBucketInv == Init => BucketInv
<1> SUFFICES ASSUME Init PROVE BucketInv
  OBVIOUS
<1>1. TypeOK
  BY FullNat, BucketAssumption DEF Init, TypeOK
<1>2. MutexInv /\ ClockInv /\ TokensBound /\ WindowBound
  BY BucketAssumption DEF Init, MutexInv, ClockInv, TokensBound, WindowBound
<1>3. QED
  BY <1>1, <1>2 DEF BucketInv

\* Every step of allow(), of reset() and of the clock preserves the invariant.
LEMMA NextBucketInv == BucketInv /\ [Next]_vars => BucketInv'
<1> SUFFICES ASSUME BucketInv, [Next]_vars PROVE BucketInv'
  OBVIOUS
<1> USE FullNat, BucketAssumption DEF BucketInv
<1>1. CASE Tick
  <2> USE <1>1 DEF Tick
  <2>1. TypeOK'
    BY DEF TypeOK
  <2>2. ClockInv'
    BY DEF TypeOK, ClockInv
  <2>3. MutexInv' /\ TokensBound' /\ WindowBound'
    BY DEF MutexInv, TokensBound, WindowBound
  <2>4. QED
    BY <2>1, <2>2, <2>3
<1>2. ASSUME NEW t \in Threads, EnterAllow(t) PROVE BucketInv'
  <2> USE <1>2 DEF EnterAllow
  <2>1. TypeOK'
    BY DEF TypeOK
  <2>2. MutexInv'
    BY DEF TypeOK, MutexInv
  <2>3. ClockInv'
    BY DEF TypeOK, ClockInv
  <2>4. TokensBound' /\ WindowBound'
    BY DEF TokensBound, WindowBound
  <2>5. QED
    BY <2>1, <2>2, <2>3, <2>4
<1>3. ASSUME NEW t \in Threads, ReadClock(t) PROVE BucketInv'
  <2> USE <1>3 DEF ReadClock
  <2>1. TypeOK'
    BY DEF TypeOK
  <2>2. MutexInv'
    BY DEF TypeOK, MutexInv
  <2>3. ClockInv'
    BY DEF TypeOK, ClockInv
  <2>4. TokensBound' /\ WindowBound'
    BY DEF TokensBound, WindowBound
  <2>5. QED
    BY <2>1, <2>2, <2>3, <2>4
<1>4. ASSUME NEW t \in Threads, Refill(t) PROVE BucketInv'
  <2> DEFINE flow == (reading[t] - last) * Rate
  <2>1. flow \in Nat
    BY <1>4, FlowNat DEF Refill, TypeOK, ClockInv
  <2> HIDE DEF flow
  <2>2. /\ tokens' \in 0..Full
        /\ tokens' <= tokens + flow
    BY <1>4, <2>1 DEF Refill, Lesser, TypeOK, flow
  <2>3. TypeOK'
    BY <1>4, <2>2 DEF Refill, TypeOK
  <2>4. MutexInv'
    BY <1>4 DEF Refill, TypeOK, MutexInv
  <2>5. ClockInv'
    <3>1. last <= reading[t] /\ reading[t] <= now
      BY <1>4 DEF Refill, ClockInv
    <3>2. ASSUME NEW u \in Threads, pc'[u] = "refill" PROVE FALSE
      BY <1>4, <3>2, MutexAlone DEF Refill, TypeOK
    <3>3. \A i \in 1..Len(hist) : hist[i] <= reading[t]
      BY <1>4, <3>1 DEF TypeOK, ClockInv
    <3>4. QED
      BY <1>4, <3>1, <3>2, <3>3 DEF Refill, ClockInv
  <2>6. TokensBound'
    <3> SUFFICES ASSUME NEW i \in 1..Len(hist)
                 PROVE  (Len(hist) - i + 1) * Second + tokens'
                          <= Full + Rate * (last' - hist[i])
      BY <1>4 DEF Refill, TokensBound
    <3>1. Rate * (last' - hist[i]) = Rate * (last - hist[i]) + flow
      <4>1. hist[i] \in Int /\ last \in Int /\ reading[t] \in Int
        BY DEF TypeOK
      <4>2. QED
        BY <1>4, <4>1, FlowAdds DEF Refill, flow
    <3>2. (Len(hist) - i + 1) * Second + tokens <= Full + Rate * (last - hist[i])
      BY DEF TokensBound
    <3>3. /\ (Len(hist) - i + 1) * Second \in Int
          /\ Rate * (last - hist[i]) \in Int
          /\ tokens \in Int
          /\ tokens' \in Int
      BY <2>2 DEF TypeOK
    <3>4. QED
      BY <2>1, <2>2, <3>1, <3>2, <3>3
  <2>7. WindowBound'
    BY <1>4 DEF Refill, WindowBound
  <2>8. QED
    BY <2>3, <2>4, <2>5, <2>6, <2>7
<1>5. ASSUME NEW t \in Threads, Decide(t) PROVE BucketInv'
  <2> USE <1>5 DEF Decide
  <2>1. MutexInv'
    BY DEF TypeOK, MutexInv
  <2>2. CASE tokens >= Second
    <3>1. /\ hist' = Append(hist, last)
          /\ tokens' = tokens - Second
          /\ UNCHANGED <<now, last, reading>>
      BY <2>2
    <3>2. /\ hist' \in Seq(Nat)
          /\ Len(hist') = Len(hist) + 1
          /\ \A i \in 1..Len(hist) : hist'[i] = hist[i]
          /\ hist'[Len(hist) + 1] = last
      BY <3>1 DEF TypeOK
    <3>3. tokens' \in 0..Full
      BY <2>2, <3>1 DEF TypeOK
    <3>4. TypeOK'
      BY <2>2, <3>2, <3>3 DEF TypeOK
    <3>5. ClockInv'
      BY <3>1, <3>2 DEF TypeOK, ClockInv
    <3>6. ASSUME NEW i \in 1..Len(hist)
          PROVE  (Len(hist) + 1 - i + 1) * Second + (tokens - Second)
                   <= Full + Rate * (last - hist[i])
      <4>1. (Len(hist) + 1 - i + 1) * Second = (Len(hist) - i + 1) * Second + Second
        BY DEF TypeOK
      <4>2. (Len(hist) - i + 1) * Second + tokens <= Full + Rate * (last - hist[i])
        BY DEF TokensBound
      <4>3. /\ (Len(hist) - i + 1) * Second \in Int
            /\ Rate * (last - hist[i]) \in Int
            /\ tokens \in Int
        BY DEF TypeOK
      <4>4. QED
        BY <4>1, <4>2, <4>3
    <3>7. 1 * Second + (tokens - Second) <= Full + Rate * (last - last)
      BY DEF TypeOK
    <3>8. TokensBound'
      <4> SUFFICES ASSUME NEW i \in 1..(Len(hist) + 1)
                   PROVE  (Len(hist) + 1 - i + 1) * Second + (tokens - Second)
                            <= Full + Rate * (last - hist'[i])
        BY <3>1, <3>2 DEF TokensBound, Full
      <4>1. CASE i = Len(hist) + 1
        <5>1. Len(hist) + 1 - i + 1 = 1
          BY <4>1 DEF TypeOK
        <5>2. QED
          BY <4>1, <5>1, <3>2, <3>7
      <4>2. CASE i # Len(hist) + 1
        <5>1. i \in 1..Len(hist)
          BY <4>2 DEF TypeOK
        <5>2. QED
          BY <5>1, <3>2, <3>6
      <4>3. QED
        BY <4>1, <4>2
    <3>9. WindowBound'
      <4> SUFFICES ASSUME NEW i \in 1..(Len(hist) + 1), NEW j \in 1..(Len(hist) + 1), i <= j
                   PROVE  (j - i + 1) * Second <= Full + Rate * (hist'[j] - hist'[i])
        BY <3>2 DEF WindowBound, Full
      <4>1. CASE j # Len(hist) + 1
        <5>1. i \in 1..Len(hist) /\ j \in 1..Len(hist)
          BY <4>1 DEF TypeOK
        <5>2. QED
          BY <5>1, <3>2 DEF WindowBound
      <4>2. CASE j = Len(hist) + 1
        <5>1. (j - i + 1) * Second + (tokens - Second) <= Full + Rate * (last - hist'[i])
          BY <4>2, <3>1, <3>2, <3>8 DEF TokensBound, Full
        <5>2. /\ (j - i + 1) * Second \in Int
              /\ Rate * (last - hist'[i]) \in Int
              /\ tokens - Second \in Nat
          BY <2>2, <3>2 DEF TypeOK
        <5>3. QED
          BY <5>1, <5>2, <4>2, <3>2
      <4>3. QED
        BY <4>1, <4>2
    <3>10. QED
      BY <2>1, <3>4, <3>5, <3>8, <3>9
  <2>3. CASE ~(tokens >= Second)
    <3>1. UNCHANGED <<now, last, reading, tokens, hist>>
      BY <2>3
    <3>2. TypeOK'
      BY <2>3, <3>1 DEF TypeOK
    <3>3. ClockInv'
      BY <3>1 DEF TypeOK, ClockInv
    <3>4. TokensBound' /\ WindowBound'
      BY <3>1 DEF TokensBound, WindowBound
    <3>5. QED
      BY <2>1, <3>2, <3>3, <3>4
  <2>4. QED
    BY <2>2, <2>3
<1>6. ASSUME NEW t \in Threads, EnterReset(t) PROVE BucketInv'
  <2> USE <1>6 DEF EnterReset
  <2>1. TypeOK'
    BY DEF TypeOK
  <2>2. MutexInv'
    BY DEF TypeOK, MutexInv
  <2>3. ClockInv'
    BY DEF TypeOK, ClockInv
  <2>4. TokensBound' /\ WindowBound'
    BY DEF TokensBound, WindowBound
  <2>5. QED
    BY <2>1, <2>2, <2>3, <2>4
<1>7. ASSUME NEW t \in Threads, Reset(t) PROVE BucketInv'
  <2> USE <1>7 DEF Reset
  <2>1. TypeOK'
    BY DEF TypeOK
  <2>2. MutexInv'
    BY DEF TypeOK, MutexInv
  <2>3. ClockInv'
    <3>1. ASSUME NEW u \in Threads, pc'[u] = "refill" PROVE FALSE
      BY <3>1, MutexAlone DEF TypeOK
    <3>2. QED
      BY <3>1 DEF TypeOK, ClockInv
  <2>4. TokensBound' /\ WindowBound'
    BY DEF TokensBound, WindowBound
  <2>5. QED
    BY <2>1, <2>2, <2>3, <2>4
<1>8. CASE UNCHANGED vars
  BY <1>8 DEF vars, TypeOK, MutexInv, ClockInv, TokensBound, WindowBound
<1>9. QED
  BY <1>1, <1>2, <1>3, <1>4, <1>5, <1>6, <1>7, <1>8 DEF Next, Step

\* The inductive invariant holds in every reachable state.
LEMMA Invariance == Spec => []BucketInv
  BY InitBucketInv, NextBucketInv, PTL DEF Spec

\* The bucket never holds less than nothing or more than its capacity, and
\* every variable keeps its type.
THEOREM TypeCorrect == Spec => []TypeOK
<1>1. BucketInv => TypeOK
  BY DEF BucketInv
<1>2. QED
  BY <1>1, Invariance, PTL

\* The rate limit holds in every window, for any number of threads
\* (tocken-bucket.cpp:20, 41).
THEOREM RateKept == Spec => []WindowBound
<1>1. BucketInv => WindowBound
  BY DEF BucketInv
<1>2. QED
  BY <1>1, Invariance, PTL

------------------------------------------------------------------------------
\* Every step keeps the bound exact for some window, unless the bucket is full.
LEMMA NextExactInv ==
  ASSUME BucketInv, ExactInv, [Next]_vars
  PROVE  ExactInv'
<1> USE FullNat, BucketAssumption
<1>1. ASSUME NEW t \in Threads, Refill(t) PROVE ExactInv'
  <2> DEFINE flow == (reading[t] - last) * Rate
  <2>1. flow \in Nat
    BY <1>1, FlowNat DEF BucketInv, Refill, TypeOK, ClockInv
  <2> HIDE DEF flow
  <2>2. /\ tokens' = Full \/ tokens' = tokens + flow
        /\ tokens = Full => tokens' = Full
    BY <1>1, <2>1 DEF BucketInv, Refill, Lesser, TypeOK, flow
  <2>3. CASE tokens' = Full
    BY <2>3 DEF ExactInv, Full
  <2>4. CASE tokens' = tokens + flow /\ tokens # Full
    <3>1. PICK i \in 1..Len(hist) :
            (Len(hist) - i + 1) * Second + tokens = Full + Rate * (last - hist[i])
      BY <2>4 DEF ExactInv
    <3>2. Rate * (last' - hist[i]) = Rate * (last - hist[i]) + flow
      <4>1. hist[i] \in Int /\ last \in Int /\ reading[t] \in Int
        BY DEF BucketInv, TypeOK
      <4>2. QED
        BY <1>1, <4>1, FlowAdds DEF Refill, flow
    <3>3. /\ (Len(hist) - i + 1) * Second \in Int
          /\ Rate * (last - hist[i]) \in Int
          /\ tokens \in Int
      BY DEF BucketInv, TypeOK
    <3>4. (Len(hist) - i + 1) * Second + tokens' = Full + Rate * (last' - hist[i])
      BY <2>1, <2>4, <3>1, <3>2, <3>3
    <3>5. hist' = hist
      BY <1>1 DEF Refill
    <3>6. QED
      BY <3>4, <3>5 DEF ExactInv, Full
  <2>5. QED
    BY <2>2, <2>3, <2>4
<1>2. ASSUME NEW t \in Threads, Decide(t), tokens >= Second PROVE ExactInv'
  <2>1. /\ hist' = Append(hist, last)
        /\ tokens' = tokens - Second
        /\ last' = last
    BY <1>2 DEF Decide
  <2>2. /\ Len(hist) \in Nat
        /\ Len(hist') = Len(hist) + 1
        /\ \A i \in 1..Len(hist) : hist'[i] = hist[i]
        /\ hist'[Len(hist) + 1] = last
    BY <2>1 DEF BucketInv, TypeOK
  <2>3. CASE tokens = Full
    <3>1. (Len(hist') - (Len(hist) + 1) + 1) * Second + tokens'
            = Full + Rate * (last' - hist'[Len(hist) + 1])
      BY <2>1, <2>2, <2>3 DEF BucketInv, TypeOK
    <3>2. QED
      BY <2>2, <3>1 DEF ExactInv, Full
  <2>4. CASE tokens # Full
    <3>1. PICK i \in 1..Len(hist) :
            (Len(hist) - i + 1) * Second + tokens = Full + Rate * (last - hist[i])
      BY <2>4 DEF ExactInv
    <3>2. (Len(hist') - i + 1) * Second = (Len(hist) - i + 1) * Second + Second
      BY <2>2
    <3>3. /\ (Len(hist) - i + 1) * Second \in Int
          /\ Rate * (last - hist[i]) \in Int
          /\ tokens \in Int
      BY DEF BucketInv, TypeOK
    <3>4. (Len(hist') - i + 1) * Second + tokens' = Full + Rate * (last' - hist'[i])
      BY <2>1, <2>2, <3>1, <3>2, <3>3
    <3>5. i \in 1..Len(hist')
      BY <2>2
    <3>6. QED
      BY <3>4, <3>5 DEF ExactInv, Full
  <2>5. QED
    BY <2>3, <2>4
<1>3. ASSUME NEW t \in Threads, Reset(t) PROVE ExactInv'
  BY <1>3 DEF Reset, ExactInv, Full
<1>4. CASE UNCHANGED <<tokens, last, hist>>
  BY <1>4 DEF ExactInv, Full
<1>5. QED
  BY <1>1, <1>2, <1>3, <1>4
     DEF Next, Step, Tick, EnterAllow, ReadClock, Decide, EnterReset, vars

\* A call that is under way has no answer yet.
LEMMA NextCallInv ==
  ASSUME BucketInv, CallInv, [Next]_vars
  PROVE  CallInv'
  BY DEF BucketInv, TypeOK, CallInv, Next, Step, Tick, EnterAllow, ReadClock, Refill, Decide,
         EnterReset, Reset, vars

\* A grant keeps every window admissible.
LEMMA GrantAdmissible ==
  ASSUME BucketInv, NEW t \in Threads, Decide(t), tokens >= Second
  PROVE  Limiter!Admissible(Append(hist, last))
<1>1. hist' = Append(hist, last) /\ WindowBound'
  BY NextBucketInv DEF Decide, BucketInv, Next, Step
<1>2. QED
  BY <1>1 DEF WindowBound, Limiter!Admissible, Full

\* A denial is due to a window that a grant would overfill.
LEMMA DenyInadmissible ==
  ASSUME BucketInv, ExactInv, ~(tokens >= Second)
  PROVE  ~Limiter!Admissible(Append(hist, last))
<1> USE FullNat, BucketAssumption
<1> DEFINE h == Append(hist, last)
<1>1. /\ Len(hist) \in Nat
      /\ Len(h) = Len(hist) + 1
      /\ \A i \in 1..Len(hist) : h[i] = hist[i]
      /\ h[Len(hist) + 1] = last
  BY DEF BucketInv, TypeOK
<1>2. tokens \in Int /\ tokens < Second
  BY DEF BucketInv, TypeOK
<1> DEFINE n == Len(hist) + 1
<1> SUFFICES ASSUME \A i, j \in 1..Len(h) :
                      i <= j => (j - i + 1) * Second <= Full + Rate * (h[j] - h[i])
             PROVE  FALSE
  BY DEF Limiter!Admissible, Full
<1> HIDE DEF h
<1>3. CASE tokens = Full
  <2>1. ~((n - n + 1) * Second <= Full + Rate * (h[n] - h[n]))
    BY <1>1, <1>2, <1>3 DEF BucketInv, TypeOK
  <2>2. n \in 1..Len(h) /\ n <= n
    BY <1>1
  <2>3. QED
    BY <2>1, <2>2
<1>4. CASE tokens # Full
  <2>1. PICK i \in 1..Len(hist) :
          (Len(hist) - i + 1) * Second + tokens = Full + Rate * (last - hist[i])
    BY <1>4 DEF ExactInv
  <2>2. (n - i + 1) * Second = (Len(hist) - i + 1) * Second + Second
    BY <1>1
  <2>3. /\ (Len(hist) - i + 1) * Second \in Int
        /\ Rate * (last - hist[i]) \in Int
    BY DEF BucketInv, TypeOK
  <2>4. ~((n - i + 1) * Second <= Full + Rate * (h[n] - h[i]))
    BY <1>1, <1>2, <2>1, <2>2, <2>3
  <2>5. n \in 1..Len(h) /\ i \in 1..Len(h) /\ i <= n
    BY <1>1
  <2>6. QED
    BY <2>4, <2>5
<1>5. QED
  BY <1>3, <1>4

\* Every step of the bucket is a step of the rate limiter, or none of it.
LEMMA StepImplements ==
  ASSUME BucketInv, ExactInv, CallInv, [Next]_vars
  PROVE  [Limiter!Next]_(Limiter!vars)
<1> USE DEF Limiter!Next, Limiter!vars
<1>1. CASE UNCHANGED <<last, hist, answer>>
  BY <1>1
<1>2. ASSUME NEW t \in Threads, EnterAllow(t) PROVE Limiter!Call(t)
  BY <1>2 DEF EnterAllow, Limiter!Call
<1>3. ASSUME NEW t \in Threads, Refill(t) PROVE Limiter!Elapse
  <2>1. /\ last' = reading[t]
        /\ last <= reading[t] /\ reading[t] <= now
    BY <1>3 DEF Refill, BucketInv, ClockInv
  <2>2. /\ last \in Nat /\ reading[t] \in Nat
        /\ now \in Nat /\ now <= MaxTime
    BY BucketAssumption DEF BucketInv, TypeOK
  <2>3. last' \in last..MaxTime
    BY <2>1, <2>2, BucketAssumption
  <2>4. QED
    BY <1>3, <2>3 DEF Refill, Limiter!Elapse
<1>4. ASSUME NEW t \in Threads, Decide(t) PROVE Limiter!Grant(t) \/ Limiter!Deny(t)
  <2>1. answer[t] = "none"
    BY <1>4 DEF Decide, CallInv
  <2>2. CASE tokens >= Second
    BY <1>4, <2>1, <2>2, GrantAdmissible DEF Decide, Limiter!Grant
  <2>3. CASE ~(tokens >= Second)
    BY <1>4, <2>1, <2>3, DenyInadmissible DEF Decide, Limiter!Deny
  <2>4. QED
    BY <2>2, <2>3
<1>5. ASSUME NEW t \in Threads, Reset(t) PROVE Limiter!Reset
  <2>1. last' \in last..MaxTime
    BY <1>5, BucketAssumption DEF Reset, BucketInv, TypeOK, ClockInv
  <2>2. QED
    BY <1>5, <2>1 DEF Reset, Limiter!Reset
<1>6. QED
  BY <1>1, <1>2, <1>3, <1>4, <1>5 DEF Next, Step, Tick, ReadClock, EnterReset, vars

\* The bucket is the rate limiter of module RateLimit: it grants what keeps
\* every window admissible and denies nothing else (tocken-bucket.cpp:20, 41).
THEOREM ExactLimiter == Spec => ImplementsRateLimit
<1>1. Init => ExactInv /\ CallInv /\ Limiter!Init
  BY DEF Init, ExactInv, CallInv, Full, Limiter!Init
<1>2. BucketInv /\ ExactInv /\ CallInv /\ [Next]_vars => ExactInv' /\ CallInv'
  BY NextExactInv, NextCallInv
<1>3. BucketInv /\ ExactInv /\ CallInv /\ [Next]_vars => [Limiter!Next]_(Limiter!vars)
  BY StepImplements
<1>4. QED
  BY <1>1, <1>2, <1>3, Invariance, PTL DEF Spec, ImplementsRateLimit, Limiter!Spec

------------------------------------------------------------------------------
\* A bucket with less than a whole token has given one out so recently that the
\* next has not flowed in: the tokens that have are still there.
LEMMA RecentGrant ==
  ASSUME BucketInv, ExactInv, Capacity # 0, tokens < Second
  PROVE  RecentlyGranted
<1> USE FullNat, BucketAssumption
<1>1. tokens # Full
  <2>1. Full >= Second
    BY DEF Full
  <2>2. QED
    BY <2>1 DEF BucketInv, TypeOK
<1>2. PICK i \in 1..Len(hist) :
        (Len(hist) - i + 1) * Second + tokens = Full + Rate * (last - hist[i])
  BY <1>1 DEF ExactInv
<1> DEFINE n == Len(hist)
<1>3. n \in Nat \ {0} /\ i \in 1..n /\ hist # <<>>
  BY <1>2 DEF BucketInv, TypeOK
<1>4. (n - i + 1) * Second <= Full + Rate * (hist[n] - hist[i])
  BY <1>3 DEF BucketInv, WindowBound
<1>5. Rate * (last - hist[i]) = Rate * (hist[n] - hist[i]) + Rate * (last - hist[n])
  <2>1. hist[i] \in Int /\ hist[n] \in Int /\ last \in Int
    BY <1>3 DEF BucketInv, TypeOK
  <2>2. Rate * (last - hist[n]) = (last - hist[n]) * Rate
    BY <2>1
  <2>3. QED
    BY <2>1, <2>2, FlowAdds
<1>6. /\ (n - i + 1) * Second \in Int
      /\ Rate * (hist[n] - hist[i]) \in Int
      /\ Rate * (last - hist[n]) \in Int
      /\ tokens \in Int
  BY <1>3 DEF BucketInv, TypeOK
<1>7. Rate * (last - hist[n]) <= tokens
  BY <1>2, <1>4, <1>5, <1>6
<1>8. QED
  BY <1>3, <1>6, <1>7 DEF RecentlyGranted

\* A session is refused only within the second after the last grant, for every
\* rate and every burst of at least one: Retry-After does not ask too little
\* (tocken-bucket.cpp:20, http-session.cpp:261).
THEOREM RetryAdviceSound == Spec => RetryAfterSuffices
<1>1. Init => ExactInv
  BY DEF Init, ExactInv, Full
<1>2. BucketInv /\ ExactInv /\ [Next]_vars => ExactInv'
  BY NextExactInv
<1>3. /\ BucketInv
      /\ ExactInv
      /\ [Next]_vars
      => [\A t \in Threads :
            Rate > 0 /\ Capacity > 0 /\ answer[t] # "denied" /\ answer'[t] = "denied"
              => RecentlyGranted]_vars
  <2> SUFFICES ASSUME BucketInv, ExactInv, [Next]_vars, NEW t \in Threads,
                      answer[t] # "denied", answer'[t] = "denied", Capacity > 0
               PROVE  RecentlyGranted
    OBVIOUS
  <2>1. PICK u \in Threads : Decide(u) /\ ~(tokens >= Second)
    BY DEF Next, Step, Tick, EnterAllow, ReadClock, Refill, Decide, EnterReset, Reset, vars,
           BucketInv, TypeOK
  <2>2. tokens < Second
    BY <2>1, BucketAssumption, FullNat DEF BucketInv, TypeOK
  <2>3. QED
    BY <2>2, BucketAssumption, RecentGrant
<1>4. QED
  BY <1>1, <1>2, <1>3, Invariance, PTL DEF Spec, RetryAfterSuffices

==============================================================================
