----------------------------- MODULE TokenBucket -----------------------------
(***************************************************************************)
(* TokenBucket: the one rate limiter that all sessions share.  Sessions    *)
(* run on any thread of io_, so allow() and reset() are called             *)
(* concurrently; mutex_ serialises them.                                   *)
(*                                                                         *)
(* Time is counted in ticks, Second of them to the second, and tokens in   *)
(* parts of a token, Second of them to the token, so that elapsed * rate_  *)
(* is an integer.  The code computes with doubles: their rounding is not   *)
(* modelled.                                                               *)
(***************************************************************************)
EXTENDS Integers, Sequences

CONSTANTS
  Threads,    \* the threads of io_, which run the sessions
  Rate,       \* rate_, tokens a second
  Capacity,   \* capacity_, in tokens
  Second,     \* ticks in a second
  MaxTime     \* Bound: the last tick

ASSUME BucketAssumption ==
  /\ Rate \in Nat
  /\ Capacity \in Nat
  /\ Second \in Nat \ {0}
  /\ MaxTime \in Nat

VARIABLES
  now,       \* steady_clock
  tokens,    \* tokens_, in parts of a token
  last,      \* last_refill_
  mutex,     \* the thread that has locked mutex_, if any
  pc,        \* where each thread is in allow() or reset()
  reading,   \* refill's local variable now, of each thread
  answer,    \* what the last allow() of each thread returned
  hist       \* history: the times of the grants since the last reset

vars == <<now, tokens, last, mutex, pc, reading, answer, hist>>

Full == Capacity * Second

Lesser(a, b) == IF a <= b THEN a ELSE b

TypeOK ==
  /\ now \in 0..MaxTime
  /\ tokens \in 0..Full
  /\ last \in Nat
  /\ mutex \in SUBSET Threads
  /\ pc \in [Threads -> {"idle", "clock", "refill", "decide", "reset"}]
  /\ reading \in [Threads -> Nat]
  /\ answer \in [Threads -> {"none", "granted", "denied"}]
  /\ hist \in Seq(Nat)

\* The constructor.
Init ==
  /\ now = 0
  /\ tokens = Full
  /\ last = 0
  /\ mutex = {}
  /\ pc = [t \in Threads |-> "idle"]
  /\ reading = [t \in Threads |-> 0]
  /\ answer = [t \in Threads |-> "none"]
  /\ hist = <<>>

Tick ==
  /\ now < MaxTime
  /\ now' = now + 1
  /\ UNCHANGED <<tokens, last, mutex, pc, reading, answer, hist>>

\* Mutant of EnterAllow: no lock_guard.
EnterAllowUnlocked(t) ==
  /\ pc[t] = "idle"
  /\ pc' = [pc EXCEPT ![t] = "clock"]
  /\ answer' = [answer EXCEPT ![t] = "none"]
  /\ UNCHANGED <<now, tokens, last, mutex, reading, hist>>

\* allow() is called and obtains the lock.
EnterAllow(t) ==
  /\ pc[t] = "idle"
  /\ mutex = {}
  /\ mutex' = {t}
  /\ pc' = [pc EXCEPT ![t] = "clock"]
  /\ answer' = [answer EXCEPT ![t] = "none"]
  /\ UNCHANGED <<now, tokens, last, reading, hist>>

\* refill() reads the clock.
ReadClock(t) ==
  /\ pc[t] = "clock"
  /\ reading' = [reading EXCEPT ![t] = now]
  /\ pc' = [pc EXCEPT ![t] = "refill"]
  /\ UNCHANGED <<now, tokens, last, mutex, answer, hist>>

\* Mutant of Refill: the bucket overflows.
RefillUncapped(t) ==
  /\ pc[t] = "refill"
  /\ tokens' = tokens + (reading[t] - last) * Rate
  /\ last' = reading[t]
  /\ pc' = [pc EXCEPT ![t] = "decide"]
  /\ UNCHANGED <<now, mutex, reading, answer, hist>>

\* Mutant of Refill: the elapsed time is cut to the tokens that are whole, and
\* its remainder is lost.
RefillWhole(t) ==
  /\ pc[t] = "refill"
  /\ tokens' = Lesser(Full, tokens + (((reading[t] - last) * Rate) \div Second) * Second)
  /\ last' = reading[t]
  /\ pc' = [pc EXCEPT ![t] = "decide"]
  /\ UNCHANGED <<now, mutex, reading, answer, hist>>

\* refill(): the tokens of the time elapsed since the last refill.
Refill(t) ==
  /\ pc[t] = "refill"
  /\ tokens' = Lesser(Full, tokens + (reading[t] - last) * Rate)
  /\ last' = reading[t]
  /\ pc' = [pc EXCEPT ![t] = "decide"]
  /\ UNCHANGED <<now, mutex, reading, answer, hist>>

\* Mutant of Decide: the last whole token is not given out.
DecideStrict(t) ==
  /\ pc[t] = "decide"
  /\ IF tokens > Second
     THEN /\ tokens' = tokens - Second
          /\ hist' = Append(hist, last)
          /\ answer' = [answer EXCEPT ![t] = "granted"]
     ELSE /\ answer' = [answer EXCEPT ![t] = "denied"]
          /\ UNCHANGED <<tokens, hist>>
  /\ pc' = [pc EXCEPT ![t] = "idle"]
  /\ mutex' = mutex \ {t}
  /\ UNCHANGED <<now, last, reading>>

\* allow() takes a token if there is one, and releases the lock.
Decide(t) ==
  /\ pc[t] = "decide"
  /\ IF tokens >= Second
     THEN /\ tokens' = tokens - Second
          /\ hist' = Append(hist, last)
          /\ answer' = [answer EXCEPT ![t] = "granted"]
     ELSE /\ answer' = [answer EXCEPT ![t] = "denied"]
          /\ UNCHANGED <<tokens, hist>>
  /\ pc' = [pc EXCEPT ![t] = "idle"]
  /\ mutex' = mutex \ {t}
  /\ UNCHANGED <<now, last, reading>>

\* reset() is called and obtains the lock.
EnterReset(t) ==
  /\ pc[t] = "idle"
  /\ mutex = {}
  /\ mutex' = {t}
  /\ pc' = [pc EXCEPT ![t] = "reset"]
  /\ UNCHANGED <<now, tokens, last, reading, answer, hist>>

\* reset() fills the bucket and releases the lock.
Reset(t) ==
  /\ pc[t] = "reset"
  /\ tokens' = Full
  /\ last' = now
  /\ hist' = <<>>
  /\ pc' = [pc EXCEPT ![t] = "idle"]
  /\ mutex' = mutex \ {t}
  /\ UNCHANGED <<now, reading, answer>>

Step(t) ==
  \/ EnterAllow(t)
  \/ ReadClock(t)
  \/ Refill(t)
  \/ Decide(t)
  \/ EnterReset(t)
  \/ Reset(t)

Next == Tick \/ \E t \in Threads : Step(t)

Spec == Init /\ [][Next]_vars

------------------------------------------------------------------------------
\* In every window of time, whichever threads called allow() and whenever the
\* window begins, at most burst_size requests are granted beyond the rate
\* (tocken-bucket.cpp:20, 41).
WindowBound ==
  \A i, j \in 1..Len(hist) :
    i <= j => (j - i + 1) * Second <= Full + Rate * (hist[j] - hist[i])

\* The bucket grants whatever that rule allows and denies nothing else: it is
\* the rate limiter of module RateLimit, whose clock is the time of the last
\* refill.
Limiter == INSTANCE RateLimit WITH clock <- last

ImplementsRateLimit == Limiter!Spec

\* The last grant is so recent that the next token has not flowed in since.
RecentlyGranted == hist # <<>> /\ Rate * (last - hist[Len(hist)]) < Second

\* A session that is refused is told to retry after one second
\* (http-session.cpp:261).  At a rate and a burst of at least one that is good
\* advice: no request is refused unless another one was granted recently, so a
\* client that waits the second is refused again only if somebody else was
\* granted a request in the meantime.  The code accepts two settings in which
\* the advice is bad, and which are excepted here: with a burst of 0 nothing is
\* ever granted, with a rate of 0 nothing once the first burst is spent.
RetryAfterSuffices ==
  [][\A t \in Threads :
       Rate > 0 /\ Capacity > 0 /\ answer[t] # "denied" /\ answer'[t] = "denied"
         => RecentlyGranted]_vars

------------------------------------------------------------------------------
\* What makes WindowBound inductive.

\* mutex_ is held from the lock_guard to the return.
MutexInv == \A t \in Threads : pc[t] # "idle" <=> mutex = {t}

\* The clock does not run backwards between the refills, because it is read
\* under the lock.
ClockInv ==
  /\ last <= now
  /\ \A t \in Threads : reading[t] <= now
  /\ \A t \in Threads : pc[t] = "refill" => last <= reading[t]
  /\ \A i \in 1..Len(hist) : hist[i] <= last

\* The tokens left, added to those granted since any earlier grant, do not
\* exceed a full bucket and what has flowed in since.
TokensBound ==
  \A i \in 1..Len(hist) :
    (Len(hist) - i + 1) * Second + tokens <= Full + Rate * (last - hist[i])

BucketInv == TypeOK /\ MutexInv /\ ClockInv /\ TokensBound /\ WindowBound

------------------------------------------------------------------------------
\* What a denial rests on, for the refinement.

\* A bucket that is not full has lost its tokens to the grants of some window:
\* for it the bound of TokensBound is exact.
ExactInv ==
  \/ tokens = Full
  \/ \E i \in 1..Len(hist) :
       (Len(hist) - i + 1) * Second + tokens = Full + Rate * (last - hist[i])

\* A call has no answer before it is decided.
CallInv == \A t \in Threads : pc[t] \in {"clock", "refill", "decide"} => answer[t] = "none"

==============================================================================
