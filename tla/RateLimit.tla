------------------------------ MODULE RateLimit ------------------------------
(***************************************************************************)
(* What a rate limiter of Rate requests a second and bursts of Capacity    *)
(* requests promises to the sessions that share it: in no window of time,  *)
(* however placed, are more than Capacity requests granted beyond those    *)
(* that Rate allows for the window's length; and no request is denied that *)
(* could have been granted under that rule.                                *)
(*                                                                         *)
(* Time is counted in ticks, Second of them to the second.                 *)
(***************************************************************************)
EXTENDS Integers, Sequences

CONSTANTS
  Threads,    \* the threads of io_, which run the sessions
  Rate,       \* throttling.requests_per_second
  Capacity,   \* throttling.burst_size
  Second,     \* ticks in a second
  MaxTime     \* Bound: the last tick

VARIABLES
  clock,      \* the time as the limiter knows it
  hist,       \* the times at which requests were granted
  answer      \* what the last call of each thread returned, if it has

vars == <<clock, hist, answer>>

\* Requests granted at the times h keep to the rate in every window.
Admissible(h) ==
  \A i, j \in 1..Len(h) :
    i <= j => (j - i + 1) * Second <= Capacity * Second + Rate * (h[j] - h[i])

Init ==
  /\ clock = 0
  /\ hist = <<>>
  /\ answer = [t \in Threads |-> "none"]

Call(t) ==
  /\ answer' = [answer EXCEPT ![t] = "none"]
  /\ UNCHANGED <<clock, hist>>

Elapse ==
  /\ clock' \in clock..MaxTime
  /\ UNCHANGED <<hist, answer>>

Grant(t) ==
  /\ answer[t] = "none"
  /\ Admissible(Append(hist, clock))
  /\ hist' = Append(hist, clock)
  /\ answer' = [answer EXCEPT ![t] = "granted"]
  /\ UNCHANGED clock

Deny(t) ==
  /\ answer[t] = "none"
  /\ ~Admissible(Append(hist, clock))
  /\ answer' = [answer EXCEPT ![t] = "denied"]
  /\ UNCHANGED <<clock, hist>>

\* The past is forgotten.
Reset ==
  /\ hist' = <<>>
  /\ clock' \in clock..MaxTime
  /\ UNCHANGED answer

Next ==
  \/ Elapse
  \/ Reset
  \/ \E t \in Threads : Call(t) \/ Grant(t) \/ Deny(t)

Spec == Init /\ [][Next]_vars

==============================================================================
