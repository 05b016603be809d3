--------------------------- MODULE ClientExchange -----------------------------
(***************************************************************************)
(* What a session promises its client: at most one verdict on its one      *)
(* request; only the reply that the verdict calls for, and that once; a    *)
(* 408 from the first to stop the session and from nobody else; and a      *)
(* connection that closes only behind a stop, behind the replies that were *)
(* begun, or with no reply at all in two cases: the session could not be   *)
(* set up, or the request was forwarded and no whole answer came back.     *)
(***************************************************************************)
VARIABLES
  reading,   \* the session has begun to read from the client
  verdict,   \* what was decided about the request
  begun,     \* the replies that were begun
  over,      \* the replies whose write is over
  stopping,  \* the session no longer serves
  open       \* the client's connection

vars == <<reading, verdict, begun, over, stopping, open>>

Init ==
  /\ reading = FALSE
  /\ verdict = "none"
  /\ begun = {}
  /\ over = {}
  /\ stopping = FALSE
  /\ open = TRUE

Listen ==
  /\ ~reading
  /\ reading' = TRUE
  /\ UNCHANGED <<verdict, begun, over, stopping, open>>

\* A request is decided once, on an open connection, and not once the session
\* is stopped.
Decide(v) ==
  /\ reading /\ open /\ ~stopping
  /\ verdict = "none"
  /\ verdict' = v
  /\ UNCHANGED <<reading, over, stopping, open>>

Begin(r) == r \notin begun /\ begun' = begun \union {r}

Refuse == Decide("disallowed") /\ Begin("disallow")

ReportHealth == Decide("health") /\ Begin("health")

Forward == Decide("forwarded") /\ UNCHANGED begun

Relay ==
  /\ verdict = "forwarded"
  /\ Begin("proxied")
  /\ UNCHANGED <<reading, verdict, over, stopping, open>>

TimeOut ==
  /\ reading /\ ~stopping
  /\ stopping' = TRUE
  /\ Begin("timeout")
  /\ UNCHANGED <<reading, verdict, over, open>>

\* The server stops the session, which closes the connection at once.
Stop ==
  /\ ~stopping
  /\ stopping' = TRUE
  /\ open' = FALSE
  /\ UNCHANGED <<reading, verdict, begun, over>>

\* A 408 and a proxied answer are followed by the close; the other replies only
\* if nothing else is left to be written.
Finish(r) ==
  /\ r \in begun \ over
  /\ over' = over \union {r}
  /\ \/ open' = FALSE /\ (r \in {"timeout", "proxied"} \/ over' = begun)
     \/ UNCHANGED open /\ r \notin {"timeout", "proxied"}
  /\ UNCHANGED <<reading, verdict, begun, stopping>>

\* The session lets the connection go: behind its replies, or without any.
Drop ==
  /\ open
  /\ open' = FALSE
  /\ over = begun
  /\ begun # {} \/ verdict = "forwarded" \/ ~reading
  /\ UNCHANGED <<reading, verdict, begun, over, stopping>>

Next ==
  \/ Listen
  \/ Refuse \/ ReportHealth \/ Forward
  \/ Relay \/ TimeOut
  \/ Stop
  \/ \E r \in begun : Finish(r)
  \/ Drop

Spec == Init /\ [][Next]_vars

==============================================================================
