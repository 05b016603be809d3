--------------------------- MODULE ServerLifecycle ---------------------------
(***************************************************************************)
(* What the server promises about its life as a whole: while it runs it    *)
(* takes connections in; from the moment it is told to shut down it takes  *)
(* none in any more, and lets those it has go; it ends when it has none.   *)
(***************************************************************************)
CONSTANT Conns      \* the connections that clients open

VARIABLES
  mode,     \* "running", "draining" or "ended"
  life      \* of each connection: "new", "active" or "gone"

vars == <<mode, life>>

Init ==
  /\ mode = "running"
  /\ life = [c \in Conns |-> "new"]

\* A session is made for the connection.
Admit(c) ==
  /\ mode = "running"
  /\ life[c] = "new"
  /\ life' = [life EXCEPT ![c] = "active"]
  /\ UNCHANGED mode

\* The connection is closed without a session.
Refuse(c) ==
  /\ mode # "ended"
  /\ life[c] = "new"
  /\ life' = [life EXCEPT ![c] = "gone"]
  /\ UNCHANGED mode

\* Sessions that share their last owner go together.
Leave(cs) ==
  /\ \A c \in cs : life[c] = "active"
  /\ life' = [c \in Conns |-> IF c \in cs THEN "gone" ELSE life[c]]
  /\ UNCHANGED mode

Drain ==
  /\ mode = "running"
  /\ mode' = "draining"
  /\ UNCHANGED life

\* The last connection may be refused, or leave, in the step that ends the
\* server.
End ==
  /\ mode # "ended"
  /\ mode' = "ended"
  /\ \/ UNCHANGED life
     \/ \E c \in Conns : life[c] # "gone" /\ life' = [life EXCEPT ![c] = "gone"]
  /\ \A c \in Conns : life'[c] # "active"

Next ==
  \/ Drain
  \/ End
  \/ \E c \in Conns : Admit(c) \/ Refuse(c)
  \/ \E cs \in SUBSET Conns : Leave(cs)

Spec == Init /\ [][Next]_vars

==============================================================================
