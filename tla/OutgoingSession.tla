--------------------------- MODULE OutgoingSession ---------------------------
(***************************************************************************)
(* HTTPSession::OutgoingSession: the request made to the upstream exchange *)
(* on behalf of one client, from the name resolution to the end of the     *)
(* upstream's answer.  It is one coroutine, so it awaits one operation at  *)
(* a time; its handlers run on the strand of the HTTPSession that owns it. *)
(*                                                                         *)
(* The upstream's answer is abstracted to a number of chunks: `sent' counts *)
(* what the upstream has sent, `received' what response_ has accumulated,  *)
(* `answer' whether the upstream has said that there is no more.           *)
(***************************************************************************)
EXTENDS Naturals, AsyncOp

CONSTANT MaxChunks      \* Bound: chunks the upstream sends in one answer

VARIABLES
  stage,          \* where the coroutine is
  awaited,        \* the operation it awaits
  received,       \* chunks appended to response_
  sent,           \* chunks the upstream has sent
  answer          \* "whole" once the upstream ended it with close_notify

\* The stages that await an operation of the upstream connection.
IOStages == {"resolve", "connect", "handshake", "send", "read"}

Stages == IOStages \union {"none", "responding", "ended"}

TypeOK ==
  /\ stage \in Stages
  /\ awaited \in AsyncOps
  /\ sent \in 0..MaxChunks
  /\ received \in 0..sent
  /\ answer \in {"open", "whole"}

Init ==
  /\ stage = "none"
  /\ awaited = "idle"
  /\ received = 0
  /\ sent = 0
  /\ answer = "open"

\* The coroutine is alive and keeps its session and the outer one alive.
Active == stage \notin {"none", "ended"}

------------------------------------------------------------------------------
\* The upstream and the network.

\* The awaited operation fails, or succeeds; the successes of a read are the
\* next two actions.
Settle ==
  /\ stage \in IOStages
  /\ awaited = "pending"
  /\ \/ awaited' = "error"
     \/ stage # "read" /\ awaited' = "ok"
  /\ UNCHANGED <<stage, received, sent, answer>>

UpstreamSends ==
  /\ stage = "read"
  /\ awaited = "pending"
  /\ answer = "open"
  /\ sent < MaxChunks
  /\ sent' = sent + 1
  /\ awaited' = "ok"
  /\ UNCHANGED <<stage, received, answer>>

\* The upstream has sent its whole answer and closes the TLS connection.  A
\* connection that is cut instead is an "error" (stream truncated), not an
\* "eof".
UpstreamCloses ==
  /\ stage = "read"
  /\ awaited = "pending"
  /\ answer' = "whole"
  /\ awaited' = "eof"
  /\ UNCHANGED <<stage, received, sent>>

Upstream == Settle \/ UpstreamSends \/ UpstreamCloses

------------------------------------------------------------------------------
\* The coroutine.

\* start and start_impl: init_ssl fails, or the name resolution starts.
Start ==
  /\ stage = "none"
  /\ \/ stage' = "ended" /\ UNCHANGED awaited
     \/ stage' = "resolve" /\ awaited' = "pending"
  /\ UNCHANGED <<received, sent, answer>>

Successor == [resolve   |-> "connect",
              connect   |-> "handshake",
              handshake |-> "send",
              send      |-> "read"]

\* start_impl, connect, on_connect and send_request: the operation went well
\* and the next one is started.
Proceed ==
  /\ stage \in DOMAIN Successor
  /\ awaited = "ok"
  /\ stage' = Successor[stage]
  /\ awaited' = "pending"
  /\ UNCHANGED <<received, sent, answer>>

\* An operation failed: the coroutine returns, or async_handshake throws and
\* detached drops the exception.  Nothing is told to the outer session.
Fail ==
  /\ stage \in IOStages
  /\ awaited = "error"
  /\ stage' = "ended"
  /\ awaited' = "done"
  /\ UNCHANGED <<received, sent, answer>>

\* Mutant of ReadChunk: the loop appends the buffer without reading again.
ReadChunkAppendsAgain ==
  /\ stage = "read"
  /\ awaited = "ok"
  /\ received' = received + 1
  /\ UNCHANGED <<stage, awaited, sent, answer>>

\* read_response: a chunk is appended and the next read is started.
ReadChunk ==
  /\ stage = "read"
  /\ awaited = "ok"
  /\ received' = received + 1
  /\ awaited' = "pending"
  /\ UNCHANGED <<stage, sent, answer>>

\* Mutant of Complete: any error ends the answer, a cut connection included.
CompleteOnAnyError ==
  /\ stage = "read"
  /\ awaited \in {"eof", "error"}
  /\ stage' = "responding"
  /\ awaited' = "done"
  /\ UNCHANGED <<received, sent, answer>>

\* read_response: end of the answer, the coroutine hands it to the outer
\* session and awaits on_outgoing_session_completed.
Complete ==
  /\ stage = "read"
  /\ awaited = "eof"
  /\ stage' = "responding"
  /\ awaited' = "done"
  /\ UNCHANGED <<received, sent, answer>>

\* on_outgoing_session_completed has returned to read_response.
Finish ==
  /\ stage = "responding"
  /\ stage' = "ended"
  /\ UNCHANGED <<awaited, received, sent, answer>>

==============================================================================
