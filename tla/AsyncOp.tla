------------------------------- MODULE AsyncOp -------------------------------
(***************************************************************************)
(* The life of one asynchronous operation of the Asio library, as the      *)
(* code under src/ relies on it.  Asio itself is not in the repository.    *)
(*                                                                         *)
(* An operation is pending until the system decides its outcome; from then *)
(* on its completion handler (the suspended coroutine) is queued on the    *)
(* executor, and the outcome no longer changes.  A cancel, or the close of *)
(* the socket, acts on a pending operation only.                           *)
(***************************************************************************)

\* The outcomes of an operation whose handler is queued and has not run.
Completed == {"ok", "eof", "error", "aborted"}

AsyncOps == Completed \union {"idle", "pending", "done"}

\* The pending operation or the queued handler owns its captures, a
\* shared_ptr to the session among them.
Holds(op) == op \notin {"idle", "done"}

\* basic_waitable_timer::cancel, or socket.close(), seen by one operation.
Cancelled(op) == IF op = "pending" THEN "aborted" ELSE op

\* An operation started on a socket that is already closed fails at once.
Issued(socket) == IF socket = "open" THEN "pending" ELSE "error"

==============================================================================
