\* Fairness of the threads only.  In single-request mode a listener ends after a
\* request as well as after a failed accept or a shutdown.
CONSTANTS
  Conns = {c1, c2, c3}
  NumThreads = 2
  SingleRequest = TRUE
  AllowTlsOnHttp = TRUE
SPECIFICATION ThreadFairSpec
INVARIANT EachRequestEndsAListener
PROPERTIES
  ListenersEndTogether
  ShutdownCompletes
  RunReturns
