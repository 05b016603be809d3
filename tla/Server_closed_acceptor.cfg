\* The shutdown overlaps the listener that is about to accept again.
CONSTANTS
  Conns = {c1}
  NumThreads = 2
  SingleRequest = FALSE
  AllowTlsOnHttp = FALSE
SPECIFICATION Spec
PROPERTIES
  ClosedAcceptorAborts
