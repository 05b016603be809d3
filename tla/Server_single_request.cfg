\* One thread is enough for a second request to be handled.
CONSTANTS
  Conns = {c1, c2}
  NumThreads = 1
  SingleRequest = TRUE
  AllowTlsOnHttp = FALSE
SPECIFICATION Spec
INVARIANTS
  SingleRequestHandlesAtMostOne
