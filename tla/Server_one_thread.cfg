\* One thread: handlers do not overlap, their order is free.
CONSTANTS
  Conns = {c1, c2, c3}
  NumThreads = 1
  SingleRequest = FALSE
  AllowTlsOnHttp = TRUE
SPECIFICATION Spec
INVARIANTS
  MisuseNeedsOverlap
