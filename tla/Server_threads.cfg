\* Three threads, the default of worker_threads, so that the shutdown and both
\* listeners overlap; two connections, so that a TLS context that failed for one
\* is tried for the other.
CONSTANTS
  Conns = {c1, c2}
  NumThreads = 3
  SingleRequest = FALSE
  AllowTlsOnHttp = TRUE
SPECIFICATION Spec
INVARIANTS
  TypeOK
  NoSessionEscapesShutdown
  HandshakeContextReady
  EndReleasesWaits
  QuietMeansFinished
  MisuseNeedsOverlap
PROPERTIES
  ImplementsLifecycle
