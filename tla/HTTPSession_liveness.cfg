\* Fairness of the threads, the clock and the socket buffer only: the properties
\* say for themselves what they ask of the client and of the upstream.
CONSTANT MaxChunks = 1
SPECIFICATION LocallyFairSpec
PROPERTIES
  TimelyRequestIsSafe
  HeaderDeadline
  StoppedReleasesClient
  EventuallyDestroyed
