\* Two connections and the three threads of Config: everything can overlap.
CONSTANTS
  Sessions = {s1, s2}
  NumThreads = 3
SPECIFICATION FairSpec
INVARIANTS
  LostOnlyBehindStop
  StopFindsOwner
  EverySessionIsStopped
  NoOwnerLeaks
PROPERTIES
  ImplementsLifecycle
  ShutdownReleases
