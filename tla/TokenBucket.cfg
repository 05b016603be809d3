\* Two threads, so that calls overlap; two ticks a second, so that tokens come
\* in halves; a burst of two and three seconds of time.
CONSTANTS
  Threads = {t1, t2}
  Rate = 1
  Capacity = 2
  Second = 2
  MaxTime = 6
SPECIFICATION Spec
INVARIANTS
  TypeOK
  WindowBound
PROPERTIES
  ImplementsRateLimit
  RetryAfterSuffices
