\* Two threads, the least that can overlap.
CONSTANTS
  Sessions = {s1, s2}
  NumThreads = 2
SPECIFICATION Spec
INVARIANT StartFindsOwner
