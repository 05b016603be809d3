CONSTANT MaxChunks = 1
SPECIFICATION Spec
INVARIANT TimeoutCancelledOnceHeaderObtained
