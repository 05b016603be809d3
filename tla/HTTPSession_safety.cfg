\* Two chunks: an answer of several reads, the last of which can be cut.
CONSTANT MaxChunks = 2
SPECIFICATION Spec
INVARIANTS
  TypeOK
  PendingWriteOwnsBuffer
  StopClosesConnection
  ProxiedResponseIntact
PROPERTIES
  StopIsFinal
  ImplementsExchange
