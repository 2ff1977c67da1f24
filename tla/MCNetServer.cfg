SPECIFICATION Spec
CONSTANTS
  Conns = {c1, c2}
  EventBuffers = {"Poll", "Select"}
  Debugger = TRUE
  Faults = {"accept", "wait", "urgent", "close"}
  InitialBuffers = 1
  MaxBuffers = 7
  MaxChunks = 2
  MaxMessages = 0
SYMMETRY ConnSymmetry
INVARIANTS
  TypeOK
  EventBufferMatchesContexts
  ContextsPointToOpenConnections
  NotifiedExactlyOnce
  BudgetCoversTheRest
PROPERTIES
  OnlyGoneClientsAreRemoved
  ClosedClientIsReadToTheEnd
  AcceptedClientsDoNotHaltTheServer
