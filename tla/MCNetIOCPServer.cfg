SPECIFICATION Spec
CONSTANTS
  Conns = {c1, c2}
  Addresses = {a1, a2}
  nullptr = nullptr
  InitialBuffers = 1
  MaxBuffers = 6
  MaxChunks = 1
  MaxMessages = 1
SYMMETRY ConnsAndAddresses
INVARIANTS
  TypeOK
  OneReceivePerContext
  StartedMessagesComplete
  ContextsPointToOpenConnections
  NotifiedExactlyOnce
PROPERTIES
  ReceivesAsSpecified
  OnlyGoneUnlessAddressReused
  ServesAsSpecified
