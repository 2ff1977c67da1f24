SPECIFICATION Spec
CONSTANTS
  Conns = {c1, c2}
  InitialBuffers = 1
  MaxBuffers = 4
  MaxChunks = 2
INVARIANTS
  MessagesAreTheClientsOwn
