SPECIFICATION Spec
CONSTANTS
  Conns = {c1}
  Addresses = {a1}
  nullptr = nullptr
  InitialBuffers = 1
  MaxBuffers = 3
  MaxChunks = 0
  MaxMessages = 1
INVARIANTS
  NoErasedContextIsUsed
