SPECIFICATION Spec
CONSTANTS
  Conns = {c1}
  InitialBuffers = 1
  MaxBuffers = 3
  MaxChunks = 2
INVARIANTS
  MessagesHandedOverInOrder
