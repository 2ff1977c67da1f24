SPECIFICATION Spec
CONSTANTS
  Conns = {c1, c2}
  InitialBuffers = 2
  MaxBuffers = 4
  MaxChunks = 3
SYMMETRY ConnSymmetry
INVARIANTS
  ReceiveTypeOK
  BuffersHaveOneUser
  ChunksAreTheClientsOwn
