SPECIFICATION MainSpec
CONSTANTS
  Conns = {c1, c2, c3, c4}
  Objects <- MCObjects
  Handles = {h1, h2, h3, h4, h5}
  INVALID_SOCKET = INVALID_SOCKET
  MaxManagers = 2
  MaxClients = 2
  InitialBuffers = 1
  MaxBuffers = 4
  BufferSize = 3
  MaxMessages = 2
  MaxArgs = 3
CHECK_DEADLOCK FALSE
INVARIANTS
  MainTypeOK
  NotifiedExactlyOnce
  HandlesHaveOneOwner
  ConnectionsHaveOneManager
  LoadsDifferByTwo
  ClientBuffersHaveOneUser
  LoggedInOrder
