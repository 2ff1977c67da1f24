SPECIFICATION MainSpec
CONSTANTS
  Conns = {c1}
  Objects <- MCObjects
  Handles = {h1, h2}
  INVALID_SOCKET = INVALID_SOCKET
  MaxManagers = 1
  MaxClients = 2
  InitialBuffers = 1
  MaxBuffers = 2
  BufferSize = 3
  MaxMessages = 1
  MaxArgs = 1
CHECK_DEADLOCK FALSE
INVARIANTS
  LoggedMessagesWereSent
