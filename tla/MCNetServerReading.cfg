SPECIFICATION FairSpec
CONSTANTS
  Conns = {c1, c2}
  EventBuffers = {"Poll", "Select"}
  Debugger = TRUE
  Faults = {"lost"}
  InitialBuffers = 1
  MaxBuffers = 6
  MaxChunks = 1
  MaxMessages = 0
PROPERTIES
  GoneClientsAreNotified
  SentDataIsRead
  ReceivesAsSpecified
