SPECIFICATION FairSpec
CONSTANTS
  Conns = {c1, c2}
  EventBuffers = {"Poll", "Select"}
  Debugger = FALSE
  Faults = {"high"}
  InitialBuffers = 1
  MaxBuffers = 6
  MaxChunks = 0
  MaxMessages = 2
INVARIANTS
  WriteFlagMeansStartedMessage
  BudgetCoversTheRest
PROPERTIES
  OnlyGoneClientsAreRemoved
  AcceptedClientsDoNotHaltTheServer
  NewestMessageGoesOut
  SendsAsSpecified
