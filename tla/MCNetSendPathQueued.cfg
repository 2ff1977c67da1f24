SPECIFICATION Spec
CONSTANTS
  Conns = {c1}
  MaxMessages = 2
  Overlapped = FALSE
PROPERTIES
  OnlySentMessagesLeaveTheQueue
