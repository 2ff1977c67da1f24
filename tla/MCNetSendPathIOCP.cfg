SPECIFICATION Spec
CONSTANTS
  Conns = {c1, c2}
  MaxMessages = 4
  Overlapped = TRUE
INVARIANTS
  SendTypeOK
  InFlightIsQueued
  WireInOrderWithoutRepeats
