\* Liveness; no symmetry.  Two connections compete for one slot.
SPECIFICATION FairSpec
CONSTANTS
  c1 = c1
  c2 = c2
  c3 = c3
  h1 = h1
  h2 = h2
  h3 = h3
  u1 = u1
  u2 = u2
  Conn <- TwoConn
  Handle <- TwoHandle
  User <- OneUser
  MaxConnection = 1
  MaxThreadless = 1
  NoSocket = NoSocket
  NoConn = NoConn
  NoUser = NoUser
PROPERTIES WaitingIsAnswered HangUpFreesSlot
CHECK_DEADLOCK FALSE
