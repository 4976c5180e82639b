\* Three connections, arriving at any time, compete for two slots.
SPECIFICATION Spec
CONSTANTS
  c1 = c1
  c2 = c2
  c3 = c3
  h1 = h1
  h2 = h2
  h3 = h3
  u1 = u1
  u2 = u2
  Conn <- ThreeConn
  Handle <- ThreeHandle
  User <- TwoUser
  MaxConnection = 2
  MaxThreadless = 1
  NoSocket = NoSocket
  NoConn = NoConn
  NoUser = NoUser
SYMMETRY Symmetry
INVARIANTS TypeOK CountIsExact StoreInBounds SessionAsTold ServedAsTold TableHoldsOpenSockets
PROPERTY ImplementsDirectory
CHECK_DEADLOCK FALSE
