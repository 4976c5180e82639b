\* Does each thread get its own connection?
SPECIFICATION Spec
CONSTANTS
  c1 = c1
  c2 = c2
  c3 = c3
  h1 = h1
  h2 = h2
  h3 = h3
  u1 = u1
  u2 = u2
  Conn <- ThreeConn
  Handle <- ThreeHandle
  User <- OneUser
  MaxConnection = 2
  MaxThreadless = 0
  NoSocket = NoSocket
  NoConn = NoConn
  NoUser = NoUser
INVARIANT HandedOver
