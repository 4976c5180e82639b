\* Does the collector only delete what has expired?
SPECIFICATION Spec
CONSTANTS
  r1 = r1
  r2 = r2
  r3 = r3
  Req <- ThreeReq
  NoReq = NoReq
  MaxConnection = 4
  MaxAge = 1
SYMMETRY Symmetry
PROPERTY OnlyExpiredAreDeleted
