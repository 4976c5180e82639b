\* Three requests for a server of three connections; no symmetry.
SPECIFICATION FairSpec
CONSTANTS
  r1 = r1
  r2 = r2
  r3 = r3
  Req <- ThreeReq
  NoReq = NoReq
  MaxConnection = 3
  MaxAge = 0
INVARIANTS TypeOK InBounds SessionOfOwnUser
PROPERTIES GrantedIsListed UsedIsCollected
