\* Three threads share the socket to a server of three connections; no symmetry.
SPECIFICATION FairSpec
CONSTANTS
  t1 = t1
  t2 = t2
  t3 = t3
  Thread <- ThreeThreads
  MaxConnection = 3
  MaxRequests = 4
INVARIANTS TypeOK GrantsAreTold OneAnswerEach
PROPERTY EveryRequestAnswered
CHECK_DEADLOCK FALSE
