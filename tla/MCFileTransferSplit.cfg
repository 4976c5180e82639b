\* The same transfer, and what recvRaw promises.
SPECIFICATION Spec
CONSTANTS
  File <- FiveBytes
  Hash <- TwoBytes
  Cache = 2
  Junk = 99
  Window = 4
INVARIANT ReceivedIsSent
CHECK_DEADLOCK FALSE
