\* Five bytes in chunks of two; four bytes fit between the programs.
SPECIFICATION FairSpec
CONSTANTS
  File <- FiveBytes
  Hash <- TwoBytes
  Cache = 2
  Junk = 99
  Window = 4
INVARIANTS TypeOK OnlySplitPartsDiffer
PROPERTY BothEnd
CHECK_DEADLOCK FALSE
