\* Three clients of one user; anything may overlap, break off or crash.
SPECIFICATION Spec
CONSTANTS
  t1 = t1
  t2 = t2
  t3 = t3
  Thread <- ThreeThreads
  MaxEdits = 3
SYMMETRY Symmetry
INVARIANTS TypeOK StoredIsWhole DownloadIsOneVersion LatestIsOnDisk
PROPERTY AcknowledgedIsSaved
