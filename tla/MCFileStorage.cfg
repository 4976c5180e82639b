\* Two sessions of one user and one of another.
SPECIFICATION Spec
CONSTANTS
  s1 = s1
  s2 = s2
  s3 = s3
  u1 = u1
  u2 = u2
  Session <- ThreeSessions
  User <- TwoUsers
  Owner <- TwoAndOne
  MaxUploads = 2
  MaxStreams = 3
SYMMETRY Symmetry
INVARIANTS TypeOK RowsHaveFiles ActsOnWhatWasSeen NoOrphans ServerStaysUp
