\* Three connections and two user names; crashes and broken answers.
SPECIFICATION Spec
CONSTANTS
  t1 = t1
  t2 = t2
  t3 = t3
  n1 = n1
  n2 = n2
  Thread <- ThreeThreads
  Name <- TwoNames
  NoName = NoName
SYMMETRY Symmetry
INVARIANTS TypeOK SessionIsOwn OneRegistrant ServerStaysUp
