CONSTANTS
  f1 = f1
  f2 = f2
  c1 = c1
  c2 = c2
  c3 = c3
  c4 = c4
  c5 = c5
  None = None
  GivenOwner = GivenOwner
  Files <- OneFile
  Calls <- ThreeCalls
  Kinds <- AllKinds
  Overlap = FALSE
  Crashable = FALSE

SPECIFICATION Spec
CHECK_DEADLOCK FALSE
INVARIANTS
  DeletedMeansGone
