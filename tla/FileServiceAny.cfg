CONSTANTS
  f1 = f1
  f2 = f2
  c1 = c1
  c2 = c2
  c3 = c3
  c4 = c4
  c5 = c5
  None = None
  GivenOwner = GivenOwner
  Files <- TwoFiles
  Calls <- FourCalls
  Kinds <- AllKinds
  Overlap = TRUE
  Crashable = TRUE
SYMMETRY Symmetry
SPECIFICATION Spec
CHECK_DEADLOCK FALSE
INVARIANTS
  TypeOK
  RecordedUploadIsPaid
  ExtensionIsPaid
PROPERTIES
  LedgerSpec
