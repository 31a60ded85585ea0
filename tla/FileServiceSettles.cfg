CONSTANTS
  f1 = f1
  f2 = f2
  c1 = c1
  c2 = c2
  c3 = c3
  c4 = c4
  c5 = c5
  None = None
  GivenOwner = GivenOwner
  Files <- OneFile
  Calls <- FourCalls
  Kinds <- NoDeletions
  Overlap = TRUE
  Crashable = FALSE

SPECIFICATION FairSpec
CHECK_DEADLOCK FALSE
PROPERTIES
  UploadSettles
  EveryCallEnds
  SettledStaysSettled
