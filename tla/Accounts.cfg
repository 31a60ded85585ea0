CONSTANTS
  a1 = a1
  a2 = a2
  c1 = c1
  c2 = c2
  c3 = c3
  None = None
  Boot = Boot
  Addresses <- TwoAddresses
  Ids <- FourIds
  Calls <- ThreeCalls
  InitialAddress = a1
  Crashable = TRUE
SYMMETRY Symmetry
SPECIFICATION Spec
CHECK_DEADLOCK FALSE
INVARIANTS
  TypeOK
  LocalAccountsAreRegistered
  BootedHasAccount
  OneChosenDefault
PROPERTIES
  DefaultTakesEffect
  DefaultIsKept
