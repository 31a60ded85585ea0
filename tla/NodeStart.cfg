CONSTANTS
  a1 = a1
  a2 = a2
  c1 = c1
  c2 = c2
  None = None
  Boot = Boot
  Addresses <- TwoAddresses
  Ids <- ThreeIds
  Calls <- TwoCalls
  InitialAddress = a1
  Crashable = TRUE
SYMMETRY Symmetry
SPECIFICATION NodeSpec
CHECK_DEADLOCK FALSE
INVARIANTS
  NodeTypeOK
  RegisteredAddressesAreAccounts
  StoredAccountsAreFound
