CONSTANTS
  n1 = n1
  n2 = n2
  n3 = n3
  k1 = k1
  p1 = p1
  None = None
  Nodes <- ThreeNodes
  Lookups <- OneLookup
  Purchases <- OnePurchase
SYMMETRY Symmetry
SPECIFICATION Spec
CHECK_DEADLOCK FALSE
INVARIANTS
  TypeOK
  ChargedForFoundFile
  KeyIsPaid
  PurchaseTriesEveryNode
