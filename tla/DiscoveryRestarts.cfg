CONSTANTS
  b1 = b1
  b2 = b2
  s1 = s1
  s2 = s2
  i1 = i1
  i2 = i2
  i3 = i3
  i4 = i4
  None = None
  Bootstraps <- OneBootstrap
  Others <- TwoOthers
  Ids <- ThreeIds
  EmitSelf = TRUE
  MaxStarts = 2
  MaxBreaks = 0
  Flaky = TRUE
SYMMETRY Symmetry
SPECIFICATION Spec
CHECK_DEADLOCK FALSE
INVARIANTS
  RegistrationIsKept
PROPERTIES
  RegistrySpec
