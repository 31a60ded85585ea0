CONSTANTS
  b1 = b1
  b2 = b2
  s1 = s1
  s2 = s2
  i1 = i1
  i2 = i2
  i3 = i3
  i4 = i4
  None = None
  Bootstraps <- TwoBootstraps
  Others <- OneOther
  Ids <- TwoIds
  EmitSelf = FALSE
  MaxStarts = 1
  MaxBreaks = 1
  Flaky = FALSE
SYMMETRY Symmetry
SPECIFICATION Spec
CHECK_DEADLOCK FALSE
INVARIANTS
  TypeOK
  RegistrationIsKept
PROPERTIES
  RegistrySpec
