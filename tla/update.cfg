SPECIFICATION UpdateSpec
CONSTANT
  MaxStamp = 3
INVARIANTS
  StagedIntact
PROPERTIES
  NeverDowngraded
  ClickAnswered
