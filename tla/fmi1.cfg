CONSTANTS
  NaN = NaN
  MaxTime = 2
  Overrides <- AllMethods
SPECIFICATION Spec
INVARIANTS
  TypeOK
  ImporterKnowsTheSlave
  StepsAreContiguous
