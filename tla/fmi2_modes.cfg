CONSTANTS
  h1 = h1
  h2 = h2
  c1 = c1
  c2 = c2
  NaN = NaN
  Null = Null
  Handles = {h1, h2}
  Cells = {c1}
  MaxTime = 1
  Overrides <- OwnMethods
SPECIFICATION Spec
SYMMETRY Symmetry
INVARIANTS
  TypeOK
  NoLegalCallRefused
  ModeTracksSlave
  LastTimeIsTheLastSteps
  HandlesOwnStates
PROPERTIES
  MisusedOnlyAfterRestore
