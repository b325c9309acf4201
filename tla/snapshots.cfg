CONSTANTS
  a = a
  b = b
  c1 = c1
  c2 = c2
  h1 = h1
  h2 = h2
  NaN = NaN
  Null = Null
  Overrides <- Calls
  Instances = {a, b}
  Handles = {h1, h2}
  Cells = {c1, c2}
  MaxTime = 0
  EventModes = {TRUE}
  Callbacks = {FALSE}
  MaxDepth = 1
  ImporterCallsOn = FALSE
SPECIFICATION Spec
SYMMETRY Symmetry
INVARIANTS
  TypeOK
  SnapshotsCoherent
  HandlesOwnStates
  ModeAgreesWithSlave
  SlaveNeverMisused
PROPERTY FollowsStateGraph
