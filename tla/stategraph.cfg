CONSTANTS
  fmu = fmu
  cell = cell
  h = h
  NaN = NaN
  Null = Null
  Overrides <- OwnMethods
  Instances = {fmu}
  Handles = {h}
  Cells = {cell}
  MaxTime = 1
  EventModes = {TRUE}
  Callbacks = {TRUE}
  MaxDepth = 1
  ImporterCallsOn = TRUE
SPECIFICATION Spec
PROPERTY FollowsStateGraph
