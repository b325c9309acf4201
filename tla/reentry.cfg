CONSTANTS
  fmu = fmu
  NaN = NaN
  Null = Null
  Overrides <- Calls
  Instances = {fmu}
  Handles = {}
  Cells = {}
  MaxTime = 1
  EventModes = {FALSE}
  Callbacks = {TRUE}
  MaxDepth = 1
  ImporterCallsOn = TRUE
SPECIFICATION Spec
PROPERTY FailureReachesSlave
