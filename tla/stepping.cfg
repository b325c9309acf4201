CONSTANTS
  fmu = fmu
  NaN = NaN
  Null = Null
  Overrides <- Calls
  Instances = {fmu}
  Handles = {}
  Cells = {}
  MaxTime = 2
  EventModes = {FALSE, TRUE}
  Callbacks = {FALSE, TRUE}
  MaxDepth = 2
  ImporterCallsOn = FALSE
SPECIFICATION FairSpec
INVARIANTS
  SlaveNeverMisused
  ModeAgreesWithSlave
  OneStepAtATime
  UpdatesStayInTheirStep
PROPERTIES
  FailureReachesSlave
  StatusMatchesMode
  UpdateEnds
