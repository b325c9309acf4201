CONSTANTS
  MaxDepth = 5
  Overrides <- OwnMethods
SPECIFICATION Spec
INVARIANTS
  UpdatesFollowTheStack
  CallbackStaysRestricted
PROPERTY FailsOnlyByOwnMethods
