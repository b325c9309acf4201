CONSTANTS
  MaxDepth = 5
  Overrides <- OwnMethods
SPECIFICATION Spec
INVARIANT OthersRefusedMeanwhile
