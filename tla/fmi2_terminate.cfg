CONSTANTS
  h1 = h1
  h2 = h2
  c1 = c1
  c2 = c2
  NaN = NaN
  Null = Null
  Handles = {}
  Cells = {}
  MaxTime = 1
  Overrides <- OwnMethods
SPECIFICATION Spec
INVARIANTS
  NoExceptionEscapes
