CONSTANTS
  a = a
  b = b
  Instances = {a, b}
SPECIFICATION Spec
INVARIANTS
  TypeOK
  NothingLeaks
  PartsFindWhatTheyNeed
