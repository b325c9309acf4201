CONSTANTS
  model = model
  Own = Own
  NoCategory = NoCategory
  Categories <- MCCategories
SPECIFICATION Spec
INVARIANTS
  TypeOK
  MessagesFollowRequest
