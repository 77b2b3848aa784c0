CONSTANTS
  Blocks = {a}
  UserNames = {0}
  NoName = NoName
  None = None
SPECIFICATION Spec
PROPERTY DetachedBlocksRest
