CONSTANTS
  Blocks = {a}
  UserNames = {0}
  NoName = NoName
  None = None
SPECIFICATION FairSpec
PROPERTIES OutagesEnd RegisteredBlocksResume RemovalTerminates
