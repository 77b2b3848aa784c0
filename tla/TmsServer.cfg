CONSTANTS
  Servers = {v1, v2}
  Sessions = {s1, s2}
  MaxActivations = 2
  None = None
SPECIFICATION FairSpec
INVARIANTS IInv StoppedIsClean EntriesAgree
PROPERTIES ListedWhileOpen StopReturns
