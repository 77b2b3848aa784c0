\* Liveness: two items, of which one has an owner that can be acquired.
CONSTANTS
  Items = {a, b}
  Owned = {a}
  Intervals = {1}
  MaxLate = 1
  None = None
SPECIFICATION FairSpec
PROPERTIES ReconnectServed NoStarvation TeardownReturns
