\* Safety: one item with an owner reference, one without.
CONSTANTS
  Items = {a, b}
  Owned = {a}
  Intervals = {0, 2}
  MaxLate = 2
  None = None
SPECIFICATION Spec
INVARIANTS IInv CallsOnlyLiveItems ReconnectNotLost
  LiveItemsForgetScheduler
PROPERTIES NoOvertaking PromiseKept
