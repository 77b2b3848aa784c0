\* An item whose destructor has begun when the scheduler is destroyed.
CONSTANTS
  Items = {a}
  Owned = {a}
  Intervals = {1}
  MaxLate = 1
  None = None
SPECIFICATION Spec
INVARIANT NoDestructorReachesFreedScheduler
