CONSTANTS
  Types = {int, string}
  Messages = {m1, m2}
  Stamps = {t1, t2}
  None = None
SPECIFICATION Spec
SYMMETRY Symmetry
INVARIANTS IInv StatusCurrentUnlessOverlapped
PROPERTIES PacketsMatchDescriptor NoDuplicateTimestamps
