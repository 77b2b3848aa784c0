CONSTANTS
  Servers = {v1, v2}
  Sessions = {s1}
  MaxActivations = 1
  None = None
SPECIFICATION Spec
INVARIANT OneServerPerDevice
