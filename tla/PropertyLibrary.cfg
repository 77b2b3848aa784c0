SPECIFICATION Spec
CONSTANTS
  Objects <- Objects_
  PropClients = {p, q}
  Writers = {p}
  MaxBegins = 1
  Nobody = Nobody
  ViewOf <- ClientView
  Samples <- Samples_
  Selections <- Selections_
  UaStructs <- UaStructs_
  UaEnums <- UaEnums_
INVARIANTS
  ObjectIsMirrored
  SamplesArrive
PROPERTIES
  AnswersAreTrue
CHECK_DEADLOCK FALSE
