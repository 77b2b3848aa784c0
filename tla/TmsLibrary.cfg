SPECIFICATION Spec
CONSTANTS
  TreesOfComponents <- TreesOfComponents_
  Unnumbered = Unnumbered
  MaxFaults = 2
  BlockIds = {b1, b2}
  BlockClients = {c1, c2}
  BlockWriters = {c1}
  MaxBlocks = 3
  Absent = Absent
  TextAttributes = {"Name", "Description"}
  Texts = {x, y, z}
  InfoFields = {"assetId", "position"}
  OptionalFields = {"assetId"}
  NarrowFields = {"position"}
  InfoValues = {0, 1, 2}
  Span = 2
  Modes = {"idle", "operation"}
  NotThere = NotThere
  Domains <- Domains_
  Signals = {s1, s2, hidden}
  HiddenSignals = {hidden}
  ClashingSignals = {s2}
  Unset = Unset
  DomainSignals = {d1}
  Firmwares <- Firmwares_
  Hosts = {h1, h2}
  Unshown = Unshown
  SampleTypes = {"Int32", "Float64", "String", "Struct"}
  TextTypes = {"String"}
  OtherTypes = {"Struct"}
  MaxObjects = 2
  Nothing = Nothing
  SessionIds = {e1, e2}
  Tokens = {t}
  LockUsers = {u}
  Anonymous = Anonymous
  Passwords = {p, q}
  MaxTimeout = 2
  NoId = NoId
  BlockNames = {"b"}
  MaxServerObjects = 6
  Internal = Internal
  Creations = {1, 2}
  UserIds = {"", "u"}
  GeneratedIds <- GeneratedIds_
  Slashed <- Slashed_
  UaServers <- UaServers_
  BaseTypes = {"DeviceType", "ComponentType"}
  MaxTypeDepth = 3
  DeviceInfoMap = {"SerialNumber", "Manufacturer", "Model"}
  KnownServers <- KnownServers_
  Targets <- Targets_
INVARIANTS
  TreeIsMirrored
  BlocksAreMirrored
  TextsAndInfoAreMirrored
  SignalsAreMirrored
  ServerKeepsItsOwn
  DevicesAreIdentified
PROPERTIES
  ServerIsGuarded
  ClientsAreToldTheTruth
CHECK_DEADLOCK FALSE
