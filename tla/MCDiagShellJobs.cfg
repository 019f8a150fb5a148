SPECIFICATION FairSpec
CONSTANTS
  engine = engine
  bsi = bsi
  EcuTable <- MCTable
  Protocol <- MCProtocol
  NoEcu = NoEcu
  NoReq = NoReq
  LidEnd = 2
  Zones = 2
  MaxStaged = 2
  MaxResponsePending = 2
  EcuPatience = 1
  Segmented = {"Block", "Write"}
  Commands = {"connect", "exit", "rw on", "dtc", "unlock", "write", "scan", "lidscan", "lidscan stop", "pdi", "config readall", "config read", "keepalive", "ServiceReset", "EspBleed"}
  EcuAnswers = {"positive", "negative", "refused", "silent", "pending"}
  Faults = {}
  PromptEcu = TRUE
  UnhurriedUser = TRUE
  MaxWire = 3
INVARIANTS
  TypeOK
  ConnectedHasEcu
  JobsUnderTimeout
  CursorsInTables
PROPERTIES
  RepliesAnswer
  ScanReportsAll
  JobsInStep
  JobsEnd
CHECK_DEADLOCK FALSE
