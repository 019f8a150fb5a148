SPECIFICATION Spec
CONSTANTS
  engine = engine
  bsi = bsi
  EcuTable <- MCTable
  Protocol <- MCProtocol
  NoEcu = NoEcu
  NoReq = NoReq
  LidEnd = 3
  Zones = 3
  MaxStaged = 2
  MaxResponsePending = 2
  EcuPatience = 1
  Segmented = {"Block", "Write"}
  Commands = {"connect", "unlock", "rw on", "flash record", "flash begin", "keepalive"}
  EcuAnswers = {"positive", "silent"}
  Faults = {}
  PromptEcu = TRUE
  UnhurriedUser = TRUE
  MaxWire = 3
PROPERTIES
  EraseBelongsToFlash
CHECK_DEADLOCK FALSE
