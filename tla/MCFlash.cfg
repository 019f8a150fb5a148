SPECIFICATION FlashSpec
CONSTANTS
  engine = engine
  bsi = bsi
  EcuTable <- MCTable
  Protocol <- MCProtocol
  NoEcu = NoEcu
  NoReq = NoReq
  LidEnd = 3
  Zones = 3
  MaxStaged = 3
  MaxResponsePending = 2
  EcuPatience = 1
  Segmented = {"Block", "Write"}
  Commands = {"connect", "unlock", "rw on", "flash record", "flash begin", "flash end", "flash cancel", "keepalive"}
  EcuAnswers = {"positive", "pending"}
  Faults = {}
  PromptEcu = TRUE
  UnhurriedUser = TRUE
  MaxWire = 3
  ByteMod = 8
  kMaxFlashBlock = 2
  Written <- MCWritten
INVARIANTS
  StagedAsWritten
PROPERTIES
  FlashedInPlace
  NoHole
  CompleteIsVerified
  ImageSent
CHECK_DEADLOCK FALSE
