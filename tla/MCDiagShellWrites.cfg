SPECIFICATION FairSpec
CONSTANTS
  engine = engine
  bsi = bsi
  EcuTable <- MCTable
  Protocol <- MCProtocol
  NoEcu = NoEcu
  NoReq = NoReq
  LidEnd = 2
  Zones = 2
  MaxStaged = 1
  MaxResponsePending = 1
  EcuPatience = 2
  Segmented = {"Block"}
  Commands = {"connect", "unlock", "rw on", "rw off", "BsiInit", "flash record", "flash begin", "flash end", "flash cancel", "live", "live off"}
  EcuAnswers = {"positive", "negative", "pending"}
  Faults = {"abort", "loss", "garble"}
  PromptEcu = FALSE
  UnhurriedUser = FALSE
  MaxWire = 2
PROPERTIES
  WritesBegunReadWrite
  WaitEnds
CHECK_DEADLOCK FALSE
