SPECIFICATION MCSpec
CONSTANTS
  Pcbs = {tab, phone}
  NoPcb = NoPcb
  kMaxConns = 2
  TypedCommands = {"write"}
  WriteCommands = {"write"}
  HttpCommands = {"write", "rw on", "rw off"}
  Pipelining = FALSE
INVARIANTS
  TypeOK
  PoolMatchesPcbs
  OneLiveStream
PROPERTIES
  ReadOnlyHolds
  RunsAsTyped
  RecordReturns
