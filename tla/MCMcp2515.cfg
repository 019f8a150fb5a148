SPECIFICATION FairSpec
CONSTANTS
  Outgoing <- MCOutgoing
  Incoming <- MCIncoming
  Callers = {"sendFrame", "obd"}
  BusModes <- MCBusModes
  TxRetries = 2
  PassiveAt = 2
INVARIANTS
  TypeOK
  LatchedIsQueued
  ReceivedStaysHeld
  ModeAsAsked
PROPERTIES
  BusyEnds
CHECK_DEADLOCK FALSE
