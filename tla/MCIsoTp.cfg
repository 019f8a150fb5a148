SPECIFICATION Spec
CONSTANTS
  short = short
  long = long
  Pdus = {short, long}
  Length <- MCLength
  MaxPdu = 140
  RxBlockSize = 8
  Frames <- MCFrames
  NoPdu = NoPdu
  Garbled = Garbled
INVARIANTS
  TypeOK
  RxBounded
  TxOnSchedule
CHECK_DEADLOCK FALSE
