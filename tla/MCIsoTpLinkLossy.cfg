SPECIFICATION Spec
CONSTANTS
  ask1 = ask1
  ask2 = ask2
  askLong = askLong
  say = say
  say1 = say1
  say2 = say2
  sayBlock = sayBlock
  sayLong = sayLong
  TesterPdus = {ask1, ask2}
  EcuPdus = {say, say1, say2}
  Length <- MCAllLength
  MaxPdu = 512
  RxBlockSize = 8
  NoPdu = NoPdu
  Garbled = Garbled
  EcuBlockSizes = {0, 1}
  EcuAnswers = {0, 1, 2}
  Lossy = TRUE
  Reordering = TRUE
INVARIANTS
  NoOverrun
PROPERTIES
  PdusWholeAndOnce
CHECK_DEADLOCK FALSE
