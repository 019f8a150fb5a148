SPECIFICATION FairSpec
CONSTANTS
  ask1 = ask1
  ask2 = ask2
  askLong = askLong
  say = say
  say1 = say1
  say2 = say2
  sayBlock = sayBlock
  sayLong = sayLong
  TesterPdus = {askLong}
  EcuPdus = {say, sayBlock}
  Length <- MCAllLength
  MaxPdu = 512
  RxBlockSize = 8
  NoPdu = NoPdu
  Garbled = Garbled
  EcuBlockSizes = {3}
  EcuAnswers = {0, 1}
  Lossy = FALSE
  Reordering = FALSE
PROPERTIES
  PdusArrive
CHECK_DEADLOCK FALSE
