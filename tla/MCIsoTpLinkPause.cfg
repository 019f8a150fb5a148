SPECIFICATION FairSpec
CONSTANTS
  ask1 = ask1
  ask2 = ask2
  askLong = askLong
  say = say
  say1 = say1
  say2 = say2
  sayBlock = sayBlock
  sayLong = sayLong
  TesterPdus = {ask1}
  EcuPdus = {say, sayLong}
  Length <- MCAllLength
  MaxPdu = 512
  RxBlockSize = 8
  NoPdu = NoPdu
  Garbled = Garbled
  EcuBlockSizes = {0}
  EcuAnswers = {0}
  Lossy = FALSE
  Reordering = FALSE
PROPERTIES
  PausedEcuResumes
CHECK_DEADLOCK FALSE
