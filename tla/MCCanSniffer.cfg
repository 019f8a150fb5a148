SPECIFICATION Spec
CONSTANTS
  Ids = {drv_temp, fan, speed}
  Values = {0, 1}
  kMaxSlots = 2
  kMaxLearned = 2
  CounterMod = 3
  Steps <- TwoSteps
  AdHoc = {2}
  EntriesPerPage = 2
  MaxCommands = 3
SYMMETRY IdSymmetry
INVARIANTS
  TypeOK
  TopIsBest
  StoredWasSaved
PROPERTIES
  NoisyNeverLearned
