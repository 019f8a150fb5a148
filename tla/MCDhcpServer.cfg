SPECIFICATION FairSpec
CONSTANTS
  Macs = {phone, laptop, tablet}
  NoMac = NoMac
  NoAddress = NoAddress
  kPoolSize = 2
  Patient = {phone}
INVARIANTS
  TypeOK
  NoConflict
PROPERTIES
  EvictsOldest
  GetsAddress

