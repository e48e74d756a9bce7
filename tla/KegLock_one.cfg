\* Three lockers and the one cleaner the theorems allow.
CONSTANTS
  Locker = {l1, l2, l3}
  Cleaner = {c1}
  Inode = {i1, i2, i3, i4}
  MaxTries = 2
  None = None
SPECIFICATION FairSpec
INVARIANTS
  TypeOK
  MutualExclusion
  HeldFileIsNamed
PROPERTIES
  AttemptEnds
  ImplementsRackLock
