\* Two `brew cleanup` runs beside two lockers.
CONSTANTS
  Locker = {l1, l2}
  Cleaner = {c1, c2}
  Inode = {i1, i2, i3, i4}
  MaxTries = 2
  None = None
SPECIFICATION Spec
INVARIANTS
  MutualExclusion
