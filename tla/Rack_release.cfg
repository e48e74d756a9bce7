\* Liveness: no symmetry. Bottles that ship a receipt reach every step of the undoing.
SPECIFICATION FairSpec
CONSTANTS
  Proc = {p1, p2}
  Version = {1, 2}
  Current = 2
  Commands = {"install", "force"}
  ShipsReceipt = TRUE
  MaxDeaths = 0
  None = None
PROPERTIES
  LockIsReleased
