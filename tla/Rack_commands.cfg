\* The commands that act on what they read before the lock.
SPECIFICATION Spec
CONSTANTS
  Proc = {p1, p2}
  Version = {1, 2}
  Current = 2
  Commands = {"install", "upgrade", "uninstall", "force", "link_keg", "unlink_keg", "pin"}
  ShipsReceipt = FALSE
  MaxDeaths = 0
  None = None
SYMMETRY Symmetry
INVARIANTS
  TypeOK
  CommandsKeepRack
