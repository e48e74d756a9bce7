SPECIFICATION Spec
CONSTANTS
  Proc = {p1, p2}
  Version = {1, 2}
  Current = 2
  Commands = {"upgrade", "cleanup"}
  ShipsReceipt = FALSE
  MaxDeaths = 0
  None = None
PROPERTIES
  SweepLeavesInstallation
