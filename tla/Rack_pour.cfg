\* Pours that fail or are killed at every step, with sweeps beside them.
SPECIFICATION Spec
CONSTANTS
  Proc = {p1, p2}
  Version = {1, 2}
  Current = 2
  Commands = {"install", "reinstall", "upgrade", "cleanup"}
  ShipsReceipt = FALSE
  MaxDeaths = 1
  None = None
SYMMETRY Symmetry
INVARIANTS
  InFlightIntact
  FinishedIsInstalled
  CleanWhenIdle
  ReplacedKegSurvives
PROPERTIES
  RackChangesUnderLock
