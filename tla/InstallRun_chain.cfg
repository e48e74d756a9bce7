\* A dependency whose own dependency went away, over a chain of three.
SPECIFICATION Spec
CONSTANTS
  Proc = {p1, p2}
  Formula = {1, 2, 3}
  Graphs <- TwoGraphs
  Commands = {"install", "uninstall"}
  MaxRoots = 1
  None = None
INVARIANTS
  FailurePropagates
