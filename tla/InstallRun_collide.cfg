\* Two runs over a chain and a triangle of dependencies.
SPECIFICATION FairSpec
CONSTANTS
  Proc = {p1, p2}
  Formula = {1, 2, 3}
  Graphs <- TwoGraphs
  Commands = {"install", "reinstall", "uninstall"}
  MaxRoots = 1
  None = None
INVARIANTS
  TypeOK
  NoMutualRefusal
  PouredStaysPoured
  FinishedHasDependencies
  RacksAreWhole
PROPERTIES
  RunEnds
