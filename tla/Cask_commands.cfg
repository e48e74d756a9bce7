CONSTANTS
    Procs = {p1, p2}
    Nobody = Nobody
    Versions = {"1.0", "2.0"}
    First = "1.0"
    Commands = {"install", "reinstall", "upgrade", "uninstall", "cleanup"}
    Options <- ThreeOptions
    AppDirs = {"A", "B"}
    DefaultDir = "A"
    MaxStamp = 2
    MaxMishaps = 1
SYMMETRY Perms
SPECIFICATION Spec
INVARIANTS TypeOK FailedReplacementRestores PredecessorSomewhere RecordsAreTrue
PROPERTIES ForeignAppKept
CHECK_DEADLOCK FALSE
