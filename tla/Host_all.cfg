CONSTANTS
    Together <- EachAlone
    None = None
    FormulaVersions <- ThreeVersions
    Defaults <- ThreeDefaults
    Edited = "mine"
    MaxPours = 4
    PouredKegs <- TwoFiles
    MaxTrouble = 2
    Canonical = "sh.brew"
    Legacy = "homebrew.mxcl"
    KegLabels <- BothLabels
    LinkedKegs <- TwoKegs
    PathNames <- NamesBelow
    LinkFiles <- ThreeFiles
    LinkDirs <- TwoDirs
    Sorted <- InOrder
    Rules <- RulePairs
    UserFiles <- OwnFiles
    MaxFailures = 1
    UserFile = UserFile
    RealDir = RealDir
    NotANumber = NotANumber
    k1 = k1
    k2 = k2
SPECIFICATION PartSpec
SYMMETRY Symmetry
INVARIANTS LinksAreWhole FilesAreAsDeclared KegIsRelocated DefaultsAreFollowed OneInstanceRuns
PROPERTIES CommandsDoWhatTheySay OthersFilesAreKept
CHECK_DEADLOCK FALSE
