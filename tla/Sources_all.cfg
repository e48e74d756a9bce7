CONSTANTS
    Together <- EachAlone
    None = None
    Procs <- TwoProcs
    Kinds <- AllKinds
    Chunks <- TwoChunks
    Retries = 1
    MaxFetchTrouble = 1
    MaxPublish = 2
    MaxClock = 5
    MaxPush = 2
    MaxTapClock = 6
    CaskTokens <- ThreeTokens
    Casks <- CaskTaps
    Requests <- CaskRequests
    Options <- CaskOptions
    Before <- CasksBefore
    MaxCaskTrouble = 1
    FileNames <- TwoFileNames
    Guess = "a"
    NameOf <- NameOfContainer
    MaxContainers = 1
    MaxNow = 2
    MaxCommands = 3
    MaxLatestTrouble = 1
    Name <- TwoNames
    Taps <- TwoTaps
    Core = Core
    RankOf <- TapRank
    Contents <- TapContents
    MaxChanges = 1
    p1 = p1
    p2 = p2
    n1 = n1
    n2 = n2
    n3 = n3
    n4 = n4
    former = former
    t1 = t1
    t2 = t2
SPECIFICATION PartSpec
SYMMETRY Symmetry
CHECK_DEADLOCK FALSE
INVARIANTS DownloadsAreWhole ApiFilesAreTrue CacheIsOfItsFile  NamesMeanOneFormula DependentsAreKnown InstalledMissesNothing CasksAreSound
PROPERTIES CommandsDoWhatIsMeant
