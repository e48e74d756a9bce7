-------------------------------- MODULE Sources --------------------------------
(***************************************************************************)
(* What fastbrew fetches and decides from, in one state: the download      *)
(* cache, the API files, a tap, casks that need casks, a `:latest` cask    *)
(* and the names.  Each part is a module of its own; they share no file,   *)
(* so that a step is one part's and leaves the others alone.  A behaviour  *)
(* is one of the parts that are active in it, all of them or a few: the    *)
(* variables of the others stay None.                                      *)
(***************************************************************************)
EXTENDS Naturals

CONSTANTS
    Procs,       \* fastbrew processes
    None,
    Together,    \* which parts are active at once: a set of sets of parts
    Kinds, Chunks, Retries, MaxFetchTrouble,                     \* of Downloads
    MaxPublish, MaxClock,                                        \* of ApiStore
    MaxPush, MaxTapClock,                                        \* of Taps
    CaskTokens, Casks, Requests, Options, Before, MaxCaskTrouble, \* of CaskDeps
    FileNames, Guess, NameOf,                                    \* of LatestCask
    MaxContainers, MaxNow, MaxCommands, MaxLatestTrouble,
    Name, Taps, Core, RankOf, Contents, MaxChanges               \* of Names

VARIABLES
    active,
    kind, path, inc, link, content, fetch, sweep, locked, fetchTrouble, harm,
    published, apiClock, second, file, indexes, marker, api, overtaken,
    remote, dir, cache, keg, tapClock, tapProc,
    casks, installed, lock, caskRun, removed, caskTrouble,
    server, now, containers, holder, staged, recorded, latestRun, commands, latestTrouble,
    core, pointer, migration, tap, rack, opt, changes, last

Blob == INSTANCE Downloads WITH
    Fetchers <- Procs, MaxTrouble <- MaxFetchTrouble, run <- fetch, trouble <- fetchTrouble
Api == INSTANCE ApiStore WITH
    Runs <- Procs, clock <- apiClock, proc <- api
Tap == INSTANCE Taps WITH
    Proc <- Procs, MaxClock <- MaxTapClock, clock <- tapClock, proc <- tapProc
Needs == INSTANCE CaskDeps WITH
    Runs <- Procs, Tokens <- CaskTokens, MaxTrouble <- MaxCaskTrouble,
    run <- caskRun, trouble <- caskTrouble
Latest == INSTANCE LatestCask WITH
    Runs <- Procs, Nobody <- None, Names <- FileNames,
    MaxPublish <- MaxContainers, MaxClock <- MaxNow, MaxTrouble <- MaxLatestTrouble,
    clock <- now, dir <- containers, run <- latestRun, trouble <- latestTrouble
Ref == INSTANCE Names WITH Rank <- RankOf

ASSUME SourcesParameters ==
    Blob!Parameters /\ Needs!Parameters /\ Latest!Parameters /\ Ref!Parameters

-------------------------------------------------------------------------------
(* The variables of each part. *)
BlobVars == <<kind, path, inc, link, content, fetch, sweep, locked, fetchTrouble, harm>>
ApiVars == <<published, apiClock, second, file, indexes, marker, api, overtaken>>
TapVars == <<remote, dir, cache, keg, tapClock, tapProc>>
NeedsVars == <<casks, installed, lock, caskRun, removed, caskTrouble>>
LatestVars == <<server, now, containers, holder, staged, recorded, latestRun, commands, latestTrouble>>
RefVars == <<core, pointer, migration, tap, rack, opt, changes, last>>

vars == <<active, BlobVars, ApiVars, TapVars, NeedsVars, LatestVars, RefVars>>

(* What a part that is not active has. *)
BlobOff == kind = None /\ path = None /\ inc = None /\ link = None /\ content = None /\
    fetch = None /\ sweep = None /\ locked = None /\ fetchTrouble = None /\ harm = None
ApiOff == published = None /\ apiClock = None /\ second = None /\ file = None /\ indexes = None /\ marker = None /\
    api = None /\ overtaken = None
TapOff == remote = None /\ dir = None /\ cache = None /\ keg = None /\ tapClock = None /\
    tapProc = None
NeedsOff == casks = None /\ installed = None /\ lock = None /\ caskRun = None /\ removed = None /\
    caskTrouble = None
LatestOff == server = None /\ now = None /\ containers = None /\ holder = None /\ staged = None /\
    recorded = None /\ latestRun = None /\ commands = None /\ latestTrouble = None
RefOff == core = None /\ pointer = None /\ migration = None /\ tap = None /\ rack = None /\
    opt = None /\ changes = None /\ last = None

Init ==
    /\ active \in Together
    /\ IF "downloads" \in active THEN Blob!Init ELSE BlobOff
    /\ IF "api" \in active THEN Api!Init ELSE ApiOff
    /\ IF "taps" \in active THEN Tap!Init ELSE TapOff
    /\ IF "cask_deps" \in active THEN Needs!Init ELSE NeedsOff
    /\ IF "latest" \in active THEN Latest!Init ELSE LatestOff
    /\ IF "names" \in active THEN Ref!Init ELSE RefOff

Download ==
    /\ "downloads" \in active /\ Blob!Next
    /\ UNCHANGED <<active, ApiVars, TapVars, NeedsVars, LatestVars, RefVars>>
UseApi ==
    /\ "api" \in active /\ Api!Next
    /\ UNCHANGED <<active, BlobVars, TapVars, NeedsVars, LatestVars, RefVars>>
UseTap ==
    /\ "taps" \in active /\ Tap!Next
    /\ UNCHANGED <<active, BlobVars, ApiVars, NeedsVars, LatestVars, RefVars>>
InstallCasks ==
    /\ "cask_deps" \in active /\ Needs!Next
    /\ UNCHANGED <<active, BlobVars, ApiVars, TapVars, LatestVars, RefVars>>
FollowLatest ==
    /\ "latest" \in active /\ Latest!Next
    /\ UNCHANGED <<active, BlobVars, ApiVars, TapVars, NeedsVars, RefVars>>
ActOnNames ==
    /\ "names" \in active /\ Ref!Next
    /\ UNCHANGED <<active, BlobVars, ApiVars, TapVars, NeedsVars, LatestVars>>

Next == Download \/ UseApi \/ UseTap \/ InstallCasks \/ FollowLatest \/ ActOnNames
Spec == Init /\ [][Next]_vars

-------------------------------------------------------------------------------
(* The properties of the parts; each is stated and explained in its module. *)

\* bottle/fetch.rs, cask/download.rs: what a download leaves under its final
\* name is whole when the lock is held or nothing went wrong, and what failed
\* its checksum does not stay.
DownloadsAreWhole ==
    "downloads" \in active => Blob!LockedBlobIsWhole /\ Blob!QuietIsWhole /\ Blob!RejectedIsNotKept

\* api/fetch.rs, api/index.rs: what is derived from a file is served only for
\* that file, and a publication is missed only if it came while an answer was
\* under way or in the second the file is dated with.
ApiFilesAreTrue == "api" \in active => Api!IndexIsOfItsFile /\ Api!MissedOnlyIfOvertaken

\* api/taps.rs: what was read in a tap is served only for the file it was read in.
CacheIsOfItsFile == "taps" \in active => Tap!CacheIsOfItsFile

\* resolve.rs: a name and the full name it resolves to mean one formula, for
\* install, upgrade and dependencies alike.
NamesMeanOneFormula ==
    "names" \in active => Ref!FullNamesStand /\ Ref!OutdatedIsUpgraded /\ Ref!DependencyStaysInItsTap

\* cask/install.rs, cask/download.rs: runs over casks that depend on each
\* other never wait for themselves, and hold the locks of the installs that are
\* under way; of a `:latest` cask's container it is known what is staged, that
\* it is quarantined, and when the server has another.
CasksAreSound ==
    /\ "cask_deps" \in active => Needs!NeverInItsOwnWay /\ Needs!LocksFollowTheRecursion
    /\ "latest" \in active => Latest!LatestIsKnown

\* resolve.rs, tap.rs, cask/: no command replaces a whole file of the cache by
\* another that is not, moves a rack to another tap unasked, or removes the tap
\* of a keg it could see, and what a cask needs is installed before it.
CommandsDoWhatIsMeant ==
    [][/\ "downloads" \in active => Blob!KeptUntilReplacedStep
       /\ "names" \in active => Ref!TapChangesByBareNameStep
       /\ "taps" \in active => Tap!UntapSawNoKegStep
       /\ "cask_deps" \in active => Needs!DependenciesComeFirstStep]_vars
===============================================================================
