---------------------------------- MODULE Cask ----------------------------------
(***************************************************************************)
(* One cask: its Caskroom entry, the artifacts it puts outside of it, and  *)
(* the commands that install, replace, remove and sweep it (cask/install,  *)
(* cask/artifacts, cask/uninstall, cask/metadata, cask/mod, cleanup_cask). *)
(*                                                                         *)
(* A cask has an app, moved into a directory the user chooses, a tool,     *)
(* linked into the prefix, and steps that run after both and leave nothing *)
(* behind.  Every call that changes the disk is one action and, where the  *)
(* code handles a failure, may fail; a process may be killed in between.   *)
(***************************************************************************)
EXTENDS Naturals, Sequences, FiniteSets, SequencesExt

CONSTANTS
    Procs, Nobody,
    Versions,       \* the versions the index may offer, as strings
    First,          \* the one that may be installed already
    Commands,       \* what the processes run, of AllCommands
    Options,        \* the command lines they run it with, of AllOptions
    AppDirs,        \* the directories an app can be moved to
    DefaultDir,     \* the one without --appdir
    MaxStamp,       \* bound: caskfiles written before the last command starts
    MaxMishaps      \* bound: calls that fail and processes that are killed

AllCommands == {"install", "reinstall", "upgrade", "uninstall", "zap", "cleanup"}
Unset == "unset"    \* no --appdir
AllOptions == [force : BOOLEAN, adopt : BOOLEAN, binaries : BOOLEAN, appdir : AppDirs \cup {Unset}]

ASSUME CaskAssumption ==
    /\ Nobody \notin Procs
    /\ MaxStamp \in Nat /\ MaxMishaps \in Nat
    /\ First \in Versions /\ IsFiniteSet(Versions)
    /\ Commands \subseteq AllCommands
    /\ Options \subseteq AllOptions
    /\ DefaultDir \in AppDirs
    /\ AppDirs \cap Versions = {}
    /\ {"none", "gone", "user", "formula", "other", Unset} \cap (AppDirs \cup Versions) = {}

VARIABLES
    disk,       \* the Caskroom entry and the artifacts
    holder,     \* who has the cask's lock (RackLock)
    job,        \* what each process has read and where it is
    clock,      \* the last caskfile timestamp
    mishaps,    \* calls that failed and processes killed so far
    harm        \* what went wrong beyond a call that fails and does nothing

vars == <<disk, holder, job, clock, mishaps, harm>>

-------------------------------------------------------------------------------
(* The disk *)

None == "none"
Gone == [app |-> "gone", tool |-> FALSE]    \* no such directory
Foreign == "user"                           \* an app the user put there

\* A staged version holds the app, a link to where it was moved, or neither.
StagedDir == [app : {None, Foreign} \cup Versions \cup AppDirs, tool : BOOLEAN]

\* The kinds of artifact, in the order of sort_index, and without the one that
\* the options can skip.
Kinds == <<"app", "binary", "postflight_steps">>
Unlinked == <<"app", "postflight_steps">>

\* The receipt of an install without the artifacts the options skip.
Specs(binaries) == IF binaries THEN Kinds ELSE Unlinked

\* aside and asideMeta are `<version>.upgrading`; a meta is the timestamp of
\* the caskfile in it; the receipt lists kinds; the config is the --appdir.
Disk == [staged    : [Versions -> StagedDir \cup {Gone}],
         aside     : [Versions -> StagedDir \cup {Gone}],
         meta      : [Versions -> Nat],
         asideMeta : [Versions -> Nat],
         receipt   : {<<>>, Kinds, Unlinked},
         config    : AppDirs \cup {Unset, None},
         app       : [AppDirs -> {None, Foreign} \cup Versions],
         tool      : {None, "formula", "other"} \cup Versions]

\* Where the app goes.
DirOf(explicit) == IF explicit \in AppDirs THEN explicit ELSE DefaultDir

\* installed_cask: the version with the latest caskfile.
Installed(d) ==
    LET recorded == {v \in Versions : d.meta[v] > 0}
    IN IF recorded = {} THEN None
       ELSE CHOOSE v \in recorded : \A w \in recorded : d.meta[v] >= d.meta[w]

\* is_outdated, greedily, for a cask that has a version.
IsOutdated(offered, installed) == offered # installed

\* installed_specs: what the receipt recorded, or else what the cask says.
InstalledSpecs(d) == IF d.receipt # <<>> THEN d.receipt ELSE Kinds

\* read_or_resolve: the directory recorded, or else what this run would use.
RecordedDir(d, flag) == IF d.config # None THEN DirOf(d.config) ELSE DirOf(flag)

\* merged_explicit_flags: what was recorded, with this run's flags on top.
MergedFlag(d, flag) == IF flag = Unset /\ d.config \in AppDirs THEN d.config ELSE flag

-------------------------------------------------------------------------------
(* Artifacts.  Each operator is what a call makes of the disk; the second   *)
(* of a pair says when the code refuses to.                                  *)

HasSource(d, v) == d.staged[v] # Gone /\ d.staged[v].app # None

\* move_artifact, post_move: the app goes to its directory and leaves a link.
MoveApp(d, v, dir) ==
    [d EXCEPT !.app[dir] = IF d.staged[v].app \in AppDirs THEN d.app[d.staged[v].app] ELSE d.staged[v].app,
              !.staged[v].app = dir]

\* --adopt: what is there stays, and the staged copy is replaced by a link.
AdoptApp(d, v, dir) == [d EXCEPT !.staged[v].app = dir, !.app[dir] = v]

\* Mutant: what is at the target is overwritten.
MayMoveAppAlways(d, v, dir, opt) == HasSource(d, v)
MayMoveApp(d, v, dir, opt) == HasSource(d, v) /\ (d.app[dir] = None \/ (opt.force /\ ~opt.adopt))
\* same_bundle: the same version, or a foreign app of that version.
MayAdoptApp(d, v, dir, opt) ==
    HasSource(d, v) /\ d.app[dir] # None /\ opt.adopt /\ d.app[dir] \in {v, Foreign}

\* Mutant: the target is deleted before it is copied.
MoveBackDeletesFirst(d, v, dir) ==
    [d EXCEPT !.staged[v] = IF @ = Gone THEN Gone ELSE [@ EXCEPT !.app = None], !.app[dir] = None]
\* move_back: what is where the app was staged goes, its link or a copy; then
\* the app comes back there (the directory is made) and the target is deleted.
MoveBack(d, v, dir) ==
    IF d.app[dir] # None
    THEN [d EXCEPT !.staged[v] = [app |-> d.app[dir], tool |-> @ # Gone /\ @.tool], !.app[dir] = None]
    ELSE [d EXCEPT !.staged[v] = IF @ = Gone THEN Gone ELSE [@ EXCEPT !.app = None]]

\* Something else than the link is where the app was staged: only --force or
\* --adopt overwrite it; a missing app is an error when an install is undone.
MayMoveBack(d, v, dir, opt, skip) ==
    /\ (d.staged[v] # Gone /\ d.staged[v].app \notin {None, dir}) => (opt.force \/ opt.adopt)
    /\ d.app[dir] # None \/ skip \/ opt.force

\* link_artifact: a formula's link is left alone, one's own is replaced with
\* --force or --adopt, and anything else with --force.
LinkTool(d, v) == IF d.tool = "formula" THEN d ELSE [d EXCEPT !.tool = v]
Resolves(d, v) == d.staged[v] # Gone /\ d.staged[v].tool
MayLinkTool(d, v, opt) ==
    /\ Resolves(d, v)
    /\ \/ d.tool \in {None, "formula", v}
       \/ opt.force
       \/ opt.adopt /\ d.tool \in Versions /\ Resolves(d, d.tool)

\* unlink_artifact: only a link to this version, or into this Caskroom entry.
UnlinkTool(d, v) ==
    IF d.tool \in Versions /\ (d.tool = v \/ Resolves(d, d.tool)) THEN [d EXCEPT !.tool = None] ELSE d

\* install_one and uninstall_one for one kind: the disks it can end with;
\* none when it must fail.
InstallOne(d, kind, v, dir, opt) ==
    CASE kind = "app" -> {MoveApp(d, v, dir) : x \in {y \in {1} : MayMoveApp(d, v, dir, opt)}}
                         \cup {AdoptApp(d, v, dir) : x \in {y \in {1} : MayAdoptApp(d, v, dir, opt)}}
      [] kind = "binary" -> {LinkTool(d, v) : x \in {y \in {1} : MayLinkTool(d, v, opt)}}
      [] OTHER -> {d}
UninstallOne(d, kind, v, dir, opt, skip) ==
    CASE kind = "app" -> {MoveBack(d, v, dir) : x \in {y \in {1} : MayMoveBack(d, v, dir, opt, skip)}}
      [] kind = "binary" -> {UnlinkTool(d, v)}
      [] OTHER -> {d}

\* What a call that breaks half way leaves: the app without its link, the link
\* gone and the app still there or there twice, the old tool gone.
TornInstall(d, kind, v, dir, opt) ==
    CASE kind = "app" -> {[MoveApp(d, v, dir) EXCEPT !.staged[v].app = None] : x \in {y \in {1} : MayMoveApp(d, v, dir, opt)}}
      [] OTHER -> {}
TornUninstall(d, kind, v, dir, opt) ==
    CASE kind = "app" -> {[MoveBack(d, v, dir) EXCEPT !.app[dir] = d.app[dir]] : x \in {y \in {1} : MayMoveBack(d, v, dir, opt, TRUE)}}
      [] OTHER -> {}

-------------------------------------------------------------------------------
(* Processes *)

Idle == [at |-> "idle"]
Places == {"idle", "look", "lock", "decide", "fetch", "begin", "reverse", "aside", "asideMeta",
           "stage", "caskfile", "install", "undo", "config", "receipt", "sha", "unrecord", "purge",
           "restore", "restoreMeta", "finish", "records", "version", "sweep", "unlock"}

\* new: the version offered; inst: the one found installed (or None); opt
\* with this run's flags; dir and old.dir: where the app goes and where it was;
\* specs and old.specs: what is installed and what is reversed; i: the next one;
\* rolling: the artifacts being installed are the predecessor's; failed: some
\* call did; before: the disk when the predecessor was first touched.
Job(at, cmd, opt, new) ==
    [at |-> at, cmd |-> cmd, opt |-> opt, new |-> new, inst |-> None, dir |-> DefaultDir,
     specs |-> <<>>, old |-> [dir |-> DefaultDir, specs |-> <<>>], i |-> 1,
     backed |-> FALSE, rolling |-> FALSE, failed |-> FALSE, before |-> {}]

At(p, place) == job[p].at = place
Holds(p) == holder = p

\* The process goes on with j and the disk becomes d.
Goes(p, j, d) == job' = [job EXCEPT ![p] = j] /\ disk' = d
Quietly == UNCHANGED <<holder, clock, mishaps, harm>>
Mishap == mishaps < MaxMishaps /\ mishaps' = mishaps + 1
\* A call fails, with the marks that leaves.
Fails(marks) == Mishap /\ harm' = harm \cup marks /\ UNCHANGED <<holder, clock>>

\* A command starts: some look before they lock.  cleanup takes none of the
\* options, and uninstall and cleanup no version.
Start(p) ==
    /\ At(p, "idle") /\ clock < MaxStamp
    /\ \E cmd \in Commands, opt \in Options, new \in Versions :
         /\ cmd = "cleanup" => opt = CHOOSE o \in Options : TRUE
         /\ cmd \in {"uninstall", "zap", "cleanup"} => new = First
         /\ Goes(p, Job(IF cmd \in {"install", "reinstall"} THEN "lock" ELSE "look", cmd, opt, new), disk)
    /\ Quietly

\* upgrade_casks and uninstall_casks read what is installed without the lock:
\* upgrade leaves a current cask alone, uninstall needs one.
LookFirst(p) ==
    LET j == job[p]
        inst == Installed(disk)
        worth == CASE j.cmd = "upgrade" -> inst # None /\ IsOutdated(j.new, inst)
                   [] OTHER -> inst # None
    IN /\ At(p, "look") /\ j.cmd \in {"upgrade", "uninstall", "zap"}
       /\ Goes(p, IF worth THEN [j EXCEPT !.at = "lock", !.inst = inst] ELSE Idle, disk)
       /\ Quietly

\* stale_version_dirs: what is staged beside the version taken as installed.
StaleDirs(d, inst) == {v \in Versions : d.staged[v] # Gone /\ v # inst}

\* cleanup_cask locks only when it finds something to remove.
LookForStale(p) ==
    LET inst == Installed(disk)
    IN /\ At(p, "look") /\ job[p].cmd = "cleanup"
       /\ Goes(p, IF inst # None /\ StaleDirs(disk, inst) # {}
                  THEN [job[p] EXCEPT !.at = "lock", !.inst = inst] ELSE Idle, disk)
       /\ Quietly

\* lock_cask; what has changed since the process looked is recorded in harm.
AfterLock(cmd) == CASE cmd \in {"install", "reinstall"} -> "decide"
                    [] cmd = "upgrade" -> "fetch"
                    [] cmd = "cleanup" -> "sweep"
                    [] OTHER -> "begin"
\* Mutant: the lock is not exclusive.
LockShared(p) ==
    /\ At(p, "lock")
    /\ holder' = p
    /\ Goes(p, [job[p] EXCEPT !.at = AfterLock(job[p].cmd)], disk)
    /\ UNCHANGED <<clock, mishaps, harm>>
Lock(p) ==
    LET j == job[p]
    IN /\ At(p, "lock") /\ holder = Nobody
       /\ holder' = p
       /\ Goes(p, [j EXCEPT !.at = AfterLock(j.cmd)], disk)
       /\ harm' = IF j.inst # None /\ j.inst # Installed(disk) THEN harm \cup {"overtaken"} ELSE harm
       /\ UNCHANGED <<clock, mishaps>>

LockBusy(p) ==
    /\ At(p, "lock") /\ holder \notin {Nobody, p}
    /\ Goes(p, Idle, disk)
    /\ Quietly

\* install_cask_entry: prelude may refuse, a current cask is left alone.
Decide(p) ==
    LET j == job[p]
        inst == Installed(disk)
        go == inst = None \/ j.cmd = "reinstall" \/ j.opt.force \/ IsOutdated(j.new, inst)
    IN /\ At(p, "decide")
       /\ \E refused \in BOOLEAN :
            Goes(p, [j EXCEPT !.at = IF go /\ ~refused THEN "fetch" ELSE "unlock", !.inst = inst], disk)
       /\ Quietly

\* download_cask and install_dependencies come before anything is touched.
Fetch(p) ==
    LET j == job[p]
        next == IF j.inst = None THEN "stage" ELSE "begin"
    IN /\ At(p, "fetch")
       /\ \/ Goes(p, [j EXCEPT !.at = next, !.dir = DirOf(j.opt.appdir), !.specs = Specs(j.opt.binaries)], disk) /\ Quietly
          \/ Goes(p, [j EXCEPT !.at = "unlock"], disk) /\ Fails({})

\* replace_installed and uninstall_installed_cask start from what the config
\* and the receipt on the disk say, whichever version wrote them.
Begin(p) ==
    LET j == job[p]
        replacing == j.cmd \notin {"uninstall", "zap"}
        flag == IF replacing THEN MergedFlag(disk, j.opt.appdir) ELSE Unset
    IN /\ At(p, "begin")
       /\ Goes(p, [j EXCEPT !.at = "reverse", !.i = 1, !.before = {disk},
                            !.old = [dir |-> RecordedDir(disk, IF replacing THEN j.opt.appdir ELSE Unset), specs |-> InstalledSpecs(disk)],
                            !.opt.appdir = flag, !.dir = DirOf(flag)], disk)
       /\ Quietly

\* The options the predecessor is reversed and put back with: this run's, forced.
PredecessorOpt(j) == [j.opt EXCEPT !.force = TRUE]
ReverseOpt(j) ==
    IF j.cmd \in {"uninstall", "zap"} THEN [j.opt EXCEPT !.adopt = FALSE, !.binaries = TRUE] ELSE PredecessorOpt(j)

\* uninstall_specs: in the order of install, going on after a failure.
ReverseNext(p) ==
    LET j == job[p]
        kind == j.old.specs[j.i]
        outcomes == UninstallOne(disk, kind, j.inst, j.old.dir, ReverseOpt(j), TRUE)
        next == [j EXCEPT !.i = @ + 1]
    IN /\ At(p, "reverse") /\ j.i <= Len(j.old.specs)
       /\ \/ \E d \in outcomes : Goes(p, next, d) /\ Quietly
          \/ outcomes = {} /\ Goes(p, [next EXCEPT !.failed = TRUE], disk) /\ Quietly
          \/ Goes(p, [next EXCEPT !.failed = TRUE], disk) /\ Fails({})
          \/ \E d \in TornUninstall(disk, kind, j.inst, j.old.dir, ReverseOpt(j)) :
               Goes(p, [next EXCEPT !.failed = TRUE], d) /\ Fails({"torn"})

\* A failure of the reversal sends an upgrade to the roll back and stops an
\* uninstall that is not forced.
Reversed(p) ==
    LET j == job[p]
        next == CASE j.cmd \in {"uninstall", "zap"} -> IF j.failed /\ ~j.opt.force THEN "unlock" ELSE "records"
                  [] OTHER -> IF j.failed THEN "install" ELSE "aside"
    IN /\ At(p, "reverse") /\ j.i > Len(j.old.specs)
       /\ Goes(p, [j EXCEPT !.at = next, !.i = 1, !.rolling = next = "install"], disk)
       /\ harm' = CASE j.failed /\ next = "records" -> harm \cup {"forced"}
                    [] j.failed /\ next = "unlock" -> harm \cup {"half"}
                    [] OTHER -> harm
       /\ UNCHANGED <<holder, clock, mishaps>>

-------------------------------------------------------------------------------
(* Backup *)

\* A rename of Backup::create: a stale copy goes first.  When it fails, what is
\* aside is put back, a copy an earlier run left of the other one included.
SetAside(d, v) == [d EXCEPT !.aside[v] = d.staged[v], !.staged[v] = Gone]
SetAsideMeta(d, v) == [d EXCEPT !.asideMeta[v] = d.meta[v], !.meta[v] = 0]
Restore(d, v) ==
    IF d.aside[v] = Gone THEN d ELSE [d EXCEPT !.staged[v] = d.aside[v], !.aside[v] = Gone]
RestoreMeta(d, v) ==
    IF d.asideMeta[v] = 0 THEN d ELSE [d EXCEPT !.meta[v] = d.asideMeta[v], !.asideMeta[v] = 0]

Backup(p) ==
    LET j == job[p]
        renamed == IF At(p, "aside") THEN SetAside(disk, j.inst) ELSE SetAsideMeta(disk, j.inst)
        cleared == IF At(p, "aside") THEN [disk EXCEPT !.aside[j.inst] = Gone] ELSE [disk EXCEPT !.asideMeta[j.inst] = 0]
    IN /\ At(p, "aside") \/ At(p, "asideMeta")
       /\ \/ /\ Goes(p, [j EXCEPT !.at = IF @ = "aside" THEN "asideMeta" ELSE "stage", !.backed = At(p, "asideMeta")], renamed)
             /\ Quietly
          \/ /\ Goes(p, [j EXCEPT !.at = "install", !.rolling = TRUE, !.failed = TRUE],
                     RestoreMeta(Restore(cleared, j.inst), j.inst))
             /\ Fails({})

\* Backup::restore, then the predecessor's artifacts again.
RestoreStaged(p) ==
    /\ At(p, "restore")
    /\ Goes(p, [job[p] EXCEPT !.at = "restoreMeta"], Restore(disk, job[p].inst))
    /\ Quietly
RestoreRecords(p) ==
    /\ At(p, "restoreMeta")
    /\ Goes(p, [job[p] EXCEPT !.at = "install", !.rolling = TRUE, !.i = 1], RestoreMeta(disk, job[p].inst))
    /\ Quietly

\* Backup::purge, once the replacement is installed.
Finish(p) ==
    /\ At(p, "finish")
    /\ Goes(p, [job[p] EXCEPT !.at = "unlock"],
            [disk EXCEPT !.aside[job[p].inst] = Gone, !.asideMeta[job[p].inst] = 0])
    /\ Quietly

-------------------------------------------------------------------------------
(* Install *)

\* Where a failure of the new version leads.
Failing(j) == [j EXCEPT !.at = "purge", !.failed = TRUE]

\* stage: an old copy of the version goes; unpacking may stop half way.
Stage(p) ==
    LET j == job[p]
        put(dir) == [disk EXCEPT !.staged[j.new] = dir]
    IN /\ At(p, "stage")
       /\ \/ Goes(p, [j EXCEPT !.at = "caskfile"], put([app |-> j.new, tool |-> TRUE])) /\ Quietly
          \/ \E left \in {Gone, [app |-> None, tool |-> FALSE], [app |-> j.new, tool |-> TRUE]} :
               Goes(p, Failing(j), put(left)) /\ Fails({})

\* write_caskfile, with the previous one it drops.
Caskfile(p) ==
    LET j == job[p]
        previous == Installed(disk)
        dropped == IF previous = None THEN disk.meta ELSE [disk.meta EXCEPT ![previous] = 0]
    IN /\ At(p, "caskfile")
       /\ \/ /\ clock' = clock + 1
             /\ Goes(p, [j EXCEPT !.at = "install", !.i = 1], [disk EXCEPT !.meta = [dropped EXCEPT ![j.new] = clock + 1]])
             /\ UNCHANGED <<holder, mishaps, harm>>
          \/ Goes(p, Failing(j), disk) /\ Fails({})

\* What install_specs works on: the new version, or the predecessor again,
\* without the artifacts this run's options skip.
Installing(j) ==
    IF j.rolling
    THEN [v |-> j.inst, dir |-> j.old.dir, opt |-> PredecessorOpt(j),
          specs |-> IF j.opt.binaries THEN j.old.specs ELSE Unlinked]
    ELSE [v |-> j.new, dir |-> j.dir, opt |-> j.opt, specs |-> j.specs]

InstallNext(p) ==
    LET j == job[p]
        what == Installing(j)
        kind == what.specs[j.i]
        outcomes == InstallOne(disk, kind, what.v, what.dir, what.opt)
        undo == [j EXCEPT !.at = "undo", !.failed = TRUE, !.i = @ - 1]
    IN /\ At(p, "install") /\ j.i <= Len(what.specs)
       /\ \/ \E d \in outcomes : Goes(p, [j EXCEPT !.i = @ + 1], d) /\ Quietly
          \/ outcomes = {} /\ Goes(p, undo, disk) /\ Quietly
          \/ Goes(p, undo, disk) /\ Fails(IF j.rolling THEN {"rollback"} ELSE {})
          \/ \E d \in TornInstall(disk, kind, what.v, what.dir, what.opt) : Goes(p, undo, d) /\ Fails({"torn"})

AllInstalled(p) ==
    LET j == job[p]
    IN /\ At(p, "install") /\ j.i > Len(Installing(j).specs)
       /\ Goes(p, [j EXCEPT !.at = IF j.rolling THEN "unlock" ELSE "config"], disk)
       /\ Quietly

\* The artifacts already installed go again, last first; failures are ignored.
UndoNext(p) ==
    LET j == job[p]
        what == Installing(j)
        outcomes == UninstallOne(disk, what.specs[j.i], what.v, what.dir, what.opt, FALSE)
        after == IF j.rolling THEN "unlock" ELSE "purge"
    IN /\ At(p, "undo")
       /\ IF j.i = 0 THEN Goes(p, [j EXCEPT !.at = after], disk)
          ELSE \E d \in IF outcomes = {} THEN {disk} ELSE outcomes : Goes(p, [j EXCEPT !.i = @ - 1], d)
       /\ Quietly

\* Mutant: records that cannot be written leave the artifacts in place.
RecordsGiveUp(p) ==
    /\ job[p].at \in {"config", "receipt", "sha"}
    /\ Goes(p, [job[p] EXCEPT !.at = "purge", !.failed = TRUE], disk)
    /\ Fails({})
\* write_install_records: the config, the receipt and, for a :latest cask, the
\* checksum; each may fail, and then every artifact is reversed.
Records(p) ==
    LET j == job[p]
        undo == [j EXCEPT !.at = "unrecord", !.failed = TRUE, !.i = 1]
        done == IF j.inst = None THEN "unlock" ELSE "finish"
    IN /\ \/ At(p, "config") /\ Goes(p, [j EXCEPT !.at = "receipt"], [disk EXCEPT !.config = j.opt.appdir]) /\ Quietly
          \/ At(p, "receipt") /\ Goes(p, [j EXCEPT !.at = "sha"], [disk EXCEPT !.receipt = j.specs]) /\ Quietly
          \/ At(p, "sha") /\ Goes(p, [j EXCEPT !.at = done], disk) /\ Quietly
          \/ /\ j.at \in {"config", "receipt", "sha"}
             /\ Goes(p, undo, disk)
             /\ Fails(IF j.at = "config" THEN {} ELSE {"misrecorded"})

UnrecordNext(p) ==
    LET j == job[p]
        outcomes == UninstallOne(disk, j.specs[j.i], j.new, j.dir, j.opt, TRUE)
    IN /\ At(p, "unrecord")
       /\ IF j.i > Len(j.specs) THEN Goes(p, [j EXCEPT !.at = "purge"], disk)
          ELSE \E d \in IF outcomes = {} THEN {disk} ELSE outcomes : Goes(p, [j EXCEPT !.i = @ + 1], d)
       /\ Quietly

\* Mutants: a failed install keeps its caskfile, or its staged files.
PurgeKeepsMeta(p) ==
    /\ At(p, "purge")
    /\ Goes(p, [job[p] EXCEPT !.at = IF job[p].inst = None THEN "unlock" ELSE "restore"], [disk EXCEPT !.staged[job[p].new] = Gone])
    /\ Quietly
PurgeKeepsStaged(p) ==
    /\ At(p, "purge")
    /\ Goes(p, [job[p] EXCEPT !.at = IF job[p].inst = None THEN "unlock" ELSE "restore"], [disk EXCEPT !.meta[job[p].new] = 0])
    /\ Quietly
\* purge_versioned_files, and a predecessor comes back.
Purge(p) ==
    LET j == job[p]
    IN /\ At(p, "purge")
       /\ Goes(p, [j EXCEPT !.at = IF j.inst = None THEN "unlock" ELSE "restore"],
               [disk EXCEPT !.staged[j.new] = Gone, !.meta[j.new] = 0])
       /\ Quietly

-------------------------------------------------------------------------------
(* Uninstall and cleanup *)

DropRecords(p) ==
    /\ At(p, "records")
    /\ Goes(p, [job[p] EXCEPT !.at = "version"], [disk EXCEPT !.receipt = <<>>, !.config = None])
    /\ Quietly

\* The version's files, or with --zap or --force the whole Caskroom entry.
Emptied(d) == [d EXCEPT !.staged = [v \in Versions |-> Gone], !.aside = [v \in Versions |-> Gone],
                        !.meta = [v \in Versions |-> 0], !.asideMeta = [v \in Versions |-> 0]]
DropVersion(p) ==
    LET j == job[p]
    IN /\ At(p, "version")
       /\ Goes(p, [j EXCEPT !.at = "unlock"],
               IF j.cmd = "zap" \/ j.opt.force THEN Emptied(disk)
               ELSE [disk EXCEPT !.staged[j.inst] = Gone, !.meta[j.inst] = 0])
       /\ Quietly

\* cleanup_cask removes what is stale beside the version it saw installed.
SweepNext(p) ==
    LET j == job[p]
        stale == StaleDirs(disk, j.inst)
    IN /\ At(p, "sweep")
       /\ IF stale = {} THEN Goes(p, [j EXCEPT !.at = "unlock"], disk)
          ELSE Goes(p, j, [disk EXCEPT !.staged[CHOOSE v \in stale : TRUE] = Gone])
       /\ Quietly

Unlock(p) ==
    /\ At(p, "unlock")
    /\ holder' = Nobody
    /\ Goes(p, Idle, disk)
    /\ UNCHANGED <<clock, mishaps, harm>>

\* A process ends anywhere; the kernel drops its lock.
Kill(p) ==
    /\ job[p].at \notin {"idle", "look", "lock"}
    /\ Mishap
    /\ harm' = harm \cup {"killed"}
    /\ holder' = Nobody
    /\ Goes(p, Idle, disk)
    /\ UNCHANGED clock

-------------------------------------------------------------------------------
(* Specification *)

\* Nothing installed, or version 1 in either directory, with or without the
\* tool; a stranger's app or tool may be in the way.
Clean(foreign, tool) ==
    [staged |-> [v \in Versions |-> Gone], aside |-> [v \in Versions |-> Gone],
     meta |-> [v \in Versions |-> 0], asideMeta |-> [v \in Versions |-> 0],
     receipt |-> <<>>, config |-> None,
     app |-> [dir \in AppDirs |-> IF dir \in foreign THEN Foreign ELSE None], tool |-> tool]
Holding(d, flag, binaries) ==
    [d EXCEPT !.staged[First] = [app |-> DirOf(flag), tool |-> TRUE], !.meta[First] = 1,
              !.receipt = Specs(binaries), !.config = flag, !.app[DirOf(flag)] = First,
              !.tool = IF binaries /\ @ # "formula" THEN First ELSE @]

Init ==
    /\ \E way \in {<<{}, "formula">>, <<{DefaultDir}, None>>, <<AppDirs \ {DefaultDir}, "other">>} :
         LET clean == Clean(way[1], way[2])
         IN disk \in {clean} \cup {Holding(clean, flag, binaries) :
                                    flag \in {Unset} \cup (AppDirs \ way[1]), binaries \in BOOLEAN}
    /\ holder = Nobody
    /\ job = [p \in Procs |-> Idle]
    /\ clock = 1 /\ mishaps = 0
    /\ harm = {}

Next ==
    \E p \in Procs :
        \/ Start(p) \/ LookFirst(p) \/ LookForStale(p) \/ Lock(p) \/ LockBusy(p)
        \/ Decide(p) \/ Fetch(p) \/ Begin(p) \/ ReverseNext(p) \/ Reversed(p) \/ Backup(p)
        \/ Stage(p) \/ Caskfile(p) \/ InstallNext(p) \/ AllInstalled(p) \/ UndoNext(p) \/ Records(p)
        \/ UnrecordNext(p) \/ Purge(p) \/ RestoreStaged(p) \/ RestoreRecords(p) \/ Finish(p)
        \/ DropRecords(p) \/ DropVersion(p) \/ SweepNext(p) \/ Unlock(p) \/ Kill(p)

Spec == Init /\ [][Next]_vars

-------------------------------------------------------------------------------
(* Properties *)

\* Every variable keeps its type, and a process past its lock holds it.
TypeOK ==
    /\ disk \in Disk
    /\ \A p \in Procs : job[p].at \in Places /\ (holder = p <=> job[p].at \notin {"idle", "look", "lock"})
    /\ mishaps \in 0..MaxMishaps

\* The predecessor is back where it was, and nothing of the new version stays.
\* What --force overwrote on the way may be gone, and a tool that the receipt
\* lists is linked also where an earlier roll back had left it out.
Restored(p) ==
    LET j == job[p]
    IN \A d \in j.before :
         /\ disk.staged = d.staged /\ disk.aside = d.aside
         /\ disk.meta = d.meta /\ disk.asideMeta = d.asideMeta
         /\ disk.app[j.old.dir] = d.app[j.old.dir]
         /\ \A dir \in AppDirs : disk.app[dir] \in {d.app[dir], None}
         /\ \/ disk.tool = d.tool
            \/ d.tool = "other" /\ j.opt.force
            \/ d.tool = None /\ disk.tool = j.inst /\ j.old.specs = Kinds

\* A replacement that fails after the predecessor was moved aside leaves it as
\* it was: staged files, caskfile, app and tool, wherever it failed.  (One
\* that an uninstall left half reversed is put back in place.)
WasInPlace(j) == \A d \in j.before : d.staged[j.inst].app = j.old.dir
FailedReplacementRestores ==
    \A p \in Procs : At(p, "unlock") /\ job[p].rolling /\ job[p].backed /\ job[p].opt.binaries
                     /\ WasInPlace(job[p]) /\ harm \subseteq {"misrecorded", "half"} => Restored(p)

\* While a replacement is in flight the predecessor's app is where it was, in
\* its staged directory or in the backup: a kill at any point loses nothing.
\* (It does when an uninstall that failed had left it half reversed.)
PredecessorSomewhere ==
    \A p \in Procs :
        LET j == job[p]
        IN /\ ~At(p, "idle") /\ j.before # {} /\ WasInPlace(j)
           /\ j.at \notin {"finish", "unlock", "records", "version"} /\ harm \subseteq {"half"}
           => \/ j.inst \in {disk.app[dir] : dir \in AppDirs}
              \/ \E dir \in {disk.staged[j.inst], disk.aside[j.inst]} : dir # Gone /\ dir.app = j.inst

\* Between commands, a version that is recorded as installed has its app.
RecordedIsThere ==
    LET v == Installed(disk)
    IN holder = Nobody /\ v # None /\ harm = {} =>
       v \in {disk.app[dir] : dir \in AppDirs} \/ (disk.staged[v] # Gone /\ disk.staged[v].app = v)

\* Between commands, nothing of a cask that is not recorded is left outside of
\* its Caskroom entry: no app nobody can uninstall, no tool that dangles.
UnrecordedLeavesNothing ==
    holder = Nobody /\ Installed(disk) = None /\ harm = {} =>
    /\ \A dir \in AppDirs : disk.app[dir] \notin Versions
    /\ disk.tool \notin Versions
\* Between commands, what is recorded is there and what is there is recorded.
RecordsAreTrue == RecordedIsThere /\ UnrecordedLeavesNothing

\* An app the user put there is only taken by --force or --adopt, also when a
\* forced roll back comes across it.
ForeignAppKept ==
    [][\A dir \in AppDirs : disk.app[dir] = Foreign /\ disk'.app[dir] # Foreign /\ harm = {} =>
         \E p \in Procs : Holds(p) /\ (job[p].opt.force \/ job[p].opt.adopt)]_vars

\* "Any failure puts the predecessor back" (replace_installed): also when an
\* uninstall before it had failed half way.
RecordedIsNeverLost ==
    LET v == Installed(disk)
    IN holder = Nobody /\ v # None /\ harm \subseteq {"half"} =>
       v \in {disk.app[dir] : dir \in AppDirs} \/ (disk.staged[v] # Gone /\ disk.staged[v].app = v)

\* "Another process may have finished a version while the lock was being taken;
\* re-read under it" (cleanup_cask): the sweep spares the installed version.
SweepSparesInstalled ==
    [][\A p \in Procs : At(p, "sweep") /\ Installed(disk) # None /\ disk.staged[Installed(disk)] # Gone =>
         disk'.staged[Installed(disk)] # Gone]_vars

=================================================================================
