------------------------------- MODULE CaskSteps -------------------------------
(***************************************************************************)
(* What the holder of a cask's lock knows, and that each step keeps it.    *)
(* At each of its places it knows where the app, the tool, the records     *)
(* and the backup are, since nobody else changes the disk (Knows), and     *)
(* where what it found there is now (Recalls).  The first is lost when a   *)
(* process is killed or a call breaks half way (harm); the second is kept  *)
(* over records that are written half, as long as harm is Bearable.  The   *)
(* lemma on a step is about a job j, a disk d and the harm h before it     *)
(* and about k, e and g after it: Sound(j, d, h, k, e, g).                 *)
(***************************************************************************)
EXTENDS Cask, FiniteSetTheorems, TLAPS

SpecLists == {<<>>, Kinds, Unlinked}
OldType == [dir : AppDirs, specs : SpecLists]

JobType ==
    [at : Places \ {"idle"}, cmd : AllCommands, opt : AllOptions, new : Versions,
     inst : Versions \cup {None}, dir : AppDirs, specs : SpecLists,
     old : OldType, i : Nat, backed : BOOLEAN, rolling : BOOLEAN,
     failed : BOOLEAN, before : SUBSET Disk]

(* At these places there is a predecessor, or a version to remove. *)
PredecessorAt == {"begin", "reverse", "aside", "asideMeta", "restore", "restoreMeta", "finish",
                  "records", "version", "sweep"}
(* And here there is no backup yet. *)
Early == {"look", "lock", "decide", "fetch", "begin", "reverse", "aside", "asideMeta"}
Removing(j) == j.cmd \in {"uninstall", "zap"}
Installs(j) == j.cmd \in {"install", "reinstall"}

(* A job, and what decides where it may be. *)
JobTyped(j) ==
    /\ j \in JobType
    /\ j.at \in PredecessorAt => j.inst \in Versions
    /\ j.rolling => j.at \in {"install", "undo", "unlock"} /\ j.inst \in Versions
    /\ j.at \in {"look", "lock", "decide", "fetch", "begin", "sweep"} => j.before = {}
    /\ j.inst = None => j.before = {}
    /\ j.at = "look" => ~Installs(j)
    /\ j.at = "lock" /\ ~Installs(j) => j.inst \in Versions
    /\ j.at \in {"reverse", "aside", "asideMeta", "install", "unrecord"} => j.i > 0
    /\ j.at \in {"reverse", "aside", "asideMeta"} => j.old.specs # <<>>
    /\ j.at \in Early => ~j.backed

Past(p) == job[p].at \notin {"idle", "look", "lock"}

(* The lock holder is the only process past its lock. *)
Exclusive == \A p \in Procs : Past(p) <=> holder = p

TypeInv ==
    /\ disk \in Disk
    /\ holder \in Procs \cup {Nobody}
    /\ job \in [Procs -> {Idle} \cup JobType]
    /\ \A p \in Procs : job[p] = Idle \/ JobTyped(job[p])
    /\ clock \in Nat
    /\ mishaps \in Nat /\ mishaps <= MaxMishaps
    /\ Exclusive

(* Where things are on a disk d. *)

(* Nothing is staged or recorded but, perhaps, v. *)
Alone(d, v) == \A w \in Versions : w # v => d.staged[w] = Gone /\ d.meta[w] = 0
NoBackup(d) == \A w \in Versions : d.aside[w] = Gone /\ d.asideMeta[w] = 0
NoApp(d) == \A dir \in AppDirs : d.app[dir] \notin Versions
NoTool(d) == d.tool \notin Versions
ToolOf(d, v, specs) == d.tool \in Versions => d.tool = v /\ specs = Kinds

(* A staged directory with the tool, and the app or what stands for it. *)
Has(dir, app) == dir # Gone /\ dir.tool /\ dir.app = app

(* The app of v is installed in a directory, and leaves its link. *)
In(d, v, dir) ==
    /\ Has(d.staged[v], dir)
    /\ d.app[dir] = v
    /\ \A e \in AppDirs : e # dir => d.app[e] \notin Versions

(* The app is staged, or lost in an earlier reversal, and its place is free. *)
Unpacked(dir, v) == Has(dir, v) \/ Has(dir, None)
Out(d, v, dir) == Unpacked(d.staged[v], v) /\ d.app[dir] = None /\ NoApp(d)

(* v and nothing else is recorded as installed. *)
Recorded(d, v, specs) ==
    /\ v \in Versions
    /\ d.meta[v] > 0
    /\ Alone(d, v)
    /\ NoBackup(d)
    /\ ToolOf(d, v, specs)

(* A cask between commands: nothing, or a version in its place; after an uninstall
   that failed half way (h) its app may be back among its staged files. *)
Nothing(d) == Alone(d, None) /\ NoBackup(d) /\ NoApp(d) /\ NoTool(d)
Something(d, v, h) ==
    /\ Recorded(d, v, d.receipt)
    /\ d.receipt # <<>> /\ d.config # None
    /\ In(d, v, DirOf(d.config)) \/ ("half" \in h /\ Out(d, v, DirOf(d.config)))
AtRest(d, h) == Nothing(d) \/ \E v \in Versions : Something(d, v, h)

(* What a job knows of the disk d. *)

(* The app of the predecessor was not lost before this command. *)
Kept(j, dir) == dir.app = None => ~WasInPlace(j)

(* The records are the predecessor's yet. *)
OldRecords(j, d) ==
    /\ d.config # None /\ j.old.dir = DirOf(d.config)
    /\ d.receipt # <<>> /\ j.old.specs = d.receipt

(* The predecessor is in the backup, with or without its caskfile. *)
Staged(j, d) ==
    /\ Unpacked(d.aside[j.inst], j.inst) /\ Kept(j, d.aside[j.inst])
    /\ \A w \in Versions : w # j.inst => d.aside[w] = Gone
Caskfiled(j, d) ==
    /\ d.asideMeta[j.inst] > 0
    /\ \A w \in Versions : w # j.inst => d.asideMeta[w] = 0
Behind(j, d) == IF j.inst = None THEN NoBackup(d) ELSE Staged(j, d) /\ Caskfiled(j, d)
Replacing(j, d) == Behind(j, d) /\ (j.inst # None => OldRecords(j, d))

(* The place of the predecessor's app is free: nowhere, or but for the new one. *)
Vacant(j, d) == j.inst # None => d.app[j.old.dir] = None
VacantElsewhere(j, d) == j.inst # None /\ j.old.dir # j.dir => d.app[j.old.dir] = None

(* What there is to install, and where. *)
Chosen(j) == j.dir = DirOf(j.opt.appdir) /\ j.specs # <<>>

(* The predecessor as it is found, and with its app staged. *)
Found(j, d) == OldRecords(j, d) /\ Recorded(d, j.inst, j.old.specs)
TakenOut(j, d) == Out(d, j.inst, j.old.dir) /\ Kept(j, d.staged[j.inst])

(* At each of its places. *)
AtReverse(j, d) ==
    /\ Found(j, d)
    /\ \/ In(d, j.inst, j.old.dir) /\ (j.i > 1 => j.failed)
       \/ TakenOut(j, d) /\ (j.i = 1 => ~WasInPlace(j))
    /\ j.i > 2 /\ ~j.failed => NoTool(d)
    /\ Removing(j) \/ Chosen(j)
AtAside(j, d) == j.i = 1 /\ Found(j, d) /\ TakenOut(j, d) /\ NoTool(d) /\ Chosen(j)
AtAsideMeta(j, d) ==
    /\ j.i = 1
    /\ OldRecords(j, d)
    /\ Staged(j, d)
    /\ d.meta[j.inst] > 0
    /\ \A w \in Versions : d.staged[w] = Gone /\ d.asideMeta[w] = 0
    /\ \A w \in Versions : w # j.inst => d.meta[w] = 0
    /\ Vacant(j, d) /\ NoApp(d) /\ NoTool(d)
    /\ Chosen(j)
AtRestore(j, d) == Replacing(j, d) /\ Alone(d, None) /\ Vacant(j, d) /\ NoApp(d) /\ NoTool(d)
AtRestoreMeta(j, d) ==
    /\ OldRecords(j, d)
    /\ Caskfiled(j, d)
    /\ TakenOut(j, d)
    /\ \A w \in Versions : d.aside[w] = Gone /\ d.meta[w] = 0
    /\ \A w \in Versions : w # j.inst => d.staged[w] = Gone
    /\ NoTool(d)
AtRollBack(j, d) == Found(j, d) /\ (In(d, j.inst, j.old.dir) \/ (j.i = 1 /\ TakenOut(j, d)))
AtGiveUp(j, d) == Found(j, d) /\ j.i = 0 /\ Out(d, j.inst, j.old.dir) /\ ~WasInPlace(j)
AtRecords(j, d) == Alone(d, j.inst) /\ NoBackup(d) /\ NoApp(d) /\ NoTool(d)

AtStage(j, d) == Replacing(j, d) /\ Chosen(j) /\ Alone(d, None) /\ Vacant(j, d) /\ NoApp(d) /\ NoTool(d)
AtCaskfile(j, d) ==
    /\ Replacing(j, d) /\ Chosen(j)
    /\ Alone(d, j.new) /\ Has(d.staged[j.new], j.new) /\ d.meta[j.new] = 0
    /\ Vacant(j, d) /\ NoApp(d) /\ NoTool(d)
AtInstall(j, d) ==
    /\ Replacing(j, d) /\ Chosen(j)
    /\ Alone(d, j.new) /\ d.meta[j.new] > 0
    /\ IF j.i = 1 THEN Has(d.staged[j.new], j.new) /\ NoApp(d) /\ Vacant(j, d)
       ELSE In(d, j.new, j.dir) /\ VacantElsewhere(j, d)
    /\ ToolOf(d, j.new, j.specs)
    /\ j.i <= 2 => NoTool(d)
AtUndo(j, d) ==
    /\ Replacing(j, d) /\ j.specs # <<>>
    /\ Alone(d, j.new)
    /\ IF j.i = 0 THEN NoApp(d) /\ Vacant(j, d) ELSE In(d, j.new, j.dir) /\ VacantElsewhere(j, d)
    /\ ToolOf(d, j.new, j.specs)
    /\ j.i < 2 => NoTool(d)
    /\ j.i <= Len(j.specs)
AtUnrecord(j, d) ==
    /\ Replacing(j, d) /\ j.specs # <<>>
    /\ Alone(d, j.new)
    /\ IF j.i = 1 THEN In(d, j.new, j.dir) /\ VacantElsewhere(j, d) ELSE NoApp(d) /\ Vacant(j, d)
    /\ ToolOf(d, j.new, j.specs)
    /\ j.i > 2 => NoTool(d)
AtPurge(j, d) == Replacing(j, d) /\ Alone(d, j.new) /\ Vacant(j, d) /\ NoApp(d) /\ NoTool(d)

(* The new version is installed. *)
Placed(j, d) ==
    /\ Chosen(j)
    /\ Alone(d, j.new) /\ d.meta[j.new] > 0
    /\ In(d, j.new, j.dir)
    /\ ToolOf(d, j.new, j.specs)
AtConfig(j, d) == Replacing(j, d) /\ VacantElsewhere(j, d) /\ Placed(j, d)
AtReceipt(j, d) == Behind(j, d) /\ Placed(j, d) /\ d.config = j.opt.appdir

(* Before anything is touched: what it found is still so. *)
Grounded(j, d) == IF j.inst = None THEN Alone(d, None) ELSE d.meta[j.inst] > 0

Knows(j, d, h) ==
    /\ j.at \in {"decide", "fetch", "begin", "sweep", "unlock"} => AtRest(d, h)
    /\ j.at \in {"fetch", "begin", "sweep"} => Grounded(j, d)
    /\ j.at = "begin" => Removing(j) \/ j.specs # <<>>
    /\ j.at = "reverse" => AtReverse(j, d)
    /\ j.at = "aside" => AtAside(j, d)
    /\ j.at = "asideMeta" => AtAsideMeta(j, d)
    /\ j.at = "stage" => AtStage(j, d)
    /\ j.at = "caskfile" => AtCaskfile(j, d)
    /\ j.at = "install" => IF j.rolling THEN AtRollBack(j, d) ELSE AtInstall(j, d)
    /\ j.at = "undo" => IF j.rolling THEN AtGiveUp(j, d) ELSE AtUndo(j, d)
    /\ j.at = "config" => AtConfig(j, d)
    /\ j.at \in {"receipt", "sha", "finish"} => AtReceipt(j, d)
    /\ j.at \in {"sha", "finish"} => d.receipt = j.specs
    /\ j.at = "unrecord" => AtUnrecord(j, d)
    /\ j.at = "purge" => AtPurge(j, d)
    /\ j.at = "restore" => AtRestore(j, d)
    /\ j.at = "restoreMeta" => AtRestoreMeta(j, d)
    /\ j.at \in {"records", "version"} => AtRecords(j, d)
    /\ h = {} => WasInPlace(j)

(* Nothing went wrong but calls that failed without a trace, and uninstalls that
   stopped half way. *)
Unharmed(h) == h \subseteq {"half"}

(* The records and the backup are as they were; the staged directories, when only
   that of v changes; the apps, when only that of one directory does. *)
SameRest(d, e) ==
    /\ e.aside = d.aside /\ e.asideMeta = d.asideMeta /\ e.meta = d.meta
    /\ e.receipt = d.receipt /\ e.config = d.config
StagedBut(d, e, v) == \A w \in Versions : w # v => e.staged[w] = d.staged[w]
AppsBut(d, e, dir) == \A f \in AppDirs : f # dir => e.app[f] = d.app[f]

(* What is recalled of the predecessor, so that it can be put back as it was.  Unlike
   what is known (Knows) it does not depend on whose the apps are, and it outlives
   records that were written half. *)
Bearable(h) == h \subseteq {"misrecorded", "half"}

(* The disk when the predecessor was first touched, and whether its app was in place. *)
Was(j) == CHOOSE b \in j.before : TRUE
InPlace(j) == Was(j).staged[j.inst].app = j.old.dir

(* A version is staged with its tool, and a link to its app leads to one. *)
Stocked(d, v) ==
    /\ d.staged[v] # Gone /\ d.staged[v].tool
    /\ d.staged[v].app \in AppDirs => d.app[d.staged[v].app] # None
Stands(d, v) == d.meta[v] > 0 /\ Alone(d, v) /\ NoBackup(d) /\ Stocked(d, v)

(* Where a list has the tool, no stranger's is in its place. *)
Fits(d, specs) == d.tool = "other" => specs # Kinds
Stood(d, v) == Stands(d, v) /\ d.receipt # <<>> /\ ToolOf(d, v, d.receipt)
Settled(d) ==
    \/ Alone(d, None) /\ NoBackup(d) /\ NoTool(d)
    \/ \E v \in Versions : Stood(d, v)

(* The predecessor was a version that stood, and its receipt is what is reversed. *)
Origin(j) ==
    /\ j.before = {Was(j)} /\ Was(j) \in Disk
    /\ Stood(Was(j), j.inst) /\ Fits(Was(j), Was(j).receipt)
    /\ j.old.specs = Was(j).receipt

(* Its staged directory, with the app that was in place. *)
Taken(j, dir) ==
    /\ dir # Gone /\ dir.tool /\ dir.app \notin AppDirs
    /\ InPlace(j) => dir.app = Was(j).app[j.old.dir]

(* The apps of the other directories are what they were, or were overwritten and
   then taken away; those of one are not spoken of. *)
AppsWithin(j, d, but) == \A dir \in AppDirs : dir # but => d.app[dir] \in {Was(j).app[dir], None}
AppsLeft(j, d, but) ==
    j.inst # None => AppsWithin(j, d, but) /\ (j.old.dir # but => d.app[j.old.dir] = None)

(* What is at the tool's place once no version's is: what was, or nothing, if that
   was a version's or was overwritten by force. *)
LessTool(j, tool) ==
    \/ tool = Was(j).tool /\ tool \notin Versions
    \/ tool = None /\ (Was(j).tool \in Versions \/ (Was(j).tool = "other" /\ j.opt.force))
ToolLeft(j, d) == LessTool(j, IF d.tool \in Versions THEN None ELSE d.tool)

(* What this run installs, and the backup. *)
Picks(j) == j.specs = Specs(j.opt.binaries)
Aside(j, d) ==
    /\ Taken(j, d.aside[j.inst])
    /\ \A w \in Versions : w # j.inst => d.aside[w] = Gone
AsideMeta(j, d) ==
    /\ d.asideMeta[j.inst] = Was(j).meta[j.inst]
    /\ \A w \in Versions : w # j.inst => d.asideMeta[w] = 0
Receipts(j, d) == d.receipt \in {Was(j).receipt, j.specs}
Saved(j, d) ==
    IF j.inst = None THEN NoBackup(d)
    ELSE Aside(j, d) /\ AsideMeta(j, d) /\ Receipts(j, d) /\ ToolLeft(j, d)

(* A version's app is at a directory, whosever it is. *)
Set(d, v, dir) == Has(d.staged[v], dir) /\ d.app[dir] # None

(* The disk is as it was but for the predecessor's staged files, app and tool. *)
OnlyTouched(j, d) ==
    /\ SameRest(Was(j), d) /\ StagedBut(Was(j), d, j.inst) /\ AppsBut(Was(j), d, j.old.dir)
    /\ d.app[j.old.dir] \in {Was(j).app[j.old.dir], None}
    /\ d.tool = Was(j).tool \/ (d.tool = None /\ Was(j).tool \in Versions)

(* At each of its places. *)
RecallsReverse(j, d) ==
    /\ OnlyTouched(j, d) /\ Stocked(d, j.inst)
    /\ j.i = 1 => d = Was(j)
    /\ j.i > 1 /\ ~j.failed => Taken(j, d.staged[j.inst]) /\ d.app[j.old.dir] = None
    /\ j.i > 2 /\ ~j.failed => NoTool(d)
    /\ Removing(j) \/ Picks(j)
RecallsAside(j, d) ==
    /\ OnlyTouched(j, d)
    /\ Taken(j, d.staged[j.inst]) /\ d.app[j.old.dir] = None /\ NoTool(d) /\ Picks(j)
RecallsAsideMeta(j, d) ==
    /\ Aside(j, d) /\ \A w \in Versions : d.staged[w] = Gone
    /\ d.meta = Was(j).meta /\ d.asideMeta = Was(j).asideMeta /\ d.receipt = Was(j).receipt
    /\ AppsLeft(j, d, None) /\ NoTool(d) /\ ToolLeft(j, d) /\ Picks(j)
RecallsStage(j, d) == Saved(j, d) /\ Picks(j) /\ Alone(d, None) /\ AppsLeft(j, d, None) /\ NoTool(d)
RecallsCaskfile(j, d) ==
    /\ Saved(j, d) /\ Picks(j) /\ AppsLeft(j, d, None) /\ NoTool(d)
    /\ Alone(d, j.new) /\ Has(d.staged[j.new], j.new) /\ d.meta[j.new] = 0
RecallsInstall(j, d) ==
    /\ Saved(j, d) /\ Picks(j) /\ Alone(d, j.new) /\ d.meta[j.new] > 0
    /\ IF j.i = 1 THEN Has(d.staged[j.new], j.new) /\ AppsLeft(j, d, None)
       ELSE Set(d, j.new, j.dir) /\ AppsLeft(j, d, j.dir)
    /\ ToolOf(d, j.new, j.specs)
    /\ j.i <= 2 => NoTool(d)
    /\ j.i > 2 => Fits(d, j.specs)
RecallsPlaced(j, d) ==
    /\ Saved(j, d) /\ Picks(j) /\ Alone(d, j.new) /\ d.meta[j.new] > 0
    /\ Set(d, j.new, j.dir) /\ AppsLeft(j, d, j.dir)
    /\ ToolOf(d, j.new, j.specs) /\ Fits(d, j.specs)
RecallsUndo(j, d) ==
    /\ Saved(j, d) /\ Picks(j) /\ Alone(d, j.new)
    /\ IF j.i = 0 THEN AppsLeft(j, d, None) ELSE Set(d, j.new, j.dir) /\ AppsLeft(j, d, j.dir)
    /\ ToolOf(d, j.new, j.specs)
    /\ j.i < 2 => NoTool(d)
    /\ j.i <= Len(j.specs)
RecallsUnrecord(j, d) ==
    /\ Saved(j, d) /\ Picks(j) /\ Alone(d, j.new)
    /\ IF j.i = 1 THEN Set(d, j.new, j.dir) /\ AppsLeft(j, d, j.dir) ELSE AppsLeft(j, d, None)
    /\ ToolOf(d, j.new, j.specs)
    /\ j.i > 2 => NoTool(d)
RecallsPurge(j, d) == Saved(j, d) /\ Picks(j) /\ Alone(d, j.new) /\ AppsLeft(j, d, None) /\ NoTool(d)
RecallsRestore(j, d) == RecallsStage(j, d)
RecallsRestoreMeta(j, d) ==
    /\ Picks(j) /\ Receipts(j, d) /\ ToolLeft(j, d) /\ NoTool(d)
    /\ Taken(j, d.staged[j.inst]) /\ AsideMeta(j, d)
    /\ \A w \in Versions : d.aside[w] = Gone /\ d.meta[w] = 0
    /\ \A w \in Versions : w # j.inst => d.staged[w] = Gone
    /\ AppsLeft(j, d, None)

(* The tool of the predecessor is there again; a roll back of all that the receipt
   lists links it also where it was not. *)
RollKinds(j) == j.opt.binaries /\ j.old.specs = Kinds
ToolBack(j, d) ==
    \/ d.tool = Was(j).tool
    \/ Was(j).tool = "other" /\ j.opt.force
    \/ Was(j).tool = None /\ d.tool = j.inst /\ j.old.specs = Kinds
Remains(j, d) == Stood(d, j.inst) /\ (RollKinds(j) => d.receipt = Kinds)
ComesBack(j, d) ==
    /\ d.meta = Was(j).meta /\ AppsWithin(j, d, None)
    /\ IF j.i = 1 THEN Taken(j, d.staged[j.inst]) /\ d.app[j.old.dir] = None
       ELSE d.staged = Was(j).staged /\ d.app[j.old.dir] = Was(j).app[j.old.dir]
    /\ j.i <= 2 => NoTool(d)
    /\ IF j.i > 2 /\ RollKinds(j) THEN ToolBack(j, d) ELSE LessTool(j, d.tool)
RecallsRollBack(j, d) == Remains(j, d) /\ (j.backed /\ InPlace(j) => ComesBack(j, d))
RecallsGiveUp(j, d) == Remains(j, d) /\ j.i = 0 /\ (j.backed => ~InPlace(j))

(* The predecessor is back. *)
Back(j, d) ==
    /\ d.staged = Was(j).staged /\ d.aside = Was(j).aside
    /\ d.meta = Was(j).meta /\ d.asideMeta = Was(j).asideMeta
    /\ d.app[j.old.dir] = Was(j).app[j.old.dir] /\ AppsWithin(j, d, None) /\ ToolBack(j, d)
RecallsUnlock(j, d) ==
    /\ Settled(d)
    /\ j.rolling /\ j.backed /\ j.opt.binaries /\ j.before # {} /\ InPlace(j) => Back(j, d)

Recalls(j, d) ==
    /\ Fits(d, d.receipt)
    /\ j.before # {} => Origin(j)
    /\ j.before = {} /\ j.inst # None => j.at \in {"decide", "fetch", "begin", "sweep", "unlock"}
    /\ j.at \in {"decide", "fetch", "begin", "sweep"} => Settled(d)
    /\ j.at \in {"fetch", "begin", "sweep"} => Grounded(j, d)
    /\ j.at = "begin" => Removing(j) \/ Picks(j)
    /\ j.at = "reverse" => RecallsReverse(j, d)
    /\ j.at = "aside" => RecallsAside(j, d)
    /\ j.at = "asideMeta" => RecallsAsideMeta(j, d)
    /\ j.at = "stage" => RecallsStage(j, d)
    /\ j.at = "caskfile" => RecallsCaskfile(j, d)
    /\ j.at = "install" => IF j.rolling THEN RecallsRollBack(j, d) ELSE RecallsInstall(j, d)
    /\ j.at = "undo" => IF j.rolling THEN RecallsGiveUp(j, d) ELSE RecallsUndo(j, d)
    /\ j.at \in {"config", "receipt", "sha", "finish"} => RecallsPlaced(j, d)
    /\ j.at \in {"sha", "finish"} => d.receipt = j.specs
    /\ j.at = "unrecord" => RecallsUnrecord(j, d)
    /\ j.at = "purge" => RecallsPurge(j, d)
    /\ j.at = "restore" => RecallsRestore(j, d)
    /\ j.at = "restoreMeta" => RecallsRestoreMeta(j, d)
    /\ j.at \in {"records", "version"} => Alone(d, j.inst) /\ NoBackup(d) /\ NoTool(d)
    /\ j.at = "unlock" => RecallsUnlock(j, d)

CaskInv ==
    /\ TypeInv
    /\ Unharmed(harm) =>
         /\ holder = Nobody => AtRest(disk, harm)
         /\ \A p \in Procs : Past(p) => Knows(job[p], disk, harm)
    /\ Bearable(harm) =>
         /\ holder = Nobody => Settled(disk) /\ Fits(disk, disk.receipt)
         /\ \A p \in Procs : Past(p) => Recalls(job[p], disk)


-------------------------------------------------------------------------------
(* The disk: what each call makes of it, place by place. *)

(* No directory, version or keyword is mistaken for another. *)
LEMMA NamesDiffer ==
    /\ None \notin Versions \cup AppDirs /\ Foreign \notin Versions \cup AppDirs
    /\ "gone" \notin Versions \cup AppDirs /\ Unset \notin AppDirs
    /\ "formula" \notin Versions /\ "other" \notin Versions
    /\ AppDirs \cap Versions = {}
    /\ None # Foreign /\ None # "gone" /\ Foreign # "gone" /\ Unset # None
BY CaskAssumption DEF None, Foreign, Unset

(* A staged directory is one of its type, and not the missing one. *)
LEMMA StagedDirs ==
    /\ Gone \notin StagedDir
    /\ \A dir \in StagedDir : dir.app \in {None, Foreign} \cup Versions \cup AppDirs /\ dir.tool \in BOOLEAN
    /\ \A a \in {None, Foreign} \cup Versions \cup AppDirs, t \in BOOLEAN : [app |-> a, tool |-> t] \in StagedDir
BY NamesDiffer DEF Gone, StagedDir

AppIs(e, dir, a) == e.app[dir] = a
Leads(s, a) == s # Gone /\ s.app = a

(* What move_artifact moves: the app, or what its link leads to. *)
Source(d, v) == IF d.staged[v].app \in AppDirs THEN d.app[d.staged[v].app] ELSE d.staged[v].app

(* One staged directory and one app are other ones. *)
Put(d, v, s, dir, a) ==
    [d EXCEPT !.staged = [d.staged EXCEPT ![v] = s], !.app = [d.app EXCEPT ![dir] = a]]

(* Such a disk keeps its type, and all else of it is as it was. *)
LEMMA PutDoes ==
    ASSUME NEW d \in Disk, NEW v \in Versions, NEW dir \in AppDirs,
           NEW s \in StagedDir \cup {Gone}, NEW a \in {None, Foreign} \cup Versions
    PROVE  LET e == Put(d, v, s, dir, a)
           IN  /\ e \in Disk
               /\ SameRest(d, e) /\ e.tool = d.tool
               /\ StagedBut(d, e, v) /\ AppsBut(d, e, dir)
               /\ e.staged[v] = s /\ e.app[dir] = a
<1>1. \E S \in [Versions -> StagedDir \cup {Gone}], A \in [AppDirs -> {None, Foreign} \cup Versions] :
        /\ Put(d, v, s, dir, a) = [d EXCEPT !.staged = S, !.app = A]
        /\ S[v] = s /\ \A w \in Versions : w # v => S[w] = d.staged[w]
        /\ A[dir] = a /\ \A f \in AppDirs : f # dir => A[f] = d.app[f]
  <2> DEFINE S == [d.staged EXCEPT ![v] = s]
             A == [d.app EXCEPT ![dir] = a]
  <2>1. S \in [Versions -> StagedDir \cup {Gone}] /\ A \in [AppDirs -> {None, Foreign} \cup Versions]
    BY DEF Disk
  <2>2. S[v] = s /\ A[dir] = a /\ (\A w \in Versions : w # v => S[w] = d.staged[w])
        /\ \A f \in AppDirs : f # dir => A[f] = d.app[f]
    BY DEF Disk
  <2>3. Put(d, v, s, dir, a) = [d EXCEPT !.staged = S, !.app = A]
    BY DEF Put
  <2> HIDE DEF S, A
  <2> QED BY <2>1, <2>2, <2>3
<1> SUFFICES ASSUME NEW S \in [Versions -> StagedDir \cup {Gone}], NEW A \in [AppDirs -> {None, Foreign} \cup Versions],
                    S[v] = s, \A w \in Versions : w # v => S[w] = d.staged[w],
                    A[dir] = a, \A f \in AppDirs : f # dir => A[f] = d.app[f],
                    NEW e, e = [d EXCEPT !.staged = S, !.app = A]
             PROVE  /\ e \in Disk
                    /\ SameRest(d, e) /\ e.tool = d.tool
                    /\ StagedBut(d, e, v) /\ AppsBut(d, e, dir)
                    /\ e.staged[v] = s /\ e.app[dir] = a
  BY ZenonT(120), <1>1
<1>2. e \in Disk
  BY DEF Disk
<1>3. SameRest(d, e) /\ e.tool = d.tool /\ e.staged = S /\ e.app = A
  BY DEF Disk, SameRest
<1> QED BY <1>2, <1>3 DEF StagedBut, AppsBut

(* move_artifact *)
LEMMA MoveAppDoes ==
    ASSUME NEW d \in Disk, NEW v \in Versions, NEW dir \in AppDirs, d.staged[v] # Gone,
           NEW e, e = MoveApp(d, v, dir)
    PROVE  /\ e \in Disk
           /\ SameRest(d, e) /\ e.tool = d.tool
           /\ StagedBut(d, e, v) /\ AppsBut(d, e, dir)
           /\ Leads(e.staged[v], dir)
           /\ AppIs(e, dir, Source(d, v))
           /\ d.staged[v].tool => Has(e.staged[v], dir)
<1>1. d.staged[v] \in StagedDir
  BY DEF Disk
<1>2. [d.staged[v] EXCEPT !.app = dir] = [app |-> dir, tool |-> d.staged[v].tool]
  BY <1>1 DEF StagedDir
<1>3. Source(d, v) \in {None, Foreign} \cup Versions
  BY <1>1, StagedDirs DEF Disk, Source
<1>4. e = Put(d, v, [app |-> dir, tool |-> d.staged[v].tool], dir, Source(d, v))
  BY <1>2 DEF MoveApp, Disk, Source, Put
<1>5. [app |-> dir, tool |-> d.staged[v].tool] \in StagedDir
  BY <1>1, StagedDirs
<1>6. /\ e \in Disk /\ SameRest(d, e) /\ e.tool = d.tool
      /\ StagedBut(d, e, v) /\ AppsBut(d, e, dir)
      /\ e.staged[v] = [app |-> dir, tool |-> d.staged[v].tool]
      /\ e.app[dir] = Source(d, v)
  BY <1>3, <1>4, <1>5, PutDoes
<1>7. AppIs(e, dir, Source(d, v)) /\ Leads(e.staged[v], dir) /\ (d.staged[v].tool => Has(e.staged[v], dir))
  BY <1>6, NamesDiffer DEF AppIs, Leads, Has, Gone
<1> QED BY <1>6, <1>7

(* --adopt *)
LEMMA AdoptAppDoes ==
    ASSUME NEW d \in Disk, NEW v \in Versions, NEW dir \in AppDirs, d.staged[v] # Gone,
           NEW e, e = AdoptApp(d, v, dir)
    PROVE  /\ e \in Disk
           /\ SameRest(d, e) /\ e.tool = d.tool
           /\ StagedBut(d, e, v) /\ AppsBut(d, e, dir)
           /\ Leads(e.staged[v], dir)
           /\ AppIs(e, dir, v)
           /\ d.staged[v].tool => Has(e.staged[v], dir)
<1>1. d.staged[v] \in StagedDir
  BY DEF Disk
<1>2. [d.staged[v] EXCEPT !.app = dir] = [app |-> dir, tool |-> d.staged[v].tool]
  BY <1>1 DEF StagedDir
<1>3. e = Put(d, v, [app |-> dir, tool |-> d.staged[v].tool], dir, v)
  BY <1>2 DEF AdoptApp, Disk, Put
<1>4. [app |-> dir, tool |-> d.staged[v].tool] \in StagedDir
  BY <1>1, StagedDirs
<1>5. /\ e \in Disk /\ SameRest(d, e) /\ e.tool = d.tool
      /\ StagedBut(d, e, v) /\ AppsBut(d, e, dir)
      /\ e.staged[v] = [app |-> dir, tool |-> d.staged[v].tool]
      /\ e.app[dir] = v
  BY <1>3, <1>4, PutDoes
<1>6. AppIs(e, dir, v) /\ Leads(e.staged[v], dir) /\ (d.staged[v].tool => Has(e.staged[v], dir))
  BY <1>5, NamesDiffer DEF AppIs, Leads, Has, Gone
<1> QED BY <1>5, <1>6

(* move_back, where the app is and where it is not *)
LEMMA MoveBackDoes ==
    ASSUME NEW d \in Disk, NEW v \in Versions, NEW dir \in AppDirs, NEW e, e = MoveBack(d, v, dir)
    PROVE  /\ e \in Disk
           /\ SameRest(d, e) /\ e.tool = d.tool
           /\ StagedBut(d, e, v) /\ AppsBut(d, e, dir)
           /\ AppIs(e, dir, None)
           /\ d.staged[v] # Gone /\ d.staged[v].tool => Has(e.staged[v], d.app[dir])
<1> DEFINE s == [app |-> d.app[dir], tool |-> d.staged[v] # Gone /\ d.staged[v].tool]
           t == IF d.staged[v] = Gone THEN Gone ELSE [app |-> None, tool |-> d.staged[v].tool]
<1>1. d.staged[v] \in StagedDir \cup {Gone} /\ d.app[dir] \in {None, Foreign} \cup Versions
  BY DEF Disk
<1>2. s \in StagedDir
  <2>1. (d.staged[v] # Gone /\ d.staged[v].tool) \in BOOLEAN
    BY <1>1, StagedDirs
  <2> QED BY <1>1, <2>1, StagedDirs
<1>3. t \in StagedDir \cup {Gone}
  BY <1>1, StagedDirs
<1>4. CASE d.app[dir] # None
  <2>1. e = Put(d, v, s, dir, None)
    BY <1>4 DEF MoveBack, Disk, Put
  <2>2. e \in Disk /\ SameRest(d, e) /\ e.tool = d.tool /\ StagedBut(d, e, v) /\ AppsBut(d, e, dir)
        /\ e.staged[v] = s /\ e.app[dir] = None
    <3> HIDE DEF s
    <3> QED BY <2>1, <1>2, PutDoes
  <2>3. d.staged[v] # Gone /\ d.staged[v].tool => Has(e.staged[v], d.app[dir])
    <3> SUFFICES ASSUME d.staged[v] # Gone, d.staged[v].tool PROVE Has(e.staged[v], d.app[dir])
      OBVIOUS
    <3>1. e.staged[v].app = d.app[dir]
      BY <2>2
    <3>2. e.staged[v].tool
      <4>1. \A x, y : [app |-> x, tool |-> y].tool = y
        OBVIOUS
      <4>2. e.staged[v].tool = (d.staged[v] # Gone /\ d.staged[v].tool)
        BY <2>2, <4>1
      <4> QED BY <4>2
    <3> QED BY <1>1, <3>1, <3>2, NamesDiffer DEF Has, Gone
  <2> QED BY <2>2, <2>3 DEF AppIs
<1>5. CASE d.app[dir] = None
  <2>1. d.staged[v] # Gone => [d.staged[v] EXCEPT !.app = None] = [app |-> None, tool |-> d.staged[v].tool]
    BY <1>1 DEF StagedDir
  <2>2. [d.app EXCEPT ![dir] = None] = d.app
    BY <1>5 DEF Disk
  <2>3. e = Put(d, v, t, dir, None)
    BY <1>5, <2>1, <2>2 DEF MoveBack, Disk, Put
  <2>4. e \in Disk /\ SameRest(d, e) /\ e.tool = d.tool /\ StagedBut(d, e, v) /\ AppsBut(d, e, dir)
        /\ e.staged[v] = t /\ e.app[dir] = None
    <3> HIDE DEF t
    <3> QED BY <2>3, <1>3, PutDoes
  <2>5. d.staged[v] # Gone /\ d.staged[v].tool => Has(e.staged[v], d.app[dir])
    BY <1>5, <2>4, NamesDiffer DEF Has, Gone
  <2> QED BY <2>4, <2>5 DEF AppIs
<1> QED BY <1>4, <1>5


(* link_artifact *)
LEMMA LinkToolDoes ==
    ASSUME NEW d \in Disk, NEW v \in Versions
    PROVE  LET e == LinkTool(d, v)
           IN  /\ e \in Disk
               /\ SameRest(d, e) /\ e.staged = d.staged /\ e.app = d.app
               /\ e.tool = IF d.tool = "formula" THEN "formula" ELSE v
<1> DEFINE e == LinkTool(d, v)
<1>1. CASE d.tool = "formula"
  BY <1>1 DEF LinkTool, SameRest
<1>2. CASE d.tool # "formula"
  BY <1>2 DEF LinkTool, SameRest, Disk
<1> QED BY <1>1, <1>2

(* unlink_artifact: the link to a version that is there, or to this one, goes. *)
LEMMA UnlinkToolDoes ==
    ASSUME NEW d \in Disk, NEW v \in Versions
    PROVE  LET e == UnlinkTool(d, v)
           IN  /\ e \in Disk
               /\ SameRest(d, e) /\ e.staged = d.staged /\ e.app = d.app
               /\ e.tool = d.tool \/ (e.tool = None /\ d.tool \in Versions)
               /\ e.tool # v
<1>1. CASE d.tool \in Versions /\ (d.tool = v \/ Resolves(d, d.tool))
  BY <1>1, NamesDiffer DEF UnlinkTool, SameRest, Disk
<1>2. CASE ~(d.tool \in Versions /\ (d.tool = v \/ Resolves(d, d.tool)))
  BY <1>2 DEF UnlinkTool, SameRest
<1> QED BY <1>1, <1>2

(* install_one, kind by kind. *)
LEMMA InstallOneIs ==
    ASSUME NEW d, NEW kind, NEW v, NEW dir, NEW opt
    PROVE  /\ kind = "app" => \A e : e \in InstallOne(d, kind, v, dir, opt) <=>
                \/ MayMoveApp(d, v, dir, opt) /\ e = MoveApp(d, v, dir)
                \/ MayAdoptApp(d, v, dir, opt) /\ e = AdoptApp(d, v, dir)
           /\ kind = "binary" => \A e : e \in InstallOne(d, kind, v, dir, opt) <=>
                MayLinkTool(d, v, opt) /\ e = LinkTool(d, v)
           /\ kind \notin {"app", "binary"} => InstallOne(d, kind, v, dir, opt) = {d}
BY DEF InstallOne

(* uninstall_one, kind by kind. *)
LEMMA UninstallOneIs ==
    ASSUME NEW d, NEW kind, NEW v, NEW dir, NEW opt, NEW skip
    PROVE  /\ kind = "app" => \A e : e \in UninstallOne(d, kind, v, dir, opt, skip) <=>
                MayMoveBack(d, v, dir, opt, skip) /\ e = MoveBack(d, v, dir)
           /\ kind = "binary" => UninstallOne(d, kind, v, dir, opt, skip) = {UnlinkTool(d, v)}
           /\ kind \notin {"app", "binary"} => UninstallOne(d, kind, v, dir, opt, skip) = {d}
BY DEF UninstallOne

(* What a call that breaks leaves is a disk. *)
LEMMA TornIsDisk ==
    ASSUME NEW d \in Disk, NEW kind, NEW v \in Versions, NEW dir \in AppDirs, NEW opt
    PROVE  /\ TornInstall(d, kind, v, dir, opt) \subseteq Disk
           /\ TornUninstall(d, kind, v, dir, opt) \subseteq Disk
<1>1. ASSUME NEW e \in TornInstall(d, kind, v, dir, opt) PROVE e \in Disk
  <2>1. MayMoveApp(d, v, dir, opt) /\ e = [MoveApp(d, v, dir) EXCEPT !.staged[v].app = None]
    BY <1>1 DEF TornInstall
  <2>2. MoveApp(d, v, dir) \in Disk /\ MoveApp(d, v, dir).staged[v] \in StagedDir
    <3>1. d.staged[v] # Gone
      BY <2>1 DEF MayMoveApp, HasSource
    <3>2. MoveApp(d, v, dir) \in Disk /\ Leads(MoveApp(d, v, dir).staged[v], dir)
      BY <3>1, MoveAppDoes
    <3> QED BY <3>2 DEF Disk, Leads
  <2>3. [MoveApp(d, v, dir).staged[v] EXCEPT !.app = None] \in StagedDir
    BY <2>2 DEF StagedDir
  <2>4. \A f \in Disk, s \in StagedDir : [f EXCEPT !.staged = [f.staged EXCEPT ![v] = s]] \in Disk
    BY DEF Disk
  <2> QED BY <2>1, <2>2, <2>3, <2>4 DEF Disk
<1>2. ASSUME NEW e \in TornUninstall(d, kind, v, dir, opt) PROVE e \in Disk
  <2>1. e = [MoveBack(d, v, dir) EXCEPT !.app[dir] = d.app[dir]]
    BY <1>2 DEF TornUninstall
  <2>2. MoveBack(d, v, dir) \in Disk
    BY MoveBackDoes
  <2>3. \A f \in Disk, a \in {None, Foreign} \cup Versions :
          [f EXCEPT !.app = [f.app EXCEPT ![dir] = a]] \in Disk
    BY DEF Disk
  <2> QED BY <2>1, <2>2, <2>3 DEF Disk
<1> QED BY <1>1, <1>2

(* Every disk that a kind of artifact is installed or uninstalled to is one. *)
LEMMA OutcomesAreDisks ==
    ASSUME NEW d \in Disk, NEW kind, NEW v \in Versions, NEW dir \in AppDirs, NEW opt, NEW skip
    PROVE  /\ InstallOne(d, kind, v, dir, opt) \subseteq Disk
           /\ UninstallOne(d, kind, v, dir, opt, skip) \subseteq Disk
<1>1. HasSource(d, v) => d.staged[v] # Gone
  BY DEF HasSource
<1>2. CASE kind = "app"
  <2>1. HasSource(d, v) => MoveApp(d, v, dir) \in Disk /\ AdoptApp(d, v, dir) \in Disk
    BY <1>1, MoveAppDoes, AdoptAppDoes
  <2>2. MoveBack(d, v, dir) \in Disk
    BY MoveBackDoes
  <2>3. \A e \in InstallOne(d, kind, v, dir, opt) :
          HasSource(d, v) /\ (e = MoveApp(d, v, dir) \/ e = AdoptApp(d, v, dir))
    BY <1>2, InstallOneIs DEF MayMoveApp, MayAdoptApp
  <2>4. \A e \in UninstallOne(d, kind, v, dir, opt, skip) : e = MoveBack(d, v, dir)
    BY <1>2, UninstallOneIs
  <2> QED BY <2>1, <2>2, <2>3, <2>4
<1>3. CASE kind = "binary"
  <2>1. LinkTool(d, v) \in Disk /\ UnlinkTool(d, v) \in Disk
    BY LinkToolDoes, UnlinkToolDoes
  <2>2. \A e \in InstallOne(d, kind, v, dir, opt) : e = LinkTool(d, v)
    BY <1>3, InstallOneIs
  <2>3. \A e \in UninstallOne(d, kind, v, dir, opt, skip) : e = UnlinkTool(d, v)
    BY <1>3, UninstallOneIs
  <2> QED BY <2>1, <2>2, <2>3
<1>4. CASE kind \notin {"app", "binary"}
  BY <1>4, InstallOneIs, UninstallOneIs
<1> QED BY <1>2, <1>3, <1>4
-------------------------------------------------------------------------------
(* The jobs: what each step makes of one. *)

(* Where a job is, and what it remembers of how it came there. *)
Jump(j, at, i, rolling, failed, backed) ==
    [j EXCEPT !.at = at, !.i = i, !.rolling = rolling, !.failed = failed, !.backed = backed]

(* All else. *)
Keeps(j, k) ==
    /\ k.cmd = j.cmd /\ k.opt = j.opt /\ k.new = j.new /\ k.inst = j.inst
    /\ k.dir = j.dir /\ k.specs = j.specs /\ k.old = j.old /\ k.before = j.before

(* A jump changes the place, the index and the three marks, and nothing else. *)
LEMMA JumpDoes ==
    ASSUME NEW j \in JobType, NEW at \in Places \ {"idle"}, NEW i \in Nat,
           NEW rolling \in BOOLEAN, NEW failed \in BOOLEAN, NEW backed \in BOOLEAN
    PROVE  LET k == Jump(j, at, i, rolling, failed, backed)
           IN  /\ k \in JobType
               /\ Keeps(j, k)
               /\ k.at = at /\ k.i = i /\ k.rolling = rolling /\ k.failed = failed /\ k.backed = backed
<1>1. Jump(j, at, i, rolling, failed, backed) \in JobType
  BY DEF Jump, JobType
<1>2. Keeps(j, Jump(j, at, i, rolling, failed, backed))
  BY DEF Jump, JobType, Keeps
<1> QED BY <1>1, <1>2 DEF Jump, JobType

(* As an argument of Jump a truth value has a name: the provers tell terms from
   formulas. *)
Yes == TRUE
No == FALSE

(* The steps that find a version, that choose what is to be installed, and that read
   the records of what is there. *)
Find(j, at, v) == [j EXCEPT !.at = at, !.inst = v]
Choose(j, at, dir, specs) == [j EXCEPT !.at = at, !.dir = dir, !.specs = specs]
Begun(j, d, old, flag, dir) ==
    [j EXCEPT !.at = "reverse", !.i = 1, !.before = {d}, !.old = old, !.opt.appdir = flag, !.dir = dir]

(* What is found is noted, and nothing else changes. *)
LEMMA FindDoes ==
    ASSUME NEW j \in JobType, NEW at \in Places \ {"idle"}, NEW v \in Versions \cup {None}
    PROVE  LET k == Find(j, at, v)
           IN  /\ k \in JobType
               /\ k.at = at /\ k.inst = v
               /\ k.cmd = j.cmd /\ k.opt = j.opt /\ k.new = j.new /\ k.dir = j.dir /\ k.specs = j.specs
               /\ k.old = j.old /\ k.before = j.before /\ k.i = j.i /\ k.rolling = j.rolling
               /\ k.failed = j.failed /\ k.backed = j.backed
<1>1. Find(j, at, v) \in JobType
  BY DEF JobType, Find
<1> QED BY <1>1 DEF JobType, Find

(* So with what is chosen. *)
LEMMA ChooseDoes ==
    ASSUME NEW j \in JobType, NEW at \in Places \ {"idle"}, NEW dir \in AppDirs, NEW specs \in SpecLists
    PROVE  LET k == Choose(j, at, dir, specs)
           IN  /\ k \in JobType
               /\ k.at = at /\ k.dir = dir /\ k.specs = specs
               /\ k.cmd = j.cmd /\ k.opt = j.opt /\ k.new = j.new /\ k.inst = j.inst
               /\ k.old = j.old /\ k.before = j.before /\ k.i = j.i /\ k.rolling = j.rolling
               /\ k.failed = j.failed /\ k.backed = j.backed
<1>1. Choose(j, at, dir, specs) \in JobType
  BY DEF JobType, Choose
<1> QED BY <1>1 DEF JobType, Choose

(* So with what is read of the records of the predecessor. *)
LEMMA BeginDoes ==
    ASSUME NEW j \in JobType, NEW d \in Disk, NEW old \in OldType,
           NEW flag \in AppDirs \cup {Unset}, NEW dir \in AppDirs
    PROVE  LET k == Begun(j, d, old, flag, dir)
           IN  /\ k \in JobType
               /\ k.at = "reverse" /\ k.i = 1 /\ k.before = {d} /\ k.old = old /\ k.dir = dir
               /\ k.opt.appdir = flag /\ k.opt.force = j.opt.force /\ k.opt.adopt = j.opt.adopt
               /\ k.opt.binaries = j.opt.binaries
               /\ k.cmd = j.cmd /\ k.new = j.new /\ k.inst = j.inst /\ k.specs = j.specs
               /\ k.rolling = j.rolling /\ k.failed = j.failed /\ k.backed = j.backed
<1> DEFINE opt == [j.opt EXCEPT !.appdir = flag]
<1>1. opt \in AllOptions
  BY DEF JobType, AllOptions
<1>2. /\ opt.appdir = flag /\ opt.force = j.opt.force /\ opt.adopt = j.opt.adopt
      /\ opt.binaries = j.opt.binaries
  BY DEF JobType, AllOptions
<1>3. Begun(j, d, old, flag, dir)
      = [j EXCEPT !.at = "reverse", !.i = 1, !.before = {d}, !.old = old, !.opt = opt, !.dir = dir]
  BY DEF JobType, Begun
<1> HIDE DEF opt
<1> DEFINE k == [j EXCEPT !.at = "reverse", !.i = 1, !.before = {d}, !.old = old, !.opt = opt, !.dir = dir]
<1>4. k \in JobType
  BY <1>1 DEF JobType, Places
<1>5. /\ k.at = "reverse" /\ k.i = 1 /\ k.before = {d} /\ k.old = old /\ k.dir = dir /\ k.opt = opt
      /\ k.cmd = j.cmd /\ k.new = j.new /\ k.inst = j.inst /\ k.specs = j.specs
      /\ k.rolling = j.rolling /\ k.failed = j.failed /\ k.backed = j.backed
  BY DEF JobType
<1> QED BY <1>2, <1>3, <1>4, <1>5

(* The job of a command that starts is typed. *)
LEMMA NewJobs ==
    ASSUME NEW at \in {"lock", "look"}, NEW cmd \in AllCommands, NEW opt \in AllOptions, NEW new \in Versions,
           at = IF cmd \in {"install", "reinstall"} THEN "lock" ELSE "look"
    PROVE  JobTyped(Job(at, cmd, opt, new)) /\ Job(at, cmd, opt, new).at = at
<1>1. Job(at, cmd, opt, new) \in JobType
  BY CaskAssumption DEF Job, JobType, OldType, SpecLists, Places
<1>2. /\ Job(at, cmd, opt, new).backed = FALSE
      /\ Job(at, cmd, opt, new).at = at /\ Job(at, cmd, opt, new).cmd = cmd
      /\ Job(at, cmd, opt, new).rolling = FALSE /\ Job(at, cmd, opt, new).before = {}
  BY DEF Job
<1> QED BY <1>1, <1>2 DEF JobTyped, PredecessorAt, Early, Installs

-------------------------------------------------------------------------------
(* The operators that read the disk. *)

(* Of a finite set of versions with caskfiles one has the latest. *)
LEMMA LatestExists ==
    ASSUME NEW S \in SUBSET Versions, S # {}, NEW meta \in [Versions -> Nat]
    PROVE  \E v \in S : \A w \in S : meta[v] >= meta[w]
<1> DEFINE Later(v) == {w \in S : meta[w] > meta[v]}
           T == {Later(v) : v \in S}
<1>1. IsFiniteSet(S)
  BY CaskAssumption, FS_Subset
<1>2. IsWellFoundedOn(StrictSubsetOrdering(S), SUBSET S)
  BY <1>1, FS_StrictSubsetOrderingWellFounded, FS_FiniteSubsetsOfFinite
<1>3. T \subseteq SUBSET S /\ T # {}
  BY ZenonT(120)
<1>4. \E x \in T : \A y \in T : <<y, x>> \notin StrictSubsetOrdering(S)
  <2> HIDE DEF T
  <2> QED BY <1>2, <1>3, WFMin
<1>5. PICK v \in S : \A w \in S : <<Later(w), Later(v)>> \notin StrictSubsetOrdering(S)
  BY <1>4
<1>6. ASSUME NEW w \in S, meta[w] > meta[v] PROVE FALSE
  <2>1. Later(w) \subseteq Later(v)
    BY <1>6
  <2>2. w \in Later(v) /\ w \notin Later(w)
    BY <1>6
  <2>3. <<Later(w), Later(v)>> \in StrictSubsetOrdering(S)
    <3>1. Later(w) # Later(v)
      BY <2>2
    <3>2. Later(w) \in SUBSET S /\ Later(v) \in SUBSET S
      OBVIOUS
    <3> HIDE DEF Later
    <3> QED BY <2>1, <3>1, <3>2 DEF StrictSubsetOrdering
  <2> QED BY <1>5, <2>3
<1> QED BY <1>6

(* installed_cask *)
LEMMA InstalledIs ==
    ASSUME NEW d \in Disk
    PROVE  /\ Installed(d) \in Versions \cup {None}
           /\ Installed(d) # None => d.meta[Installed(d)] > 0
           /\ Installed(d) = None => \A v \in Versions : d.meta[v] = 0
<1> DEFINE recorded == {v \in Versions : d.meta[v] > 0}
<1>1. d.meta \in [Versions -> Nat]
  BY DEF Disk
<1>2. CASE recorded = {}
  BY <1>1, <1>2 DEF Installed
<1>3. CASE recorded # {}
  <2>1. \E v \in recorded : \A w \in recorded : d.meta[v] >= d.meta[w]
    BY <1>1, <1>3, LatestExists
  <2>2. Installed(d) = CHOOSE v \in recorded : \A w \in recorded : d.meta[v] >= d.meta[w]
    BY <1>3 DEF Installed
  <2>3. Installed(d) \in recorded
    <3> HIDE DEF recorded
    <3> QED BY <2>1, <2>2
  <2> QED BY <2>3, NamesDiffer
<1> QED BY <1>2, <1>3

(* Where there is one version, it is the installed one; where there is none, none is. *)
LEMMA InstalledAlone ==
    ASSUME NEW d \in Disk, NEW v, Alone(d, v), v \in Versions => d.meta[v] > 0
    PROVE  Installed(d) = IF v \in Versions THEN v ELSE None
BY SMTT(60), InstalledIs, NamesDiffer DEF Alone, Disk

(* An app always has a directory to go to. *)
LEMMA DirOfIs == \A x : DirOf(x) \in AppDirs
BY CaskAssumption DEF DirOf

(* The kinds in the two lists. *)
LEMMA SpecsAre ==
    /\ Kinds # <<>> /\ Unlinked # <<>> /\ Kinds # Unlinked
    /\ Len(Kinds) = 3 /\ Kinds[1] = "app" /\ Kinds[2] = "binary" /\ Kinds[3] = "postflight_steps"
    /\ Len(Unlinked) = 2 /\ Unlinked[1] = "app" /\ Unlinked[2] = "postflight_steps"
    /\ Len(<<>>) = 0
    /\ \A b : Specs(b) \in {Kinds, Unlinked}
    /\ \A d \in Disk : InstalledSpecs(d) \in {Kinds, Unlinked} /\ InstalledSpecs(d) # <<>>
<1>1. Len(Kinds) = 3 /\ Kinds[1] = "app" /\ Kinds[2] = "binary" /\ Kinds[3] = "postflight_steps"
  BY DEF Kinds
<1>2. Len(Unlinked) = 2 /\ Unlinked[1] = "app" /\ Unlinked[2] = "postflight_steps"
  BY DEF Unlinked
<1>3. Len(<<>>) = 0
  OBVIOUS
<1>4. Kinds # <<>> /\ Unlinked # <<>> /\ Kinds # Unlinked
  BY <1>1, <1>2, <1>3
<1>5. \A b : Specs(b) \in {Kinds, Unlinked}
  BY DEF Specs
<1>6. \A d \in Disk : InstalledSpecs(d) \in {Kinds, Unlinked} /\ InstalledSpecs(d) # <<>>
  BY <1>4 DEF InstalledSpecs, Disk
<1> QED BY <1>1, <1>2, <1>3, <1>4, <1>5, <1>6

-------------------------------------------------------------------------------
(* The steps that move the predecessor, and those that write and drop records. *)

Dirs == [Versions -> StagedDir \cup {Gone}]
Metas == [Versions -> Nat]

WithDirs(d, S, A) == [d EXCEPT !.staged = S, !.aside = A]
WithMetas(d, M, N) == [d EXCEPT !.meta = M, !.asideMeta = N]

SameOutside(d, e) == e.receipt = d.receipt /\ e.config = d.config /\ e.app = d.app /\ e.tool = d.tool
SameDirs(d, e) == e.staged = d.staged /\ e.aside = d.aside
SameMetas(d, e) == e.meta = d.meta /\ e.asideMeta = d.asideMeta
AsideBut(d, e, v) == \A w \in Versions : w # v => e.aside[w] = d.aside[w]
MetaBut(d, e, v) == \A w \in Versions : w # v => e.meta[w] = d.meta[w]
AsideMetaBut(d, e, v) == \A w \in Versions : w # v => e.asideMeta[w] = d.asideMeta[w]

(* The types of a disk's fields. *)
LEMMA DiskIs ==
    ASSUME NEW d \in Disk
    PROVE  /\ d.staged \in Dirs /\ d.aside \in Dirs /\ d.meta \in Metas /\ d.asideMeta \in Metas
           /\ d.receipt \in SpecLists /\ d.config \in AppDirs \cup {Unset, None}
           /\ d.app \in [AppDirs -> {None, Foreign} \cup Versions]
           /\ d.tool \in {None, "formula", "other"} \cup Versions
BY DEF Disk, Dirs, Metas, SpecLists

(* Other directories, or other caskfiles, leave all else of the disk as it was. *)
LEMMA WithDirsDoes ==
    ASSUME NEW d \in Disk, NEW S \in Dirs, NEW A \in Dirs
    PROVE  LET e == WithDirs(d, S, A)
           IN  e \in Disk /\ e.staged = S /\ e.aside = A /\ SameMetas(d, e) /\ SameOutside(d, e)
<1>1. WithDirs(d, S, A) \in Disk
  BY DEF Disk, Dirs, WithDirs
<1> QED BY <1>1 DEF Disk, WithDirs, SameMetas, SameOutside

(* The same for the caskfiles. *)
LEMMA WithMetasDoes ==
    ASSUME NEW d \in Disk, NEW M \in Metas, NEW N \in Metas
    PROVE  LET e == WithMetas(d, M, N)
           IN  e \in Disk /\ e.meta = M /\ e.asideMeta = N /\ SameDirs(d, e) /\ SameOutside(d, e)
<1>1. WithMetas(d, M, N) \in Disk
  BY DEF Disk, Metas, WithMetas
<1> QED BY <1>1 DEF Disk, WithMetas, SameDirs, SameOutside

(* Backup::create: the staged files. *)
LEMMA SetAsideDoes ==
    ASSUME NEW d \in Disk, NEW v \in Versions
    PROVE  LET e == SetAside(d, v)
           IN  /\ e \in Disk /\ SameMetas(d, e) /\ SameOutside(d, e)
               /\ e.staged[v] = Gone /\ StagedBut(d, e, v)
               /\ e.aside[v] = d.staged[v] /\ AsideBut(d, e, v)
<1> DEFINE S == [d.staged EXCEPT ![v] = Gone]
           A == [d.aside EXCEPT ![v] = d.staged[v]]
<1>1. S \in Dirs /\ A \in Dirs
  BY DiskIs DEF Dirs
<1>2. /\ S[v] = Gone /\ \A w \in Versions : w # v => S[w] = d.staged[w]
      /\ A[v] = d.staged[v] /\ \A w \in Versions : w # v => A[w] = d.aside[w]
  BY DiskIs DEF Dirs
<1>3. SetAside(d, v) = WithDirs(d, S, A)
  BY DEF SetAside, WithDirs, Disk
<1> HIDE DEF S, A
<1> QED BY <1>1, <1>2, <1>3, WithDirsDoes DEF StagedBut, AsideBut

(* The caskfile. *)
LEMMA SetAsideMetaDoes ==
    ASSUME NEW d \in Disk, NEW v \in Versions
    PROVE  LET e == SetAsideMeta(d, v)
           IN  /\ e \in Disk /\ SameDirs(d, e) /\ SameOutside(d, e)
               /\ e.meta[v] = 0 /\ MetaBut(d, e, v)
               /\ e.asideMeta[v] = d.meta[v] /\ AsideMetaBut(d, e, v)
<1> DEFINE S == [d.meta EXCEPT ![v] = 0]
           A == [d.asideMeta EXCEPT ![v] = d.meta[v]]
<1>1. S \in Metas /\ A \in Metas
  BY DiskIs DEF Metas
<1>2. /\ S[v] = 0 /\ \A w \in Versions : w # v => S[w] = d.meta[w]
      /\ A[v] = d.meta[v] /\ \A w \in Versions : w # v => A[w] = d.asideMeta[w]
  BY DiskIs DEF Metas
<1>3. SetAsideMeta(d, v) = WithMetas(d, S, A)
  BY DEF SetAsideMeta, WithMetas, Disk
<1> HIDE DEF S, A
<1> QED BY SMTT(60), <1>1, <1>2, <1>3, WithMetasDoes DEF MetaBut, AsideMetaBut

(* Backup::restore: each, where there is a backup of it. *)
LEMMA RestoreDoes ==
    ASSUME NEW d \in Disk, NEW v \in Versions
    PROVE  LET e == Restore(d, v)
           IN  /\ e \in Disk /\ SameMetas(d, e) /\ SameOutside(d, e)
               /\ StagedBut(d, e, v) /\ AsideBut(d, e, v)
               /\ e.aside[v] = Gone
               /\ e.staged[v] = IF d.aside[v] = Gone THEN d.staged[v] ELSE d.aside[v]
<1>1. CASE d.aside[v] = Gone
  BY <1>1 DEF Restore, SameMetas, SameOutside, StagedBut, AsideBut
<1>2. CASE d.aside[v] # Gone
  <2> DEFINE S == [d.staged EXCEPT ![v] = d.aside[v]]
             A == [d.aside EXCEPT ![v] = Gone]
  <2>1. S \in Dirs /\ A \in Dirs
    BY DiskIs DEF Dirs
  <2>2. /\ S[v] = d.aside[v] /\ \A w \in Versions : w # v => S[w] = d.staged[w]
        /\ A[v] = Gone /\ \A w \in Versions : w # v => A[w] = d.aside[w]
    BY DiskIs DEF Dirs
  <2>3. Restore(d, v) = WithDirs(d, S, A)
    BY <1>2 DEF Restore, WithDirs, Disk
  <2> HIDE DEF S, A
  <2> QED BY <1>2, <2>1, <2>2, <2>3, WithDirsDoes DEF StagedBut, AsideBut
<1> QED BY <1>1, <1>2

(* The caskfile comes back in the same way. *)
LEMMA RestoreMetaDoes ==
    ASSUME NEW d \in Disk, NEW v \in Versions
    PROVE  LET e == RestoreMeta(d, v)
           IN  /\ e \in Disk /\ SameDirs(d, e) /\ SameOutside(d, e)
               /\ MetaBut(d, e, v) /\ AsideMetaBut(d, e, v)
               /\ e.asideMeta[v] = 0
               /\ e.meta[v] = IF d.asideMeta[v] = 0 THEN d.meta[v] ELSE d.asideMeta[v]
<1>1. CASE d.asideMeta[v] = 0
  BY <1>1 DEF RestoreMeta, SameDirs, SameOutside, MetaBut, AsideMetaBut
<1>2. CASE d.asideMeta[v] # 0
  <2> DEFINE S == [d.meta EXCEPT ![v] = d.asideMeta[v]]
             A == [d.asideMeta EXCEPT ![v] = 0]
  <2>1. S \in Metas /\ A \in Metas
    BY DiskIs DEF Metas
  <2>2. /\ S[v] = d.asideMeta[v] /\ \A w \in Versions : w # v => S[w] = d.meta[w]
        /\ A[v] = 0 /\ \A w \in Versions : w # v => A[w] = d.asideMeta[w]
    BY DiskIs DEF Metas
  <2>3. RestoreMeta(d, v) = WithMetas(d, S, A)
    BY <1>2 DEF RestoreMeta, WithMetas, Disk
  <2> HIDE DEF S, A
  <2> QED BY <1>2, <2>1, <2>2, <2>3, WithMetasDoes DEF MetaBut, AsideMetaBut
<1> QED BY <1>1, <1>2

(* A backup's half that is dropped. *)
ClearAside(d, v) == [d EXCEPT !.aside[v] = Gone]
ClearAsideMeta(d, v) == [d EXCEPT !.asideMeta[v] = 0]

(* Nothing else of the disk changes. *)
LEMMA ClearDoes ==
    ASSUME NEW d \in Disk, NEW v \in Versions
    PROVE  /\ LET e == ClearAside(d, v)
              IN  /\ e \in Disk /\ SameMetas(d, e) /\ SameOutside(d, e) /\ e.staged = d.staged
                  /\ e.aside[v] = Gone /\ AsideBut(d, e, v)
           /\ LET e == ClearAsideMeta(d, v)
              IN  /\ e \in Disk /\ SameDirs(d, e) /\ SameOutside(d, e) /\ e.meta = d.meta
                  /\ e.asideMeta[v] = 0 /\ AsideMetaBut(d, e, v)
<1> DEFINE A == [d.aside EXCEPT ![v] = Gone]
           N == [d.asideMeta EXCEPT ![v] = 0]
<1>1. A \in Dirs /\ N \in Metas
  BY DiskIs DEF Dirs, Metas
<1>2. /\ A[v] = Gone /\ \A w \in Versions : w # v => A[w] = d.aside[w]
      /\ N[v] = 0 /\ \A w \in Versions : w # v => N[w] = d.asideMeta[w]
  BY DiskIs DEF Dirs, Metas
<1>3. /\ ClearAside(d, v) = WithDirs(d, d.staged, A)
      /\ ClearAsideMeta(d, v) = WithMetas(d, d.meta, N)
  BY DEF WithDirs, WithMetas, Disk, ClearAside, ClearAsideMeta
<1> HIDE DEF A, N
<1>4. LET e == WithDirs(d, d.staged, A)
      IN  /\ e \in Disk /\ SameMetas(d, e) /\ SameOutside(d, e) /\ e.staged = d.staged
          /\ e.aside[v] = Gone /\ AsideBut(d, e, v)
  BY ZenonT(120), <1>1, <1>2, WithDirsDoes, DiskIs DEF AsideBut
<1>5. LET e == WithMetas(d, d.meta, N)
      IN  /\ e \in Disk /\ SameDirs(d, e) /\ SameOutside(d, e) /\ e.meta = d.meta
          /\ e.asideMeta[v] = 0 /\ AsideMetaBut(d, e, v)
  BY ZenonT(120), <1>1, <1>2, WithMetasDoes, DiskIs DEF AsideMetaBut
<1> QED BY <1>3, <1>4, <1>5

(* Backup::purge *)
LEMMA ClearBothDoes ==
    ASSUME NEW d \in Disk, NEW v \in Versions
    PROVE  LET e == [d EXCEPT !.aside[v] = Gone, !.asideMeta[v] = 0]
           IN  /\ e \in Disk /\ SameOutside(d, e) /\ e.staged = d.staged /\ e.meta = d.meta
               /\ e.aside[v] = Gone /\ AsideBut(d, e, v)
               /\ e.asideMeta[v] = 0 /\ AsideMetaBut(d, e, v)
<1> DEFINE f == ClearAside(d, v)
<1>1. /\ f \in Disk /\ SameMetas(d, f) /\ SameOutside(d, f) /\ f.staged = d.staged
      /\ f.aside[v] = Gone /\ AsideBut(d, f, v)
  BY ClearDoes
<1>2. [d EXCEPT !.aside[v] = Gone, !.asideMeta[v] = 0] = ClearAsideMeta(f, v)
  BY DEF Disk, ClearAside, ClearAsideMeta
<1>3. ASSUME NEW g \in Disk, SameMetas(d, g), SameOutside(d, g), g.staged = d.staged, g.aside[v] = Gone, AsideBut(d, g, v),
             NEW e, e = ClearAsideMeta(g, v)
      PROVE  /\ e \in Disk /\ SameOutside(d, e) /\ e.staged = d.staged /\ e.meta = d.meta
             /\ e.aside[v] = Gone /\ AsideBut(d, e, v)
             /\ e.asideMeta[v] = 0 /\ AsideMetaBut(d, e, v)
  <2>1. e \in Disk /\ SameDirs(g, e) /\ SameOutside(g, e) /\ e.meta = g.meta
        /\ e.asideMeta[v] = 0 /\ AsideMetaBut(g, e, v)
    BY <1>3, ClearDoes
  <2> QED BY <1>3, <2>1 DEF SameDirs, SameMetas, SameOutside, AsideBut, AsideMetaBut
<1> HIDE DEF f
<1> QED BY <1>1, <1>2, <1>3

(* The files of a version are put in place, or go, with its caskfile or without. *)
LEMMA PutStagedDoes ==
    ASSUME NEW d \in Disk, NEW v \in Versions, NEW dir \in StagedDir \cup {Gone}
    PROVE  LET e == [d EXCEPT !.staged[v] = dir]
           IN  /\ e \in Disk /\ SameMetas(d, e) /\ SameOutside(d, e) /\ e.aside = d.aside
               /\ e.staged[v] = dir /\ StagedBut(d, e, v)
<1> DEFINE S == [d.staged EXCEPT ![v] = dir]
<1>1. S \in Dirs
  BY DiskIs DEF Dirs
<1>2. S[v] = dir /\ \A w \in Versions : w # v => S[w] = d.staged[w]
  BY DiskIs DEF Dirs
<1>3. [d EXCEPT !.staged[v] = dir] = WithDirs(d, S, d.aside)
  BY DEF WithDirs, Disk
<1> HIDE DEF S
<1>4. LET e == WithDirs(d, S, d.aside)
      IN  e \in Disk /\ e.staged = S /\ e.aside = d.aside /\ SameMetas(d, e) /\ SameOutside(d, e)
  <2>1. d.aside \in Dirs
    BY DiskIs
  <2> QED BY <1>1, <2>1, WithDirsDoes
<1> QED BY <1>2, <1>3, <1>4 DEF StagedBut

DropStaged(d, v) == [d EXCEPT !.staged[v] = Gone, !.meta[v] = 0]

(* The version's files and its caskfile go, and nothing else. *)
LEMMA DropStagedDoes ==
    ASSUME NEW d \in Disk, NEW v \in Versions
    PROVE  LET e == DropStaged(d, v)
           IN  /\ e \in Disk /\ SameOutside(d, e) /\ e.aside = d.aside /\ e.asideMeta = d.asideMeta
               /\ e.staged[v] = Gone /\ StagedBut(d, e, v)
               /\ e.meta[v] = 0 /\ MetaBut(d, e, v)
<1> DEFINE f == [d EXCEPT !.staged[v] = Gone]
           M == [d.meta EXCEPT ![v] = 0]
<1>1. /\ f \in Disk /\ SameMetas(d, f) /\ SameOutside(d, f) /\ f.aside = d.aside
      /\ f.staged[v] = Gone /\ StagedBut(d, f, v)
  BY PutStagedDoes
<1>2. M \in Metas /\ M[v] = 0 /\ \A w \in Versions : w # v => M[w] = d.meta[w]
  BY DiskIs DEF Metas
<1>3. DropStaged(d, v) = WithMetas(f, M, d.asideMeta)
  BY DEF WithMetas, Disk, DropStaged
<1>4. d.asideMeta \in Metas
  BY DiskIs
<1>5. LET e == WithMetas(f, M, d.asideMeta)
      IN  e \in Disk /\ e.meta = M /\ e.asideMeta = d.asideMeta /\ SameDirs(f, e) /\ SameOutside(f, e)
  <2> HIDE DEF f, M
  <2> QED BY <1>1, <1>2, <1>4, WithMetasDoes
<1>6. ASSUME NEW g, NEW e, SameMetas(d, g), SameOutside(d, g), g.aside = d.aside, g.staged[v] = Gone, StagedBut(d, g, v),
             SameDirs(g, e), SameOutside(g, e), e.meta = M
      PROVE  /\ SameOutside(d, e) /\ e.aside = d.aside /\ e.staged[v] = Gone /\ StagedBut(d, e, v)
             /\ e.meta[v] = 0 /\ MetaBut(d, e, v)
  <2> HIDE DEF M
  <2> QED BY <1>2, <1>6 DEF SameDirs, SameOutside, StagedBut, MetaBut
<1>7. ASSUME NEW e, e = WithMetas(f, M, d.asideMeta)
      PROVE  /\ e \in Disk /\ SameOutside(d, e) /\ e.aside = d.aside /\ e.asideMeta = d.asideMeta
             /\ e.staged[v] = Gone /\ StagedBut(d, e, v)
             /\ e.meta[v] = 0 /\ MetaBut(d, e, v)
  <2> HIDE DEF f, M
  <2> QED BY <1>1, <1>5, <1>6, <1>7
<1> QED BY <1>3, <1>7

(* write_caskfile *)
PutMeta(d, M, v, n) == [d EXCEPT !.meta = [M EXCEPT ![v] = n]]

(* The caskfile is written, and what else there was stays as it is given. *)
LEMMA PutMetaDoes ==
    ASSUME NEW d \in Disk, NEW M \in Metas, NEW v \in Versions, NEW n \in Nat
    PROVE  LET e == PutMeta(d, M, v, n)
           IN  /\ e \in Disk /\ SameDirs(d, e) /\ SameOutside(d, e) /\ e.asideMeta = d.asideMeta
               /\ e.meta[v] = n /\ \A w \in Versions : w # v => e.meta[w] = M[w]
<1> DEFINE N == [M EXCEPT ![v] = n]
<1>1. N \in Metas /\ N[v] = n /\ \A w \in Versions : w # v => N[w] = M[w]
  BY DEF Metas
<1>2. [d EXCEPT !.meta = N] = WithMetas(d, N, d.asideMeta)
  BY DEF WithMetas, Disk
<1>3. d.asideMeta \in Metas
  BY DiskIs
<1> HIDE DEF N
<1>4. LET e == WithMetas(d, N, d.asideMeta)
      IN  e \in Disk /\ e.meta = N /\ e.asideMeta = d.asideMeta /\ SameDirs(d, e) /\ SameOutside(d, e)
  BY <1>1, <1>3, WithMetasDoes
<1> QED BY <1>1, <1>2, <1>4 DEF N, PutMeta

(* The config and the receipt. *)
SameFiles(d, e) == SameDirs(d, e) /\ SameMetas(d, e) /\ e.app = d.app /\ e.tool = d.tool

(* They alone change when they are written or dropped. *)
LEMMA PutRecordsDoes ==
    ASSUME NEW d \in Disk, NEW flag \in AppDirs \cup {Unset, None}, NEW specs \in SpecLists
    PROVE  /\ LET e == [d EXCEPT !.config = flag]
              IN  e \in Disk /\ SameFiles(d, e) /\ e.config = flag /\ e.receipt = d.receipt
           /\ LET e == [d EXCEPT !.receipt = specs]
              IN  e \in Disk /\ SameFiles(d, e) /\ e.config = d.config /\ e.receipt = specs
           /\ LET e == [d EXCEPT !.receipt = <<>>, !.config = None]
              IN  e \in Disk /\ SameFiles(d, e) /\ e.config = None /\ e.receipt = <<>>
<1>1. /\ [d EXCEPT !.config = flag] \in Disk
      /\ [d EXCEPT !.receipt = specs] \in Disk
      /\ [d EXCEPT !.receipt = <<>>, !.config = None] \in Disk
  BY DEF Disk, SpecLists
<1> QED BY <1>1 DEF Disk, SameFiles, SameDirs, SameMetas

(* The whole Caskroom entry goes. *)
LEMMA EmptiedDoes ==
    ASSUME NEW d \in Disk
    PROVE  LET e == Emptied(d)
           IN  /\ e \in Disk /\ SameOutside(d, e)
               /\ \A w \in Versions : e.staged[w] = Gone /\ e.aside[w] = Gone /\ e.meta[w] = 0 /\ e.asideMeta[w] = 0
<1> DEFINE S == [v \in Versions |-> Gone]
           M == [v \in Versions |-> 0]
<1>1. S \in Dirs /\ M \in Metas /\ \A w \in Versions : S[w] = Gone /\ M[w] = 0
  BY DEF Dirs, Metas
<1>2. Emptied(d) = WithMetas(WithDirs(d, S, S), M, M)
  BY DEF Emptied, WithMetas, WithDirs, Disk
<1> HIDE DEF S, M
<1>3. LET f == WithDirs(d, S, S)
      IN  f \in Disk /\ f.staged = S /\ f.aside = S /\ SameMetas(d, f) /\ SameOutside(d, f)
  BY <1>1, WithDirsDoes
<1>4. LET f == WithDirs(d, S, S)
          e == WithMetas(f, M, M)
      IN  e \in Disk /\ e.meta = M /\ e.asideMeta = M /\ SameDirs(f, e) /\ SameOutside(f, e)
  BY <1>1, <1>3, WithMetasDoes
<1> QED BY <1>1, <1>2, <1>3, <1>4 DEF SameDirs, SameOutside

-------------------------------------------------------------------------------
(* What a step must show: the job and the disk it leaves have their types, nothing
   that went wrong is forgotten, and the process knows where things are. *)

Comes(k) == JobTyped(k) /\ k.at \notin {"look", "lock"}

Sound(j, d, h, k, e, g) ==
    /\ Comes(k)
    /\ e \in Disk
    /\ h \subseteq g
    /\ (Unharmed(h) => Knows(j, d, h)) => (Unharmed(g) => Knows(k, e, g))
    /\ (Bearable(h) => Recalls(j, d)) => (Bearable(g) => Recalls(k, e))

(* What depends on the part of a job that most steps keep. *)
LEMMA KeepsIs ==
    ASSUME NEW j, NEW k, Keeps(j, k)
    PROVE  /\ WasInPlace(k) <=> WasInPlace(j)
           /\ Removing(k) <=> Removing(j)
           /\ Chosen(k) <=> Chosen(j)
           /\ \A dir : Kept(k, dir) <=> Kept(j, dir)
           /\ \A d : /\ OldRecords(k, d) <=> OldRecords(j, d)
                     /\ Staged(k, d) <=> Staged(j, d)
                     /\ Caskfiled(k, d) <=> Caskfiled(j, d)
                     /\ Behind(k, d) <=> Behind(j, d)
                     /\ Replacing(k, d) <=> Replacing(j, d)
                     /\ Vacant(k, d) <=> Vacant(j, d)
                     /\ VacantElsewhere(k, d) <=> VacantElsewhere(j, d)
                     /\ Found(k, d) <=> Found(j, d)
                     /\ TakenOut(k, d) <=> TakenOut(j, d)
                     /\ Placed(k, d) <=> Placed(j, d)
                     /\ AtReceipt(k, d) <=> AtReceipt(j, d)
                     /\ AtRecords(k, d) <=> AtRecords(j, d)
<1>1. /\ WasInPlace(k) <=> WasInPlace(j)
      /\ Removing(k) <=> Removing(j)
      /\ Chosen(k) <=> Chosen(j)
  BY DEF Keeps, WasInPlace, Removing, Chosen
<1>2. \A dir : Kept(k, dir) <=> Kept(j, dir)
  BY <1>1 DEF Kept
<1>3. \A d : /\ OldRecords(k, d) <=> OldRecords(j, d)
             /\ Vacant(k, d) <=> Vacant(j, d)
             /\ VacantElsewhere(k, d) <=> VacantElsewhere(j, d)
             /\ Caskfiled(k, d) <=> Caskfiled(j, d)
  BY DEF Keeps, OldRecords, Vacant, VacantElsewhere, Caskfiled
<1>4. \A d : Staged(k, d) <=> Staged(j, d)
  BY <1>2 DEF Keeps, Staged
<1>5. \A d : Behind(k, d) <=> Behind(j, d)
  BY <1>3, <1>4 DEF Keeps, Behind
<1>6. \A d : Replacing(k, d) <=> Replacing(j, d)
  BY <1>3, <1>5 DEF Keeps, Replacing
<1>7. \A d : Found(k, d) <=> Found(j, d)
  BY <1>3 DEF Keeps, Found
<1>8. \A d : TakenOut(k, d) <=> TakenOut(j, d)
  BY <1>2 DEF Keeps, TakenOut
<1>9. \A d : Placed(k, d) <=> Placed(j, d)
  BY <1>1 DEF Keeps, Placed
<1>10. \A d : AtReceipt(k, d) <=> AtReceipt(j, d)
  BY <1>5, <1>9 DEF Keeps, AtReceipt
<1>11. \A d : AtRecords(k, d) <=> AtRecords(j, d)
  BY DEF Keeps, AtRecords
<1> QED BY <1>1, <1>2, <1>3, <1>4, <1>5, <1>6, <1>7, <1>8, <1>9, <1>10, <1>11

(* So with what is recalled. *)
LEMMA KeepsRecalled ==
    ASSUME NEW j, NEW k, Keeps(j, k)
    PROVE  /\ Was(k) = Was(j) /\ (InPlace(k) <=> InPlace(j)) /\ (Origin(k) <=> Origin(j))
           /\ (Picks(k) <=> Picks(j)) /\ (RollKinds(k) <=> RollKinds(j))
           /\ \A dir : Taken(k, dir) <=> Taken(j, dir)
           /\ \A tool : LessTool(k, tool) <=> LessTool(j, tool)
           /\ \A d, but : /\ AppsWithin(k, d, but) <=> AppsWithin(j, d, but)
                          /\ AppsLeft(k, d, but) <=> AppsLeft(j, d, but)
           /\ \A d : /\ ToolLeft(k, d) <=> ToolLeft(j, d)
                     /\ Aside(k, d) <=> Aside(j, d)
                     /\ AsideMeta(k, d) <=> AsideMeta(j, d)
                     /\ Receipts(k, d) <=> Receipts(j, d)
                     /\ Saved(k, d) <=> Saved(j, d)
                     /\ OnlyTouched(k, d) <=> OnlyTouched(j, d)
                     /\ Remains(k, d) <=> Remains(j, d)
                     /\ ToolBack(k, d) <=> ToolBack(j, d)
                     /\ Back(k, d) <=> Back(j, d)
                     /\ RecallsPlaced(k, d) <=> RecallsPlaced(j, d)
<1>1. Was(k) = Was(j) /\ (Picks(k) <=> Picks(j)) /\ (RollKinds(k) <=> RollKinds(j))
  BY DEF Keeps, Was, Picks, RollKinds
<1>2. InPlace(k) <=> InPlace(j)
  BY <1>1 DEF Keeps, InPlace
<1>3. Origin(k) <=> Origin(j)
  BY <1>1 DEF Keeps, Origin
<1>4. \A dir : Taken(k, dir) <=> Taken(j, dir)
  BY <1>1, <1>2 DEF Keeps, Taken
<1>5. \A tool : LessTool(k, tool) <=> LessTool(j, tool)
  BY <1>1 DEF Keeps, LessTool
<1>6. \A d, but : AppsWithin(k, d, but) <=> AppsWithin(j, d, but)
  BY <1>1 DEF AppsWithin
<1>7. \A d, but : AppsLeft(k, d, but) <=> AppsLeft(j, d, but)
  BY <1>6 DEF Keeps, AppsLeft
<1>8. \A d : ToolLeft(k, d) <=> ToolLeft(j, d)
  BY <1>5 DEF ToolLeft
<1>9. \A d : Aside(k, d) <=> Aside(j, d)
  BY <1>4 DEF Keeps, Aside
<1>10. \A d : (AsideMeta(k, d) <=> AsideMeta(j, d)) /\ (Receipts(k, d) <=> Receipts(j, d))
  BY <1>1 DEF Keeps, AsideMeta, Receipts
<1>11. \A d : Saved(k, d) <=> Saved(j, d)
  BY <1>8, <1>9, <1>10 DEF Keeps, Saved
<1>12. \A d : OnlyTouched(k, d) <=> OnlyTouched(j, d)
  BY <1>1 DEF Keeps, OnlyTouched
<1>13. \A d : Remains(k, d) <=> Remains(j, d)
  BY <1>1 DEF Keeps, Remains
<1>14. \A d : ToolBack(k, d) <=> ToolBack(j, d)
  BY <1>1 DEF Keeps, ToolBack
<1>15. \A d : Back(k, d) <=> Back(j, d)
  BY <1>1, <1>6, <1>14 DEF Keeps, Back
<1>16. \A d : RecallsPlaced(k, d) <=> RecallsPlaced(j, d)
  BY <1>1, <1>7, <1>11 DEF Keeps, RecallsPlaced
<1> QED BY <1>1, <1>2, <1>3, <1>4, <1>5, <1>6, <1>7, <1>8, <1>9, <1>10, <1>11, <1>12, <1>13, <1>14, <1>15, <1>16

(* What was recalled stays so for a job that goes on, and there is a predecessor to
   recall when it has one and has touched it. *)
LEMMA StillRecalls ==
    ASSUME NEW j, NEW k, Keeps(j, k), JobTyped(j), NEW d, Recalls(j, d)
    PROVE  /\ Fits(d, d.receipt)
           /\ k.before # {} => Origin(k)
           /\ j.at \notin {"decide", "fetch", "begin", "sweep", "unlock"} =>
                /\ k.inst # None => k.before # {}
                /\ j.inst # None => Origin(j)
           /\ j.inst = None => k.before = {}
<1>1. /\ Fits(d, d.receipt)
      /\ j.before # {} => Origin(j)
      /\ j.at \notin {"decide", "fetch", "begin", "sweep", "unlock"} => (j.inst # None => j.before # {})
  BY DEF Recalls
<1>2. j.inst = None => j.before = {}
  BY DEF JobTyped
<1> QED BY <1>1, <1>2, KeepsRecalled DEF Keeps

(* A place a job may come to, past the lock. *)
MayBe(j, at, i, rolling, failed, backed) ==
    /\ at \in Places /\ at \notin {"idle", "look", "lock"}
    /\ i \in Nat /\ rolling \in BOOLEAN /\ failed \in BOOLEAN /\ backed \in BOOLEAN
    /\ at \in PredecessorAt => j.inst \in Versions
    /\ rolling => at \in {"install", "undo", "unlock"} /\ j.inst \in Versions
    /\ at \in {"reverse", "aside", "asideMeta", "install", "unrecord"} => i > 0
    /\ at \in {"reverse", "aside", "asideMeta"} => j.old.specs # <<>>
    /\ at \in {"decide", "fetch", "begin", "sweep"} => j.before = {}
    /\ at \in Early => ~backed

(* A job that jumps there is typed. *)
LEMMA JumpTyped ==
    ASSUME NEW j, JobTyped(j), NEW at, NEW i, NEW rolling, NEW failed, NEW backed,
           MayBe(j, at, i, rolling, failed, backed)
    PROVE  LET k == Jump(j, at, i, rolling, failed, backed)
           IN  /\ Comes(k) /\ Keeps(j, k)
               /\ k.at = at /\ k.i = i /\ k.rolling = rolling /\ k.failed = failed /\ k.backed = backed
<1>1. j \in JobType
  BY DEF JobTyped
<1>2. ASSUME NEW k, k = Jump(j, at, i, rolling, failed, backed)
      PROVE  /\ Comes(k) /\ Keeps(j, k)
             /\ k.at = at /\ k.i = i /\ k.rolling = rolling /\ k.failed = failed /\ k.backed = backed
  <2>0. at \in Places \ {"idle"} /\ i \in Nat /\ rolling \in BOOLEAN /\ failed \in BOOLEAN /\ backed \in BOOLEAN
    BY DEF MayBe
  <2>1. /\ k \in JobType /\ Keeps(j, k)
        /\ k.at = at /\ k.i = i /\ k.rolling = rolling /\ k.failed = failed /\ k.backed = backed
    BY <1>1, <1>2, <2>0, JumpDoes
  <2> QED BY <2>1 DEF JobTyped, Keeps, MayBe, Comes
<1> QED BY <1>2

(* What depends on the backup, the records and the apps alone. *)
LEMMA SameBackup ==
    ASSUME NEW d, NEW e, e.aside = d.aside, e.asideMeta = d.asideMeta
    PROVE  /\ NoBackup(e) <=> NoBackup(d)
           /\ \A j : Behind(j, e) <=> Behind(j, d)
           /\ e.config = d.config /\ e.receipt = d.receipt => \A j : Replacing(j, e) <=> Replacing(j, d)
<1>1. NoBackup(e) <=> NoBackup(d)
  BY DEF NoBackup
<1>2. \A j : Staged(j, e) <=> Staged(j, d)
  BY DEF Staged
<1>3. \A j : Caskfiled(j, e) <=> Caskfiled(j, d)
  BY DEF Caskfiled
<1>4. \A j : Behind(j, e) <=> Behind(j, d)
  BY <1>1, <1>2, <1>3 DEF Behind
<1>5. ASSUME e.config = d.config, e.receipt = d.receipt PROVE \A j : Replacing(j, e) <=> Replacing(j, d)
  <2>1. \A j : OldRecords(j, e) <=> OldRecords(j, d)
    BY <1>5 DEF OldRecords
  <2> QED BY <1>4, <2>1 DEF Replacing
<1> QED BY <1>1, <1>4, <1>5

(* And on the apps alone. *)
LEMMA SameApps ==
    ASSUME NEW d, NEW e, e.app = d.app
    PROVE  /\ NoApp(e) <=> NoApp(d)
           /\ \A j : /\ Vacant(j, e) <=> Vacant(j, d)
                     /\ VacantElsewhere(j, e) <=> VacantElsewhere(j, d)
BY DEF NoApp, Vacant, VacantElsewhere

(* The backup that is recalled, when the tool changes at most as a version's may. *)
LEMMA SameSaved ==
    ASSUME NEW d, NEW e, e.aside = d.aside, e.asideMeta = d.asideMeta, e.receipt = d.receipt,
           e.tool = d.tool \/ (e.tool = None /\ d.tool \in Versions)
    PROVE  /\ \A j : Saved(j, d) => Saved(j, e)
           /\ Fits(d, d.receipt) => Fits(e, e.receipt)
           /\ \A specs : Fits(d, specs) => Fits(e, specs)
           /\ NoTool(d) => NoTool(e)
           /\ \A v, specs : ToolOf(d, v, specs) => ToolOf(e, v, specs)
<1>1. \A j : Aside(j, d) => Aside(j, e)
  BY DEF Aside
<1>2. \A j : (AsideMeta(j, d) => AsideMeta(j, e)) /\ (Receipts(j, d) => Receipts(j, e))
  BY DEF AsideMeta, Receipts
<1>3. \A j : ToolLeft(j, d) => ToolLeft(j, e)
  BY NamesDiffer DEF ToolLeft
<1>4. NoBackup(d) => NoBackup(e)
  BY DEF NoBackup
<1>5. \A j : Saved(j, d) => Saved(j, e)
  BY <1>1, <1>2, <1>3, <1>4 DEF Saved
<1>6. \A specs : Fits(d, specs) => Fits(e, specs)
  BY NamesDiffer DEF Fits, None
<1>7. NoTool(d) => NoTool(e)
  BY NamesDiffer DEF NoTool
<1>8. \A v, specs : ToolOf(d, v, specs) => ToolOf(e, v, specs)
  BY NamesDiffer DEF ToolOf
<1> QED BY <1>5, <1>6, <1>7, <1>8

(* The apps that are recalled. *)
LEMMA SameAppsLeft ==
    ASSUME NEW d, NEW e, e.app = d.app
    PROVE  \A j, but : /\ AppsWithin(j, e, but) <=> AppsWithin(j, d, but)
                       /\ AppsLeft(j, e, but) <=> AppsLeft(j, d, but)
BY DEF AppsWithin, AppsLeft

(* The types of a job's fields. *)
LEMMA JobPlaceIs ==
    ASSUME NEW j, JobTyped(j)
    PROVE  j.i \in Nat /\ j.rolling \in BOOLEAN /\ j.failed \in BOOLEAN /\ j.backed \in BOOLEAN
BY DEF JobTyped, JobType

(* The types of all of a job's fields. *)
LEMMA JobIs ==
    ASSUME NEW j, JobTyped(j)
    PROVE  /\ j \in JobType
           /\ j.at \in Places \ {"idle"} /\ j.cmd \in AllCommands /\ j.opt \in AllOptions /\ j.new \in Versions
           /\ j.inst \in Versions \cup {None} /\ j.dir \in AppDirs /\ j.specs \in SpecLists
           /\ j.old.dir \in AppDirs /\ j.old.specs \in SpecLists /\ j.i \in Nat
           /\ j.backed \in BOOLEAN /\ j.rolling \in BOOLEAN /\ j.failed \in BOOLEAN /\ j.before \in SUBSET Disk
BY DEF JobTyped, JobType, OldType

-------------------------------------------------------------------------------
(* The steps of a replacement that fails or is finished. *)

(* purge_versioned_files: what there is of the new version goes. *)
LEMMA PurgeIsSound ==
    ASSUME NEW j, JobTyped(j), j.at = "purge", NEW d \in Disk, NEW h, NEW k, NEW e,
           k = Jump(j, IF j.inst = None THEN "unlock" ELSE "restore", j.i, j.rolling, j.failed, j.backed),
           e = DropStaged(d, j.new)
    PROVE  Sound(j, d, h, k, e, h)
<1>1. /\ Comes(k) /\ Keeps(j, k)
      /\ k.at = IF j.inst = None THEN "unlock" ELSE "restore"
  <2>1. ~j.rolling /\ j.inst \in Versions \cup {None}
    BY JobIs DEF JobTyped
  <2>2. MayBe(j, IF j.inst = None THEN "unlock" ELSE "restore", j.i, j.rolling, j.failed, j.backed)
    BY <2>1, JobPlaceIs DEF MayBe, Places, PredecessorAt, Early
  <2> QED BY <2>2, JumpTyped
<1>2. /\ e \in Disk /\ SameOutside(d, e) /\ e.aside = d.aside /\ e.asideMeta = d.asideMeta
      /\ e.staged[j.new] = Gone /\ StagedBut(d, e, j.new)
      /\ e.meta[j.new] = 0 /\ MetaBut(d, e, j.new)
  BY JobIs, DropStagedDoes
<1>3. ASSUME Unharmed(h), Knows(j, d, h) PROVE Knows(k, e, h)
  <2>1. AtPurge(j, d) /\ (h = {} => WasInPlace(k))
    BY <1>1, <1>3, KeepsIs DEF Knows
  <2>2. Alone(e, None) /\ NoApp(e) /\ NoTool(e)
    BY <1>2, <2>1, NamesDiffer DEF AtPurge, Alone, NoApp, NoTool, SameOutside, StagedBut, MetaBut
  <2>3. CASE j.inst = None
    <3>1. NoBackup(e)
      BY <1>2, <2>1, <2>3 DEF AtPurge, Replacing, Behind, NoBackup
    <3>2. Nothing(e)
      BY <2>2, <3>1 DEF Nothing
    <3> QED BY <1>1, <2>1, <2>3, <3>2 DEF Knows, AtRest
  <2>4. CASE j.inst # None
    <3>1. Replacing(j, e) /\ Vacant(j, e)
      BY <1>2, <2>1, SameBackup, SameApps DEF AtPurge, SameOutside
    <3>2. AtRestore(k, e)
      BY <1>1, <2>2, <3>1, KeepsIs DEF AtRestore
    <3> QED BY <1>1, <2>1, <2>4, <3>2 DEF Knows
  <2> QED BY <2>3, <2>4
<1>4. ASSUME Bearable(h), Recalls(j, d) PROVE Recalls(k, e)
  <2>1. RecallsPurge(j, d) /\ Picks(k)
    BY <1>1, <1>4, KeepsRecalled DEF Recalls, RecallsPurge
  <2>2. Fits(e, e.receipt) /\ (k.before # {} => Origin(k)) /\ (k.inst # None => k.before # {}) /\ (j.inst = None => k.before = {})
    BY <1>1, <1>2, <1>4, StillRecalls, SameSaved DEF SameOutside
  <2>3. Alone(e, None) /\ NoTool(e)
    BY <1>2, <2>1, NamesDiffer DEF RecallsPurge, Alone, NoTool, SameOutside, StagedBut, MetaBut
  <2>4. Saved(j, e) /\ AppsLeft(j, e, None)
    BY <1>2, <2>1, SameSaved, SameAppsLeft DEF RecallsPurge, SameOutside
  <2>5. CASE j.inst = None
    <3>1. RecallsUnlock(k, e)
      BY <2>2, <2>3, <2>4, <2>5 DEF RecallsUnlock, Settled, Saved
    <3> QED BY <1>1, <2>2, <2>5, <3>1 DEF Recalls
  <2>6. CASE j.inst # None
    <3>1. RecallsRestore(k, e)
      BY <1>1, <2>1, <2>3, <2>4, KeepsRecalled DEF RecallsRestore, RecallsStage
    <3> QED BY <1>1, <2>2, <2>6, <3>1 DEF Recalls
  <2> QED BY <2>5, <2>6
<1> QED BY <1>1, <1>2, <1>3, <1>4 DEF Sound

(* Backup::restore: the staged files, then the caskfile. *)
LEMMA RestoreStagedIsSound ==
    ASSUME NEW j, JobTyped(j), j.at = "restore", NEW d \in Disk, NEW h, NEW k, NEW e,
           k = Jump(j, "restoreMeta", j.i, j.rolling, j.failed, j.backed),
           e = Restore(d, j.inst)
    PROVE  Sound(j, d, h, k, e, h)
<1>0. j.inst \in Versions /\ ~j.rolling
  BY DEF JobTyped, PredecessorAt
<1>1. Comes(k) /\ Keeps(j, k) /\ k.at = "restoreMeta"
  <2>1. MayBe(j, "restoreMeta", j.i, j.rolling, j.failed, j.backed)
    BY <1>0, JobPlaceIs DEF MayBe, Places, PredecessorAt, Early, Yes
  <2> QED BY <2>1, JumpTyped
<1>2. /\ e \in Disk /\ SameMetas(d, e) /\ SameOutside(d, e)
      /\ StagedBut(d, e, j.inst) /\ AsideBut(d, e, j.inst)
      /\ e.aside[j.inst] = Gone
      /\ e.staged[j.inst] = IF d.aside[j.inst] = Gone THEN d.staged[j.inst] ELSE d.aside[j.inst]
  BY <1>0, RestoreDoes
<1>3. ASSUME Unharmed(h), Knows(j, d, h) PROVE Knows(k, e, h)
  <2>1. AtRestore(j, d) /\ (h = {} => WasInPlace(k))
    BY <1>1, <1>3, KeepsIs DEF Knows
  <2>2. Staged(j, d) /\ Caskfiled(j, d) /\ OldRecords(j, d)
    BY <1>0, <2>1, NamesDiffer DEF AtRestore, Replacing, Behind
  <2>3. OldRecords(j, e) /\ Caskfiled(j, e) /\ NoTool(e)
    BY <1>2, <2>1, <2>2 DEF OldRecords, Caskfiled, NoTool, AtRestore, SameOutside, SameMetas
  <2>4. e.staged[j.inst] = d.aside[j.inst]
    BY <1>2, <2>2 DEF Staged, Unpacked, Has
  <2>5. TakenOut(j, e)
    BY <1>0, <1>2, <2>1, <2>2, <2>4, NamesDiffer
    DEF TakenOut, Out, Staged, Kept, AtRestore, Vacant, NoApp, SameOutside
  <2>6. \A w \in Versions : e.aside[w] = Gone /\ e.meta[w] = 0
    BY <1>2, <2>1, <2>2, NamesDiffer DEF Staged, AsideBut, AtRestore, Alone, SameMetas
  <2>7. \A w \in Versions : w # j.inst => e.staged[w] = Gone
    BY <1>2, <2>1, NamesDiffer DEF AtRestore, Alone, StagedBut
  <2>8. AtRestoreMeta(j, e)
    BY <2>3, <2>5, <2>6, <2>7 DEF AtRestoreMeta
  <2>9. AtRestoreMeta(k, e)
    BY <1>1, <2>8, KeepsIs DEF AtRestoreMeta, Keeps
  <2> QED BY <1>1, <2>1, <2>9 DEF Knows
<1>4. ASSUME Bearable(h), Recalls(j, d) PROVE Recalls(k, e)
  <2>1. RecallsStage(j, d)
    BY <1>4 DEF Recalls, RecallsRestore
  <2>2. Fits(e, e.receipt) /\ (k.before # {} => Origin(k)) /\ (k.inst # None => k.before # {})
    BY <1>1, <1>2, <1>4, StillRecalls DEF Fits, SameOutside
  <2>3. Aside(j, d) /\ AsideMeta(j, d) /\ Receipts(j, d) /\ ToolLeft(j, d)
    BY <1>0, <2>1, NamesDiffer DEF RecallsStage, Saved
  <2>4. Taken(j, e.staged[j.inst])
    BY <1>2, <2>3 DEF Aside, Taken
  <2>5. AsideMeta(j, e) /\ Receipts(j, e) /\ ToolLeft(j, e) /\ NoTool(e) /\ AppsLeft(j, e, None)
    BY <1>2, <2>1, <2>3, SameAppsLeft
    DEF RecallsStage, AsideMeta, Receipts, ToolLeft, NoTool, SameOutside, SameMetas
  <2>6. /\ \A w \in Versions : e.aside[w] = Gone /\ e.meta[w] = 0
        /\ \A w \in Versions : w # j.inst => e.staged[w] = Gone
    BY <1>2, <2>1, <2>3, NamesDiffer DEF RecallsStage, Aside, AsideBut, Alone, StagedBut, SameMetas
  <2>7. RecallsRestoreMeta(k, e)
    <3>1. Picks(k) /\ Receipts(k, e) /\ ToolLeft(k, e) /\ AsideMeta(k, e) /\ AppsLeft(k, e, None)
      BY <1>1, <2>1, <2>5, KeepsRecalled DEF RecallsStage
    <3>2. Taken(k, e.staged[k.inst]) /\ k.inst = j.inst
      BY <1>1, <2>4, KeepsRecalled DEF Keeps
    <3> QED BY <2>5, <2>6, <3>1, <3>2 DEF RecallsRestoreMeta
  <2> QED BY <1>1, <2>2, <2>7 DEF Recalls
<1> QED BY <1>1, <1>2, <1>3, <1>4 DEF Sound

(* A disk where the predecessor is staged and recorded again, and its place free. *)
LEMMA PutBack ==
    ASSUME NEW j, JobTyped(j), j.inst \in Versions, NEW e, OldRecords(j, e), e.meta[j.inst] > 0,
           \A w \in Versions : w # j.inst => e.staged[w] = Gone /\ e.meta[w] = 0,
           NoBackup(e), NoTool(e), TakenOut(j, e), NEW k, Keeps(j, k), k.i = 1
    PROVE  AtRollBack(k, e)
<1>1. Recorded(e, j.inst, j.old.specs)
  BY DEF Recorded, Alone, ToolOf, NoTool
<1>2. Found(j, e)
  BY <1>1 DEF Found
<1> QED BY <1>2, KeepsIs DEF AtRollBack

(* What stood is there again, and what is to be linked of it is in its receipt. *)
LEMMA StandsAgain ==
    ASSUME NEW j, j.inst \in Versions, NEW e, Origin(j), Picks(j), Receipts(j, e),
           Taken(j, e.staged[j.inst]), NoTool(e), NoBackup(e),
           Alone(e, j.inst), e.meta[j.inst] = Was(j).meta[j.inst], NEW k, Keeps(j, k)
    PROVE  Remains(k, e)
<1>1. Stood(Was(j), j.inst) /\ j.old.specs = Was(j).receipt
  BY DEF Origin
<1>2. e.receipt # <<>> /\ (RollKinds(j) => e.receipt = Kinds)
  <2>1. \A b : Specs(b) # <<>>
    BY SpecsAre
  <2>2. j.opt.binaries => Specs(j.opt.binaries) = Kinds
    BY DEF Specs
  <2> QED BY <1>1, <2>1, <2>2 DEF Receipts, Picks, Stood, RollKinds
<1>3. Stood(e, j.inst)
  BY <1>1, <1>2 DEF Stood, Stands, Stocked, Taken, ToolOf, NoTool
<1>4. Remains(j, e)
  BY <1>2, <1>3 DEF Remains
<1> QED BY <1>4, KeepsRecalled

(* Where it was, as far as it is recalled. *)
LEMMA RollsBack ==
    ASSUME NEW j, JobTyped(j), j.inst \in Versions, NEW e \in Disk, Origin(j), Picks(j), Receipts(j, e),
           Taken(j, e.staged[j.inst]), NoTool(e), ToolLeft(j, e), AppsLeft(j, e, None), NoBackup(e),
           Alone(e, j.inst), e.meta[j.inst] = Was(j).meta[j.inst], NEW k, Keeps(j, k), k.i = 1
    PROVE  RecallsRollBack(k, e)
<1>1. Stood(Was(j), j.inst) /\ Was(j) \in Disk
  BY DEF Origin
<1>2. e.meta = Was(j).meta
  <2>1. \A w \in Versions : e.meta[w] = Was(j).meta[w]
    BY <1>1 DEF Stood, Stands, Alone
  <2>2. e.meta \in [Versions -> Nat] /\ Was(j).meta \in [Versions -> Nat]
    BY <1>1 DEF Disk
  <2> QED BY <2>1, <2>2
<1>3. AppsWithin(j, e, None) /\ e.app[j.old.dir] = None
  BY NamesDiffer, JobIs DEF AppsLeft
<1>4. LessTool(j, e.tool)
  BY DEF ToolLeft, NoTool
<1>5. Remains(k, e)
  BY StandsAgain
<1>6. ComesBack(k, e)
  <2>1. Taken(k, e.staged[k.inst]) /\ e.app[k.old.dir] = None /\ Was(k) = Was(j)
    BY <1>3, KeepsRecalled DEF Keeps
  <2>2. AppsWithin(k, e, None) /\ LessTool(k, e.tool)
    BY <1>3, <1>4, KeepsRecalled
  <2> QED BY <1>2, <2>1, <2>2 DEF ComesBack
<1> QED BY <1>5, <1>6 DEF RecallsRollBack

(* With its caskfile the predecessor is recorded again. *)
LEMMA RestoreRecordsIsSound ==
    ASSUME NEW j, JobTyped(j), j.at = "restoreMeta", NEW d \in Disk, NEW h, NEW k, NEW e,
           k = Jump(j, "install", 1, Yes, j.failed, j.backed),
           e = RestoreMeta(d, j.inst)
    PROVE  Sound(j, d, h, k, e, h)
<1>0. j.inst \in Versions
  BY DEF JobTyped, PredecessorAt
<1>1. /\ Comes(k) /\ Keeps(j, k) /\ k.at = "install"
      /\ k.i = 1 /\ k.rolling
  <2>1. MayBe(j, "install", 1, Yes, j.failed, j.backed)
    BY <1>0, JobPlaceIs DEF MayBe, Places, PredecessorAt, Early, Yes
  <2>2. k.rolling = Yes /\ Comes(k) /\ Keeps(j, k) /\ k.at = "install" /\ k.i = 1
    BY <2>1, JumpTyped
  <2> QED BY <2>2 DEF Yes
<1>2. /\ e \in Disk /\ SameDirs(d, e) /\ SameOutside(d, e)
      /\ MetaBut(d, e, j.inst) /\ AsideMetaBut(d, e, j.inst)
      /\ e.asideMeta[j.inst] = 0
      /\ e.meta[j.inst] = IF d.asideMeta[j.inst] = 0 THEN d.meta[j.inst] ELSE d.asideMeta[j.inst]
  BY <1>0, RestoreMetaDoes
<1>3. ASSUME Unharmed(h), Knows(j, d, h) PROVE Knows(k, e, h)
  <2>1. AtRestoreMeta(j, d) /\ (h = {} => WasInPlace(k))
    BY <1>1, <1>3, KeepsIs DEF Knows
  <2>2. OldRecords(j, e) /\ NoTool(e) /\ TakenOut(j, e)
    BY <1>2, <2>1 DEF AtRestoreMeta, OldRecords, NoTool, TakenOut, Out, NoApp, SameOutside, SameDirs
  <2>3. e.meta[j.inst] > 0
    BY <1>0, <1>2, <2>1 DEF AtRestoreMeta, Caskfiled
  <2>4. NoBackup(e)
    BY <1>2, <2>1 DEF AtRestoreMeta, Caskfiled, NoBackup, SameDirs, AsideMetaBut
  <2>5. \A w \in Versions : w # j.inst => e.staged[w] = Gone /\ e.meta[w] = 0
    BY <1>2, <2>1 DEF AtRestoreMeta, MetaBut, SameDirs
  <2>6. AtRollBack(k, e)
    BY <1>0, <1>1, <2>2, <2>3, <2>4, <2>5, PutBack
  <2> QED BY <1>1, <2>1, <2>6 DEF Knows
<1>4. ASSUME Bearable(h), Recalls(j, d) PROVE Recalls(k, e)
  <2>1. RecallsRestoreMeta(j, d)
    BY <1>4 DEF Recalls
  <2>2. Fits(e, e.receipt) /\ (k.before # {} => Origin(k)) /\ (k.inst # None => k.before # {}) /\ Origin(j)
    BY <1>0, <1>1, <1>2, <1>4, StillRecalls, NamesDiffer DEF Fits, SameOutside
  <2>3. e.meta[j.inst] = Was(j).meta[j.inst]
    BY <1>0, <1>2, <2>1 DEF RecallsRestoreMeta, AsideMeta
  <2>4. NoBackup(e) /\ Alone(e, j.inst)
    BY <1>2, <2>1 DEF RecallsRestoreMeta, AsideMeta, NoBackup, Alone, SameDirs, MetaBut, AsideMetaBut
  <2>5. Picks(j) /\ Receipts(j, e) /\ Taken(j, e.staged[j.inst]) /\ NoTool(e) /\ ToolLeft(j, e) /\ AppsLeft(j, e, None)
    BY <1>2, <2>1, SameAppsLeft DEF RecallsRestoreMeta, Receipts, NoTool, ToolLeft, SameOutside, SameDirs
  <2>6. RecallsRollBack(k, e)
    BY <1>0, <1>1, <1>2, <2>2, <2>3, <2>4, <2>5, RollsBack
  <2> QED BY <1>1, <2>2, <2>6 DEF Recalls
<1> QED BY <1>1, <1>2, <1>3, <1>4 DEF Sound

(* A cask between commands, with the version that was just installed. *)
LEMMA PlacedIsAtRest ==
    ASSUME NEW j, JobTyped(j), NEW e, Placed(j, e), NoBackup(e), e.config = j.opt.appdir,
           e.receipt = j.specs, NEW h
    PROVE  AtRest(e, h)
<1>1. j.new \in Versions /\ j.opt.appdir # None
  BY JobIs, NamesDiffer DEF AllOptions
<1>2. Something(e, j.new, h)
  BY <1>1 DEF Placed, Something, Recorded, Chosen
<1> QED BY <1>1, <1>2 DEF AtRest

(* So it is settled, whosever the apps are. *)
LEMMA PlacedIsSettled ==
    ASSUME NEW j, JobTyped(j), NEW d, RecallsPlaced(j, d), d.receipt = j.specs,
           NEW e, SameOutside(d, e), e.staged = d.staged, e.meta = d.meta, NoBackup(e)
    PROVE  Settled(e) /\ Fits(e, e.receipt)
<1>1. j.new \in Versions /\ j.specs # <<>>
  BY JobIs, SpecsAre DEF RecallsPlaced, Picks
<1>2. Stocked(e, j.new)
  BY DEF RecallsPlaced, Set, Has, Stocked, SameOutside
<1>3. Stands(e, j.new)
  BY <1>2 DEF RecallsPlaced, Stands, Alone
<1>4. Stood(e, j.new) /\ Fits(e, e.receipt)
  BY <1>1, <1>3 DEF RecallsPlaced, Stood, ToolOf, Fits, SameOutside
<1> QED BY <1>1, <1>4 DEF Settled

(* Backup::purge: once the new version is recorded the old one may go. *)
LEMMA FinishIsSound ==
    ASSUME NEW j, JobTyped(j), j.at = "finish", NEW d \in Disk, NEW h, NEW k, NEW e,
           k = Jump(j, "unlock", j.i, j.rolling, j.failed, j.backed),
           e = [d EXCEPT !.aside[j.inst] = Gone, !.asideMeta[j.inst] = 0]
    PROVE  Sound(j, d, h, k, e, h)
<1>0. j.inst \in Versions /\ ~j.rolling
  BY DEF JobTyped, PredecessorAt
<1>1. Comes(k) /\ Keeps(j, k) /\ k.at = "unlock" /\ ~k.rolling
  <2>1. MayBe(j, "unlock", j.i, j.rolling, j.failed, j.backed)
    BY <1>0, JobPlaceIs DEF MayBe, Places, PredecessorAt, Early, Yes
  <2> QED BY <1>0, <2>1, JumpTyped
<1>2. /\ e \in Disk /\ SameOutside(d, e) /\ e.staged = d.staged /\ e.meta = d.meta
      /\ e.aside[j.inst] = Gone /\ AsideBut(d, e, j.inst)
      /\ e.asideMeta[j.inst] = 0 /\ AsideMetaBut(d, e, j.inst)
  BY <1>0, ClearBothDoes
<1>3. ASSUME Unharmed(h), Knows(j, d, h) PROVE Knows(k, e, h)
  <2>1. AtReceipt(j, d) /\ d.receipt = j.specs /\ (h = {} => WasInPlace(k))
    BY <1>1, <1>3, KeepsIs DEF Knows
  <2>2. NoBackup(e)
    BY <1>0, <1>2, <2>1, NamesDiffer DEF AtReceipt, Behind, Staged, Caskfiled, NoBackup, AsideBut, AsideMetaBut
  <2>3. Placed(j, e) /\ e.config = j.opt.appdir /\ e.receipt = j.specs
    BY <1>2, <2>1 DEF AtReceipt, Placed, Alone, In, ToolOf, SameOutside
  <2>4. AtRest(e, h)
    BY <2>2, <2>3, PlacedIsAtRest
  <2> QED BY <1>1, <2>1, <2>4 DEF Knows
<1>4. ASSUME Bearable(h), Recalls(j, d) PROVE Recalls(k, e)
  <2>1. RecallsPlaced(j, d) /\ d.receipt = j.specs
    BY <1>4 DEF Recalls
  <2>2. (k.before # {} => Origin(k)) /\ (k.inst # None => k.before # {})
    BY <1>1, <1>4, StillRecalls
  <2>3. NoBackup(e)
    BY <1>0, <1>2, <2>1, NamesDiffer
    DEF RecallsPlaced, Saved, Aside, AsideMeta, NoBackup, AsideBut, AsideMetaBut
  <2>4. Settled(e) /\ Fits(e, e.receipt)
    BY <1>2, <2>1, <2>3, PlacedIsSettled
  <2> QED BY <1>1, <2>2, <2>4 DEF Recalls, RecallsUnlock
<1> QED BY <1>1, <1>2, <1>3, <1>4 DEF Sound

-------------------------------------------------------------------------------
(* The steps of an install. *)

(* stage: the new version's files are unpacked, or a part of them. *)
LEMMA StageIsSound ==
    ASSUME NEW j, JobTyped(j), j.at = "stage", NEW d \in Disk, NEW h, NEW k, NEW e, NEW dir,
           \/ /\ k = Jump(j, "caskfile", j.i, j.rolling, j.failed, j.backed)
              /\ dir = [app |-> j.new, tool |-> TRUE]
           \/ /\ k = Jump(j, "purge", j.i, j.rolling, Yes, j.backed)
              /\ dir \in {Gone, [app |-> None, tool |-> FALSE], [app |-> j.new, tool |-> TRUE]},
           e = [d EXCEPT !.staged[j.new] = dir]
    PROVE  Sound(j, d, h, k, e, h)
<1>0. ~j.rolling /\ j.new \in Versions
  BY JobIs DEF JobTyped
<1>1. /\ Comes(k) /\ Keeps(j, k) /\ k.at \in {"caskfile", "purge"}
      /\ k.at = "caskfile" => dir = [app |-> j.new, tool |-> TRUE]
  <2>1. CASE k = Jump(j, "caskfile", j.i, j.rolling, j.failed, j.backed) /\ dir = [app |-> j.new, tool |-> TRUE]
    <3>1. MayBe(j, "caskfile", j.i, j.rolling, j.failed, j.backed)
      BY <1>0, JobPlaceIs DEF MayBe, Places, PredecessorAt, Early, Yes
    <3> QED BY <2>1, <3>1, JumpTyped
  <2>2. CASE k = Jump(j, "purge", j.i, j.rolling, Yes, j.backed)
    <3>1. MayBe(j, "purge", j.i, j.rolling, Yes, j.backed)
      BY <1>0, JobPlaceIs DEF MayBe, Places, PredecessorAt, Early, Yes
    <3> QED BY <2>2, <3>1, JumpTyped
  <2> QED BY <2>1, <2>2
<1>2. dir \in StagedDir \cup {Gone}
  BY <1>0, StagedDirs
<1>3. /\ e \in Disk /\ SameMetas(d, e) /\ SameOutside(d, e) /\ e.aside = d.aside
      /\ e.staged[j.new] = dir /\ StagedBut(d, e, j.new)
  BY ZenonT(120), <1>0, <1>2, PutStagedDoes
<1>4. ASSUME Unharmed(h), Knows(j, d, h) PROVE Knows(k, e, h)
  <2>1. AtStage(j, d) /\ (h = {} => WasInPlace(k))
    BY <1>1, <1>4, KeepsIs DEF Knows
  <2>2. Alone(e, j.new) /\ e.meta[j.new] = 0
    BY <1>0, <1>3, <2>1, NamesDiffer DEF AtStage, Alone, StagedBut, SameMetas
  <2>3. Replacing(j, e) /\ Vacant(j, e) /\ NoApp(e) /\ NoTool(e)
    BY <1>3, <2>1, SameBackup, SameApps DEF AtStage, SameOutside, SameMetas, NoTool
  <2>4. CASE k.at = "caskfile"
    <3>1. Has(e.staged[j.new], j.new)
      BY <1>0, <1>1, <1>3, <2>4, NamesDiffer DEF Has, Gone
    <3>2. AtCaskfile(j, e)
      BY <2>1, <2>2, <2>3, <3>1 DEF AtCaskfile, AtStage
    <3>3. AtCaskfile(k, e)
      BY <1>1, <3>2, KeepsIs DEF AtCaskfile, Keeps
    <3> QED BY <2>1, <2>4, <3>3 DEF Knows
  <2>5. CASE k.at = "purge"
    <3>1. AtPurge(k, e)
      BY <1>1, <2>2, <2>3, KeepsIs DEF AtPurge, Keeps
    <3> QED BY <2>1, <2>5, <3>1 DEF Knows
  <2> QED BY <1>1, <2>4, <2>5
<1>5. ASSUME Bearable(h), Recalls(j, d) PROVE Recalls(k, e)
  <2>1. RecallsStage(j, d)
    BY <1>5 DEF Recalls
  <2>2. Fits(e, e.receipt) /\ (k.before # {} => Origin(k)) /\ (k.inst # None => k.before # {})
    BY <1>1, <1>3, <1>5, StillRecalls DEF Fits, SameOutside
  <2>3. Alone(e, j.new) /\ e.meta[j.new] = 0
    BY <1>0, <1>3, <2>1, NamesDiffer DEF RecallsStage, Alone, StagedBut, SameMetas
  <2>4. Saved(j, e) /\ AppsLeft(j, e, None) /\ NoTool(e)
    BY <1>3, <2>1, SameSaved, SameAppsLeft DEF RecallsStage, SameOutside, SameMetas
  <2>5. Saved(k, e) /\ AppsLeft(k, e, None) /\ Picks(k) /\ k.new = j.new
    BY <1>1, <2>1, <2>4, KeepsRecalled DEF RecallsStage, Keeps
  <2>6. CASE k.at = "caskfile"
    <3>1. Has(e.staged[j.new], j.new)
      BY <1>0, <1>1, <1>3, <2>6, NamesDiffer DEF Has, Gone
    <3>2. RecallsCaskfile(k, e)
      BY <2>3, <2>4, <2>5, <3>1 DEF RecallsCaskfile
    <3> QED BY <2>2, <2>6, <3>2 DEF Recalls
  <2>7. CASE k.at = "purge"
    <3>1. RecallsPurge(k, e)
      BY <2>3, <2>4, <2>5 DEF RecallsPurge
    <3> QED BY <2>2, <2>7, <3>1 DEF Recalls
  <2> QED BY <1>1, <2>6, <2>7
<1> QED BY <1>1, <1>3, <1>4, <1>5 DEF Sound

(* write_caskfile: the new version is the only one with a caskfile. *)
LEMMA CaskfileIsSound ==
    ASSUME NEW j, JobTyped(j), j.at = "caskfile", NEW d \in Disk, NEW h, NEW k, NEW e, NEW n \in Nat, n > 0,
           k = Jump(j, "install", 1, j.rolling, j.failed, j.backed),
           NEW M \in Metas, Installed(d) = None => M = d.meta,
           e = PutMeta(d, M, j.new, n)
    PROVE  Sound(j, d, h, k, e, h)
<1>0. ~j.rolling /\ j.new \in Versions
  BY JobIs DEF JobTyped
<1>1. /\ Comes(k) /\ Keeps(j, k) /\ k.at = "install"
      /\ k.i = 1 /\ ~k.rolling
  <2>1. MayBe(j, "install", 1, j.rolling, j.failed, j.backed)
    BY <1>0, JobPlaceIs DEF MayBe, Places, PredecessorAt, Early
  <2> QED BY <1>0, <2>1, JumpTyped
<1>3. /\ e \in Disk /\ SameDirs(d, e) /\ SameOutside(d, e) /\ e.asideMeta = d.asideMeta
      /\ e.meta[j.new] = n /\ \A w \in Versions : w # j.new => e.meta[w] = M[w]
  BY <1>0, PutMetaDoes
<1>4. ASSUME Unharmed(h), Knows(j, d, h) PROVE Knows(k, e, h)
  <2>1. AtCaskfile(j, d) /\ (h = {} => WasInPlace(k))
    BY <1>1, <1>4, KeepsIs DEF Knows
  <2>2. Installed(d) = None
    <3>1. \A v \in Versions : d.meta[v] = 0
      BY <2>1 DEF AtCaskfile, Alone
    <3> QED BY <3>1, InstalledIs
  <2>3. Alone(e, j.new) /\ e.meta[j.new] > 0 /\ Has(e.staged[j.new], j.new)
    BY <1>3, <2>1, <2>2 DEF AtCaskfile, Alone, SameDirs
  <2>4. Replacing(j, e) /\ Vacant(j, e) /\ NoApp(e) /\ NoTool(e)
    BY <1>3, <2>1, SameBackup, SameApps DEF AtCaskfile, SameOutside, SameDirs, NoTool
  <2>5. AtInstall(k, e)
    BY <1>1, <2>1, <2>3, <2>4, KeepsIs DEF AtCaskfile, AtInstall, Keeps, NoTool, ToolOf
  <2> QED BY <1>1, <2>1, <2>5 DEF Knows
<1>5. ASSUME Bearable(h), Recalls(j, d) PROVE Recalls(k, e)
  <2>1. RecallsCaskfile(j, d)
    BY <1>5 DEF Recalls
  <2>2. Fits(e, e.receipt) /\ (k.before # {} => Origin(k)) /\ (k.inst # None => k.before # {})
    BY <1>1, <1>3, <1>5, StillRecalls DEF Fits, SameOutside
  <2>3. Installed(d) = None
    <3>1. \A v \in Versions : d.meta[v] = 0
      BY <2>1 DEF RecallsCaskfile, Alone
    <3> QED BY <3>1, InstalledIs
  <2>4. Alone(e, j.new) /\ e.meta[j.new] > 0 /\ Has(e.staged[j.new], j.new)
    BY <1>3, <2>1, <2>3 DEF RecallsCaskfile, Alone, SameDirs
  <2>5. Saved(j, e) /\ AppsLeft(j, e, None) /\ NoTool(e)
    BY <1>3, <2>1, SameSaved, SameAppsLeft DEF RecallsCaskfile, SameOutside, SameDirs
  <2>6. Saved(k, e) /\ AppsLeft(k, e, None) /\ Picks(k) /\ k.new = j.new
    BY <1>1, <2>1, <2>5, KeepsRecalled DEF RecallsCaskfile, Keeps
  <2>7. RecallsInstall(k, e)
    BY <1>1, <2>4, <2>5, <2>6 DEF RecallsInstall, NoTool, ToolOf
  <2> QED BY <1>1, <2>2, <2>7 DEF Recalls
<1> QED BY <1>1, <1>3, <1>4, <1>5 DEF Sound

(* A caskfile that cannot be written. *)
LEMMA NoCaskfileIsSound ==
    ASSUME NEW j, JobTyped(j), j.at = "caskfile", NEW d \in Disk, NEW h, NEW k,
           k = Jump(j, "purge", j.i, j.rolling, Yes, j.backed)
    PROVE  Sound(j, d, h, k, d, h)
<1>0. ~j.rolling
  BY DEF JobTyped
<1>1. Comes(k) /\ Keeps(j, k) /\ k.at = "purge"
  <2>1. MayBe(j, "purge", j.i, j.rolling, Yes, j.backed)
    BY <1>0, JobPlaceIs DEF MayBe, Places, PredecessorAt, Early, Yes
  <2> QED BY <2>1, JumpTyped
<1>2. ASSUME Unharmed(h), Knows(j, d, h) PROVE Knows(k, d, h)
  <2>1. AtCaskfile(j, d) /\ (h = {} => WasInPlace(k))
    BY <1>1, <1>2, KeepsIs DEF Knows
  <2>2. AtPurge(k, d)
    BY <1>1, <2>1, KeepsIs DEF AtCaskfile, AtPurge, Keeps
  <2> QED BY <1>1, <2>1, <2>2 DEF Knows
<1>3. ASSUME Bearable(h), Recalls(j, d) PROVE Recalls(k, d)
  <2>1. RecallsCaskfile(j, d)
    BY <1>3 DEF Recalls
  <2>2. Fits(d, d.receipt) /\ (k.before # {} => Origin(k)) /\ (k.inst # None => k.before # {})
    BY <1>1, <1>3, StillRecalls
  <2>3. RecallsPurge(k, d)
    BY <1>1, <2>1, KeepsRecalled DEF RecallsCaskfile, RecallsPurge, Keeps
  <2> QED BY <1>1, <2>2, <2>3 DEF Recalls
<1> QED BY <1>1, <1>2, <1>3 DEF Sound

-------------------------------------------------------------------------------
(* The records of an install, and a removal. *)

(* The config, the receipt and the checksum are written in turn. *)
LEMMA ConfigIsSound ==
    ASSUME NEW j, JobTyped(j), j.at = "config", NEW d \in Disk, NEW h, NEW k, NEW e,
           k = Jump(j, "receipt", j.i, j.rolling, j.failed, j.backed),
           e = [d EXCEPT !.config = j.opt.appdir]
    PROVE  Sound(j, d, h, k, e, h)
<1>0. ~j.rolling
  BY DEF JobTyped
<1>1. Comes(k) /\ Keeps(j, k) /\ k.at = "receipt"
  <2>1. MayBe(j, "receipt", j.i, j.rolling, j.failed, j.backed)
    BY <1>0, JobPlaceIs DEF MayBe, Places, PredecessorAt, Early
  <2> QED BY <1>0, <2>1, JumpTyped
<1>2. e \in Disk /\ SameFiles(d, e) /\ e.config = j.opt.appdir /\ e.receipt = d.receipt
  <2>1. j.opt.appdir \in AppDirs \cup {Unset, None}
    BY JobIs DEF AllOptions
  <2>2. j.specs \in SpecLists
    BY JobIs
  <2> QED BY <2>1, <2>2, PutRecordsDoes
<1>3. ASSUME Unharmed(h), Knows(j, d, h) PROVE Knows(k, e, h)
  <2>1. AtConfig(j, d) /\ (h = {} => WasInPlace(k))
    BY <1>1, <1>3, KeepsIs DEF Knows
  <2>2. Behind(j, e)
    BY <1>2, <2>1, SameBackup DEF AtConfig, Replacing, SameFiles, SameDirs, SameMetas
  <2>3. Placed(j, e)
    BY <1>2, <2>1 DEF AtConfig, Placed, Alone, In, ToolOf, SameFiles, SameDirs, SameMetas
  <2>4. AtReceipt(j, e)
    BY <1>2, <2>2, <2>3 DEF AtReceipt
  <2>5. AtReceipt(k, e)
    BY <1>1, <2>4, KeepsIs
  <2> QED BY <1>1, <2>1, <2>5 DEF Knows
<1>4. ASSUME Bearable(h), Recalls(j, d) PROVE Recalls(k, e)
  <2>1. RecallsPlaced(j, d)
    BY <1>4 DEF Recalls
  <2>2. Fits(e, e.receipt) /\ (k.before # {} => Origin(k)) /\ (k.inst # None => k.before # {})
    BY <1>1, <1>2, <1>4, StillRecalls DEF Fits, SameFiles
  <2>3. Saved(j, e) /\ AppsLeft(j, e, j.dir)
    BY <1>2, <2>1, SameSaved, SameAppsLeft DEF RecallsPlaced, SameFiles, SameDirs, SameMetas
  <2>4. RecallsPlaced(j, e)
    BY <1>2, <2>1, <2>3 DEF RecallsPlaced, Alone, Set, ToolOf, Fits, SameFiles, SameDirs, SameMetas
  <2>5. RecallsPlaced(k, e)
    BY <1>1, <2>4, KeepsRecalled
  <2> QED BY <1>1, <2>2, <2>5 DEF Recalls
<1> QED BY <1>1, <1>2, <1>3, <1>4 DEF Sound

(* The receipt is the last that says what is installed. *)
LEMMA ReceiptIsSound ==
    ASSUME NEW j, JobTyped(j), j.at = "receipt", NEW d \in Disk, NEW h, NEW k, NEW e,
           k = Jump(j, "sha", j.i, j.rolling, j.failed, j.backed),
           e = [d EXCEPT !.receipt = j.specs]
    PROVE  Sound(j, d, h, k, e, h)
<1>0. ~j.rolling
  BY DEF JobTyped
<1>1. Comes(k) /\ Keeps(j, k) /\ k.at = "sha"
  <2>1. MayBe(j, "sha", j.i, j.rolling, j.failed, j.backed)
    BY <1>0, JobPlaceIs DEF MayBe, Places, PredecessorAt, Early
  <2> QED BY <1>0, <2>1, JumpTyped
<1>2. e \in Disk /\ SameFiles(d, e) /\ e.config = d.config /\ e.receipt = j.specs
  <2>1. j.specs \in SpecLists
    BY JobIs
  <2> QED BY <2>1, PutRecordsDoes
<1>3. ASSUME Unharmed(h), Knows(j, d, h) PROVE Knows(k, e, h)
  <2>1. AtReceipt(j, d) /\ (h = {} => WasInPlace(k))
    BY <1>1, <1>3, KeepsIs DEF Knows
  <2>2. Behind(j, e)
    BY <1>2, <2>1, SameBackup DEF AtReceipt, SameFiles, SameDirs, SameMetas
  <2>3. Placed(j, e)
    BY <1>2, <2>1 DEF AtReceipt, Placed, Alone, In, ToolOf, SameFiles, SameDirs, SameMetas
  <2>4. AtReceipt(k, e)
    BY <1>1, <1>2, <2>1, <2>2, <2>3, KeepsIs DEF AtReceipt
  <2>5. e.receipt = k.specs
    BY <1>1, <1>2 DEF Keeps
  <2> QED BY <1>1, <2>1, <2>4, <2>5 DEF Knows
<1>4. ASSUME Bearable(h), Recalls(j, d) PROVE Recalls(k, e)
  <2>1. RecallsPlaced(j, d)
    BY <1>4 DEF Recalls
  <2>2. (k.before # {} => Origin(k)) /\ (k.inst # None => k.before # {}) /\ (j.inst # None => Origin(j))
    BY <1>1, <1>4, StillRecalls
  <2>3. Saved(j, e)
    <3>1. CASE j.inst = None
      BY <1>2, <2>1, <3>1 DEF RecallsPlaced, Saved, NoBackup, SameFiles, SameDirs, SameMetas
    <3>2. CASE j.inst # None
      BY <1>2, <2>1, <3>2 DEF RecallsPlaced, Saved, Aside, AsideMeta, Receipts, ToolLeft, SameFiles, SameDirs, SameMetas
    <3> QED BY <3>1, <3>2
  <2>4. AppsLeft(j, e, j.dir)
    BY <1>2, <2>1, SameAppsLeft DEF RecallsPlaced, SameFiles
  <2>5. RecallsPlaced(j, e)
    BY <1>2, <2>1, <2>3, <2>4 DEF RecallsPlaced, Alone, Set, ToolOf, Fits, SameFiles, SameDirs, SameMetas
  <2>6. RecallsPlaced(k, e) /\ e.receipt = k.specs
    BY <1>1, <1>2, <2>5, KeepsRecalled DEF Keeps
  <2>7. Fits(e, e.receipt)
    BY <1>2, <2>5 DEF RecallsPlaced
  <2> QED BY <1>1, <2>2, <2>6, <2>7 DEF Recalls
<1> QED BY <1>1, <1>2, <1>3, <1>4 DEF Sound

(* The checksum changes nothing that is known. *)
LEMMA ShaIsSound ==
    ASSUME NEW j, JobTyped(j), j.at = "sha", NEW d \in Disk, NEW h, NEW k,
           k = Jump(j, IF j.inst = None THEN "unlock" ELSE "finish", j.i, j.rolling, j.failed, j.backed)
    PROVE  Sound(j, d, h, k, d, h)
<1>0. ~j.rolling /\ j.inst \in Versions \cup {None}
  BY JobIs DEF JobTyped
<1>1. Comes(k) /\ Keeps(j, k) /\ ~k.rolling /\ k.at = IF j.inst = None THEN "unlock" ELSE "finish"
  <2>1. MayBe(j, IF j.inst = None THEN "unlock" ELSE "finish", j.i, j.rolling, j.failed, j.backed)
    BY <1>0, JobPlaceIs DEF MayBe, Places, PredecessorAt, Early
  <2> QED BY <1>0, <2>1, JumpTyped
<1>2. ASSUME Unharmed(h), Knows(j, d, h) PROVE Knows(k, d, h)
  <2>1. AtReceipt(j, d) /\ d.receipt = j.specs /\ (h = {} => WasInPlace(k))
    BY <1>1, <1>2, KeepsIs DEF Knows
  <2>2. CASE j.inst = None
    <3>1. AtRest(d, h)
      BY <2>1, <2>2, PlacedIsAtRest DEF AtReceipt, Behind
    <3> QED BY <1>1, <2>1, <2>2, <3>1 DEF Knows
  <2>3. CASE j.inst # None
    <3>1. AtReceipt(k, d) /\ d.receipt = k.specs
      BY <1>1, <2>1, KeepsIs DEF Keeps
    <3> QED BY <1>1, <2>1, <2>3, <3>1 DEF Knows
  <2> QED BY <2>2, <2>3
<1>3. ASSUME Bearable(h), Recalls(j, d) PROVE Recalls(k, d)
  <2>1. RecallsPlaced(j, d) /\ d.receipt = j.specs
    BY <1>3 DEF Recalls
  <2>2. Fits(d, d.receipt) /\ (k.before # {} => Origin(k)) /\ (k.inst # None => k.before # {})
    BY <1>1, <1>3, StillRecalls
  <2>3. CASE j.inst = None
    <3>1. Settled(d)
      BY <2>1, <2>3, PlacedIsSettled DEF RecallsPlaced, Saved, SameOutside
    <3> QED BY <1>1, <2>2, <2>3, <3>1 DEF Recalls, RecallsUnlock
  <2>4. CASE j.inst # None
    <3>1. RecallsPlaced(k, d) /\ d.receipt = k.specs
      BY <1>1, <2>1, KeepsRecalled DEF Keeps
    <3> QED BY <1>1, <2>2, <2>4, <3>1 DEF Recalls
  <2> QED BY <2>3, <2>4
<1> QED BY <1>1, <1>2, <1>3 DEF Sound

(* Records that cannot be written: only the config leaves no mark. *)
LEMMA UnrecordIsSound ==
    ASSUME NEW j, JobTyped(j), j.at \in {"config", "receipt", "sha"}, NEW d \in Disk, NEW h, NEW k,
           k = Jump(j, "unrecord", 1, j.rolling, Yes, j.backed)
    PROVE  Sound(j, d, h, k, d, h \cup (IF j.at = "config" THEN {} ELSE {"misrecorded"}))
<1>0. ~j.rolling
  BY DEF JobTyped
<1>1. Comes(k) /\ Keeps(j, k) /\ k.at = "unrecord" /\ k.i = 1
  <2>1. MayBe(j, "unrecord", 1, j.rolling, Yes, j.backed)
    BY <1>0, JobPlaceIs DEF MayBe, Places, PredecessorAt, Early, Yes
  <2> QED BY <2>1, JumpTyped
<1>2. ASSUME j.at = "config", Unharmed(h), Knows(j, d, h) PROVE Knows(k, d, h)
  <2>1. AtConfig(j, d) /\ (h = {} => WasInPlace(k))
    BY <1>1, <1>2, KeepsIs DEF Knows
  <2>2. AtUnrecord(k, d)
    BY SMTT(60), <1>1, <2>1, KeepsIs DEF AtConfig, AtUnrecord, Placed, Chosen, Keeps
  <2> QED BY <1>1, <2>1, <2>2 DEF Knows
<1>3. ASSUME Recalls(j, d) PROVE Recalls(k, d)
  <2>1. RecallsPlaced(j, d)
    BY <1>3 DEF Recalls
  <2>2. Fits(d, d.receipt) /\ (k.before # {} => Origin(k)) /\ (k.inst # None => k.before # {})
    BY <1>1, <1>3, StillRecalls
  <2>3. RecallsUnrecord(k, d)
    BY <1>1, <2>1, KeepsRecalled DEF RecallsPlaced, RecallsUnrecord, Keeps
  <2> QED BY <1>1, <2>2, <2>3 DEF Recalls
<1>4. CASE j.at = "config"
  BY <1>1, <1>2, <1>3, <1>4 DEF Sound
<1>5. CASE j.at # "config"
  BY <1>1, <1>3, <1>5 DEF Sound, Unharmed, Bearable
<1> QED BY <1>4, <1>5

(* An uninstall drops the receipt and the config first. *)
LEMMA DropRecordsIsSound ==
    ASSUME NEW j, JobTyped(j), j.at = "records", NEW d \in Disk, NEW h, NEW k, NEW e,
           k = Jump(j, "version", j.i, j.rolling, j.failed, j.backed),
           e = [d EXCEPT !.receipt = <<>>, !.config = None]
    PROVE  Sound(j, d, h, k, e, h)
<1>0. ~j.rolling /\ j.inst \in Versions
  BY DEF JobTyped, PredecessorAt
<1>1. Comes(k) /\ Keeps(j, k) /\ k.at = "version"
  <2>1. MayBe(j, "version", j.i, j.rolling, j.failed, j.backed)
    BY <1>0, JobPlaceIs DEF MayBe, Places, PredecessorAt, Early
  <2> QED BY <1>0, <2>1, JumpTyped
<1>2. e \in Disk /\ SameFiles(d, e) /\ e.receipt = <<>>
  BY PutRecordsDoes DEF SpecLists
<1>3. ASSUME Unharmed(h), Knows(j, d, h) PROVE Knows(k, e, h)
  <2>1. AtRecords(j, d) /\ (h = {} => WasInPlace(k))
    BY <1>1, <1>3, KeepsIs DEF Knows
  <2>2. AtRecords(j, e)
    BY <1>2, <2>1 DEF AtRecords, Alone, NoBackup, NoApp, NoTool, SameFiles, SameDirs, SameMetas
  <2>3. AtRecords(k, e)
    BY <1>1, <2>2, KeepsIs
  <2> QED BY <1>1, <2>1, <2>3 DEF Knows
<1>4. ASSUME Bearable(h), Recalls(j, d) PROVE Recalls(k, e)
  <2>1. Alone(d, j.inst) /\ NoBackup(d) /\ NoTool(d)
    BY <1>4 DEF Recalls
  <2>2. (k.before # {} => Origin(k)) /\ (k.inst # None => k.before # {})
    BY <1>1, <1>4, StillRecalls
  <2>3. Alone(e, k.inst) /\ NoBackup(e) /\ NoTool(e)
    BY <1>1, <1>2, <2>1 DEF Keeps, Alone, NoBackup, NoTool, SameFiles, SameDirs, SameMetas
  <2>4. Fits(e, e.receipt)
    BY <1>2, SpecsAre DEF Fits
  <2> QED BY <1>1, <2>2, <2>3, <2>4 DEF Recalls
<1> QED BY <1>1, <1>2, <1>3, <1>4 DEF Sound

(* Then the version's files, or the whole Caskroom entry. *)
LEMMA DropVersionIsSound ==
    ASSUME NEW j, JobTyped(j), j.at = "version", NEW d \in Disk, NEW h, NEW k, NEW e,
           k = Jump(j, "unlock", j.i, j.rolling, j.failed, j.backed),
           e = IF j.cmd = "zap" \/ j.opt.force THEN Emptied(d)
               ELSE DropStaged(d, j.inst)
    PROVE  Sound(j, d, h, k, e, h)
<1>0. ~j.rolling /\ j.inst \in Versions
  BY DEF JobTyped, PredecessorAt
<1>1. Comes(k) /\ Keeps(j, k) /\ ~k.rolling /\ k.at = "unlock"
  <2>1. MayBe(j, "unlock", j.i, j.rolling, j.failed, j.backed)
    BY <1>0, JobPlaceIs DEF MayBe, Places, PredecessorAt, Early
  <2> QED BY <1>0, <2>1, JumpTyped
<1>2. /\ e \in Disk /\ SameOutside(d, e)
      /\ Alone(d, j.inst) /\ NoBackup(d) => Alone(e, None) /\ NoBackup(e)
  <2>1. CASE j.cmd = "zap" \/ j.opt.force
    <3>1. e = Emptied(d)
      BY <2>1
    <3>2. /\ e \in Disk /\ SameOutside(d, e)
          /\ \A w \in Versions : e.staged[w] = Gone /\ e.aside[w] = Gone /\ e.meta[w] = 0 /\ e.asideMeta[w] = 0
      BY <3>1, EmptiedDoes
    <3> QED BY <3>2 DEF Alone, NoBackup
  <2>2. CASE ~(j.cmd = "zap" \/ j.opt.force)
    <3>1. e = DropStaged(d, j.inst)
      BY <2>2
    <3>2. /\ e \in Disk /\ SameOutside(d, e) /\ e.aside = d.aside /\ e.asideMeta = d.asideMeta
          /\ e.staged[j.inst] = Gone /\ StagedBut(d, e, j.inst)
          /\ e.meta[j.inst] = 0 /\ MetaBut(d, e, j.inst)
      BY <1>0, <3>1, DropStagedDoes
    <3> QED BY <3>2, NamesDiffer DEF Alone, NoBackup, StagedBut, MetaBut
  <2> QED BY <2>1, <2>2
<1>3. ASSUME Unharmed(h), Knows(j, d, h) PROVE Knows(k, e, h)
  <2>1. AtRecords(j, d) /\ (h = {} => WasInPlace(k))
    BY <1>1, <1>3, KeepsIs DEF Knows
  <2>2. Nothing(e)
    BY <1>2, <2>1 DEF AtRecords, Nothing, NoApp, NoTool, SameOutside
  <2> QED BY <1>1, <2>1, <2>2 DEF Knows, AtRest
<1>4. ASSUME Bearable(h), Recalls(j, d) PROVE Recalls(k, e)
  <2>1. Alone(d, j.inst) /\ NoBackup(d) /\ NoTool(d)
    BY <1>4 DEF Recalls
  <2>2. Fits(e, e.receipt) /\ (k.before # {} => Origin(k)) /\ (k.inst # None => k.before # {})
    BY <1>1, <1>2, <1>4, StillRecalls DEF Fits, SameOutside
  <2>3. Settled(e)
    BY <1>2, <2>1 DEF Settled, NoTool, SameOutside
  <2> QED BY <1>1, <2>2, <2>3 DEF Recalls, RecallsUnlock
<1> QED BY <1>1, <1>2, <1>3, <1>4 DEF Sound

(* Under the lock, a version that is recorded is the only one there is. *)
LEMMA GroundedIs ==
    ASSUME NEW d \in Disk, NEW h, AtRest(d, h), NEW v \in Versions, d.meta[v] > 0
    PROVE  Something(d, v, h)
<1>1. ~Nothing(d)
  BY NamesDiffer DEF Nothing, Alone
<1>2. PICK w \in Versions : Something(d, w, h)
  BY <1>1 DEF AtRest
<1>3. w = v
  BY <1>2 DEF Something, Recorded, Alone
<1> QED BY <1>2, <1>3

(* And so whosever the apps are. *)
LEMMA SettledIs ==
    ASSUME NEW d, Settled(d)
    PROVE  /\ \A v \in Versions : d.meta[v] > 0 => Stood(d, v)
           /\ Alone(d, None) => NoBackup(d) /\ NoTool(d)
<1>1. ASSUME NEW v \in Versions, d.meta[v] > 0 PROVE Stood(d, v)
  <2>1. ~Alone(d, None)
    BY <1>1, NamesDiffer DEF Alone
  <2>2. PICK w \in Versions : Stood(d, w)
    BY <2>1 DEF Settled
  <2>3. w = v
    BY <1>1, <2>2 DEF Stood, Stands, Alone
  <2> QED BY <2>2, <2>3
<1>2. ASSUME Alone(d, None) PROVE NoBackup(d) /\ NoTool(d)
  <2>1. \A v \in Versions : ~Stood(d, v)
    BY <1>2, NamesDiffer DEF Alone, Stood, Stands
  <2> QED BY <2>1 DEF Settled
<1> QED BY <1>1, <1>2

(* The sweep finds nothing once it has the lock, or removes a version's files. *)
LEMMA SweepIsSound ==
    ASSUME NEW j, JobTyped(j), j.at = "sweep", NEW d \in Disk, NEW h, NEW k, NEW e,
           \/ /\ StaleDirs(d, j.inst) = {}
              /\ k = Jump(j, "unlock", j.i, j.rolling, j.failed, j.backed) /\ e = d
           \/ /\ StaleDirs(d, j.inst) # {}
              /\ k = j /\ e = [d EXCEPT !.staged[CHOOSE v \in StaleDirs(d, j.inst) : TRUE] = Gone]
    PROVE  Sound(j, d, h, k, e, h)
<1>0. ~j.rolling /\ j.inst \in Versions
  BY DEF JobTyped, PredecessorAt
<1>1. CASE StaleDirs(d, j.inst) = {}
  <2>1. k = Jump(j, "unlock", j.i, j.rolling, j.failed, j.backed) /\ e = d
    BY <1>1
  <2>2. Comes(k) /\ Keeps(j, k) /\ k.at = "unlock"
    <3>1. MayBe(j, "unlock", j.i, j.rolling, j.failed, j.backed)
      BY <1>0, JobPlaceIs DEF MayBe, Places, PredecessorAt, Early
    <3> QED BY <2>1, <3>1, JumpTyped
  <2>3. ASSUME Knows(j, d, h) PROVE Knows(k, d, h)
    <3>1. AtRest(d, h) /\ (h = {} => WasInPlace(k))
      BY <2>2, <2>3, KeepsIs DEF Knows
    <3> QED BY <2>2, <3>1 DEF Knows
  <2>4. ASSUME Recalls(j, d) PROVE Recalls(k, d)
    <3>1. Settled(d) /\ Fits(d, d.receipt) /\ k.before = {}
      BY <2>2, <2>4 DEF Recalls, JobTyped, Keeps
    <3> QED BY <2>2, <3>1 DEF Recalls, RecallsUnlock
  <2> QED BY <2>1, <2>2, <2>3, <2>4 DEF Sound
<1>2. CASE StaleDirs(d, j.inst) # {}
  <2>1. k = j /\ e = [d EXCEPT !.staged[CHOOSE v \in StaleDirs(d, j.inst) : TRUE] = Gone]
    BY <1>2
  <2>2. (CHOOSE v \in StaleDirs(d, j.inst) : TRUE) \in Versions
    BY <1>2 DEF StaleDirs
  <2>3. e \in Disk
    BY <2>1, <2>2, PutStagedDoes
  <2>4. ~Knows(j, d, h)
    <3> SUFFICES ASSUME Knows(j, d, h) PROVE FALSE
      OBVIOUS
    <3>1. AtRest(d, h) /\ Grounded(j, d)
      BY DEF Knows
    <3>2. Something(d, j.inst, h)
      BY <1>0, <3>1, GroundedIs, NamesDiffer DEF Grounded
    <3> QED BY <1>2, <3>2 DEF StaleDirs, Something, Recorded, Alone
  <2>51. ~Recalls(j, d)
    <3> SUFFICES ASSUME Recalls(j, d) PROVE FALSE
      OBVIOUS
    <3>1. Settled(d) /\ Grounded(j, d)
      BY DEF Recalls
    <3>2. Stood(d, j.inst)
      BY <1>0, <3>1, SettledIs, NamesDiffer DEF Grounded
    <3> QED BY <1>2, <3>2 DEF StaleDirs, Stood, Stands, Alone
  <2>5. Comes(k)
    BY <2>1 DEF Comes
  <2>6. CASE Unharmed(h)
    BY <2>3, <2>4, <2>5, <2>6, <2>51 DEF Sound, Bearable, Unharmed
  <2>7. CASE ~Unharmed(h)
    BY <2>3, <2>5, <2>7, <2>51 DEF Sound
  <2> QED BY <2>6, <2>7
<1> QED BY <1>1, <1>2

-------------------------------------------------------------------------------
(* The steps before anything is touched. *)

(* install_cask_entry looks again under the lock. *)
LEMMA DecideIsSound ==
    ASSUME NEW j, JobTyped(j), j.at = "decide", NEW d \in Disk, NEW h, NEW k,
           NEW at \in {"fetch", "unlock"}, k = Find(j, at, Installed(d))
    PROVE  Sound(j, d, h, k, d, h)
<1>0. Installed(d) \in Versions \cup {None} /\ at \in Places \ {"idle"} /\ j \in JobType /\ ~j.rolling
  BY InstalledIs, JobIs DEF Places, JobTyped
<1>1. /\ k \in JobType
      /\ k.at = at /\ k.inst = Installed(d) /\ k.old = j.old /\ k.before = j.before /\ k.rolling = j.rolling
      /\ k.backed = j.backed
  BY <1>0, FindDoes
<1>2. Comes(k)
  BY <1>0, <1>1 DEF Comes, JobTyped, PredecessorAt, Early
<1>3. ASSUME Unharmed(h), Knows(j, d, h) PROVE Knows(k, d, h)
  <2>1. AtRest(d, h)
    BY <1>3 DEF Knows
  <2>2. Grounded(k, d)
    <3>1. CASE Installed(d) = None
      <4>1. \A v \in Versions : d.meta[v] = 0
        BY <3>1, InstalledIs
      <4>2. Nothing(d)
        BY <2>1, <4>1 DEF AtRest, Something, Recorded
      <4> QED BY <1>1, <3>1, <4>2 DEF Grounded, Nothing
    <3>2. CASE Installed(d) # None
      BY <1>1, <3>2, InstalledIs DEF Grounded
    <3> QED BY <3>1, <3>2
  <2>4. h = {} => WasInPlace(k)
    <3>1. j.before = {}
      BY DEF JobTyped
    <3> QED BY <1>1, <3>1 DEF WasInPlace
  <2> QED BY <1>1, <2>1, <2>2, <2>4 DEF Knows
<1>4. ASSUME Bearable(h), Recalls(j, d) PROVE Recalls(k, d)
  <2>1. Settled(d) /\ Fits(d, d.receipt) /\ k.before = {}
    BY <1>1, <1>4 DEF Recalls, JobTyped
  <2>2. Grounded(k, d)
    <3>1. CASE Installed(d) = None
      <4>1. \A v \in Versions : ~Stood(d, v)
        BY <3>1, InstalledIs DEF Stood, Stands
      <4>2. Alone(d, None)
        BY <2>1, <4>1 DEF Settled
      <4> QED BY <1>1, <3>1, <4>2 DEF Grounded
    <3>2. CASE Installed(d) # None
      BY <1>1, <3>2, InstalledIs DEF Grounded
    <3> QED BY <3>1, <3>2
  <2> QED BY <1>1, <2>1, <2>2 DEF Recalls, RecallsUnlock
<1> QED BY <1>2, <1>3, <1>4 DEF Sound

(* What is downloaded is chosen for this run's options. *)
LEMMA FetchIsSound ==
    ASSUME NEW j, JobTyped(j), j.at = "fetch", NEW d \in Disk, NEW h, NEW k,
           k = Choose(j, IF j.inst = None THEN "stage" ELSE "begin", DirOf(j.opt.appdir), Specs(j.opt.binaries))
    PROVE  Sound(j, d, h, k, d, h)
<1>0. /\ DirOf(j.opt.appdir) \in AppDirs
      /\ Specs(j.opt.binaries) \in SpecLists /\ Specs(j.opt.binaries) # <<>>
      /\ (IF j.inst = None THEN "stage" ELSE "begin") \in Places \ {"idle"}
      /\ j \in JobType /\ ~j.rolling /\ j.inst \in Versions \cup {None}
  BY DirOfIs, SpecsAre, JobIs DEF Places, JobTyped, SpecLists
<1>1. /\ k \in JobType
      /\ k.at = IF j.inst = None THEN "stage" ELSE "begin"
      /\ k.dir = DirOf(j.opt.appdir) /\ k.specs = Specs(j.opt.binaries)
      /\ k.opt = j.opt /\ k.inst = j.inst /\ k.old = j.old /\ k.before = j.before /\ k.rolling = j.rolling
      /\ k.backed = j.backed
  BY <1>0, ChooseDoes
<1>2. Comes(k)
  BY <1>0, <1>1 DEF Comes, JobTyped, PredecessorAt, Early
<1>3. ASSUME Unharmed(h), Knows(j, d, h) PROVE Knows(k, d, h)
  <2>1. AtRest(d, h) /\ Grounded(j, d) /\ (h = {} => WasInPlace(j))
    BY <1>3 DEF Knows
  <2>2. h = {} => WasInPlace(k)
    BY <1>1, <2>1 DEF WasInPlace
  <2>3. CASE j.inst = None
    <3>1. Nothing(d)
      <4>1. Alone(d, None)
        BY <2>1, <2>3 DEF Grounded
      <4>2. \A v \in Versions : ~Something(d, v, h)
        BY <4>1, NamesDiffer DEF Alone, Something, Recorded
      <4> QED BY <2>1, <4>2 DEF AtRest
    <3>2. AtStage(k, d)
      BY <1>0, <1>1, <2>3, <3>1 DEF AtStage, Replacing, Behind, Chosen, Vacant, Nothing
    <3> QED BY <1>1, <2>2, <2>3, <3>2 DEF Knows
  <2>4. CASE j.inst # None
    <3>1. Grounded(k, d) /\ k.specs # <<>>
      BY <1>0, <1>1, <2>1 DEF Grounded
    <3> QED BY <1>1, <2>1, <2>2, <2>4, <3>1 DEF Knows
  <2> QED BY <2>3, <2>4
<1>4. ASSUME Bearable(h), Recalls(j, d) PROVE Recalls(k, d)
  <2>1. Settled(d) /\ Grounded(j, d) /\ Fits(d, d.receipt) /\ k.before = {}
    BY <1>1, <1>4 DEF Recalls, JobTyped
  <2>2. Picks(k)
    BY <1>1 DEF Picks
  <2>3. CASE j.inst = None
    <3>1. Alone(d, None) /\ NoBackup(d) /\ NoTool(d)
      BY <2>1, <2>3, SettledIs DEF Grounded
    <3>2. RecallsStage(k, d)
      BY <1>1, <2>2, <2>3, <3>1 DEF RecallsStage, Saved, AppsLeft
    <3> QED BY <1>1, <2>1, <2>3, <3>2 DEF Recalls
  <2>4. CASE j.inst # None
    <3>1. Grounded(k, d)
      BY <1>1, <2>1 DEF Grounded
    <3> QED BY <1>1, <2>1, <2>2, <2>4, <3>1 DEF Recalls
  <2> QED BY <2>3, <2>4
<1> QED BY <1>2, <1>3, <1>4 DEF Sound

(* A download that fails leaves the cask as it was. *)
LEMMA NoFetchIsSound ==
    ASSUME NEW j, JobTyped(j), j.at = "fetch", NEW d \in Disk, NEW h, NEW k,
           k = Jump(j, "unlock", j.i, j.rolling, j.failed, j.backed)
    PROVE  Sound(j, d, h, k, d, h)
<1>0. ~j.rolling
  BY DEF JobTyped
<1>1. Comes(k) /\ Keeps(j, k) /\ k.at = "unlock"
  <2>1. MayBe(j, "unlock", j.i, j.rolling, j.failed, j.backed)
    BY <1>0, JobPlaceIs DEF MayBe, Places, PredecessorAt, Early
  <2> QED BY <2>1, JumpTyped
<1>2. ASSUME Knows(j, d, h) PROVE Knows(k, d, h)
  <2>1. AtRest(d, h) /\ (h = {} => WasInPlace(k))
    BY <1>1, <1>2, KeepsIs DEF Knows
  <2> QED BY <1>1, <2>1 DEF Knows
<1>3. ASSUME Recalls(j, d) PROVE Recalls(k, d)
  <2>1. Settled(d) /\ Fits(d, d.receipt) /\ k.before = {}
    BY <1>1, <1>3 DEF Recalls, JobTyped, Keeps
  <2> QED BY <1>1, <2>1 DEF Recalls, RecallsUnlock
<1> QED BY <1>1, <1>2, <1>3 DEF Sound

(* What is read of the records is what the predecessor was installed with. *)
LEMMA BeginIsSound ==
    ASSUME NEW j, JobTyped(j), j.at = "begin", NEW d \in Disk, NEW h, NEW k, NEW flag, NEW used,
           flag = IF Removing(j) THEN Unset ELSE MergedFlag(d, j.opt.appdir),
           used = IF Removing(j) THEN Unset ELSE j.opt.appdir,
           NEW old, old = [dir |-> RecordedDir(d, used), specs |-> InstalledSpecs(d)],
           k = Begun(j, d, old, flag, DirOf(flag))
    PROVE  Sound(j, d, h, k, d, h)
<1>0. /\ j \in JobType /\ ~j.rolling /\ j.inst \in Versions
      /\ old \in OldType /\ InstalledSpecs(d) # <<>>
      /\ flag \in AppDirs \cup {Unset} /\ DirOf(flag) \in AppDirs
  <2>1. j \in JobType /\ ~j.rolling /\ j.inst \in Versions /\ j.opt.appdir \in AppDirs \cup {Unset}
    BY JobIs DEF JobTyped, PredecessorAt, AllOptions
  <2>2. RecordedDir(d, used) \in AppDirs
    BY DirOfIs DEF RecordedDir
  <2>3. InstalledSpecs(d) \in SpecLists /\ InstalledSpecs(d) # <<>>
    BY SpecsAre DEF SpecLists
  <2>4. flag \in AppDirs \cup {Unset}
    BY <2>1, DiskIs DEF MergedFlag
  <2> QED BY <2>1, <2>2, <2>3, <2>4, DirOfIs DEF OldType
<1>1. /\ k \in JobType
      /\ k.at = "reverse" /\ k.i = 1 /\ k.before = {d} /\ k.dir = DirOf(flag) /\ k.opt.appdir = flag
      /\ k.old = old
      /\ k.cmd = j.cmd /\ k.inst = j.inst /\ k.specs = j.specs /\ k.rolling = j.rolling
      /\ k.backed = j.backed /\ k.opt.binaries = j.opt.binaries
  BY SMTT(60), <1>0, BeginDoes
<1>4. k.old.dir = RecordedDir(d, used) /\ k.old.specs = InstalledSpecs(d)
  BY SMTT(60), <1>1
<1>2. Comes(k)
  <2>1. j.inst # None
    BY <1>0, NamesDiffer
  <2> QED BY <1>0, <1>1, <1>4, <2>1 DEF Comes, JobTyped, PredecessorAt, Early
<1>3. ASSUME Unharmed(h), Knows(j, d, h) PROVE Knows(k, d, h)
  <2>1. AtRest(d, h) /\ Grounded(j, d) /\ (Removing(j) \/ j.specs # <<>>)
    BY <1>3 DEF Knows
  <2>2. Something(d, j.inst, h)
    BY <1>0, <2>1, GroundedIs, NamesDiffer DEF Grounded
  <2>3. k.old.dir = DirOf(d.config) /\ k.old.specs = d.receipt
    BY <1>4, <2>2 DEF Something, RecordedDir, InstalledSpecs
  <2>4. Found(k, d)
    BY <1>1, <2>2, <2>3 DEF Found, OldRecords, Something
  <2>5. Removing(k) \/ Chosen(k)
    BY SMTT(60), <1>1, <2>1 DEF Removing, Chosen
  <2>6. WasInPlace(k) <=> d.staged[j.inst].app = k.old.dir
    BY SMTT(60), <1>1 DEF WasInPlace
  <2>7. CASE In(d, j.inst, DirOf(d.config))
    <3>1. AtReverse(k, d)
      BY SMTT(60), <1>1, <2>3, <2>4, <2>5, <2>7 DEF AtReverse
    <3>2. WasInPlace(k)
      BY <2>3, <2>6, <2>7 DEF In, Has
    <3> QED BY <1>1, <3>1, <3>2 DEF Knows
  <2>8. CASE "half" \in h /\ Out(d, j.inst, DirOf(d.config))
    <3>1. ~WasInPlace(k)
      BY <1>0, <2>3, <2>6, <2>8, DirOfIs, NamesDiffer DEF Out, Unpacked, Has
    <3>2. TakenOut(k, d)
      BY <1>1, <2>3, <2>8, <3>1 DEF TakenOut, Kept
    <3>3. AtReverse(k, d)
      BY SMTT(60), <1>1, <2>4, <2>5, <3>1, <3>2 DEF AtReverse
    <3> QED BY <1>1, <2>8, <3>3 DEF Knows
  <2> QED BY <2>2, <2>7, <2>8 DEF Something
<1>5. ASSUME Bearable(h), Recalls(j, d) PROVE Recalls(k, d)
  <2>1. Settled(d) /\ Grounded(j, d) /\ Fits(d, d.receipt) /\ (Removing(j) \/ Picks(j))
    BY <1>5 DEF Recalls
  <2>2. Stood(d, j.inst)
    BY <1>0, <2>1, SettledIs, NamesDiffer DEF Grounded
  <2>3. Was(k) = d
    BY SMTT(60), <1>1 DEF Was
  <2>4. Origin(k)
    BY SMTT(60), <1>1, <1>4, <2>1, <2>2, <2>3 DEF Origin, Stood, InstalledSpecs
  <2>5. OnlyTouched(k, d)
    BY SMTT(60), <2>3 DEF OnlyTouched, SameRest, StagedBut, AppsBut
  <2>6. RecallsReverse(k, d)
    BY <1>1, <2>1, <2>2, <2>3, <2>5 DEF RecallsReverse, Stood, Stands, Removing, Picks
  <2> QED BY <1>1, <2>1, <2>4, <2>6 DEF Recalls
<1> QED BY <1>2, <1>3, <1>5 DEF Sound

-------------------------------------------------------------------------------
(* The end of a reversal, and the backup. *)

(* A predecessor that was only touched stands yet. *)
LEMMA TouchedStands ==
    ASSUME NEW j, Origin(j), NEW d, OnlyTouched(j, d)
    PROVE  /\ Alone(d, j.inst) /\ NoBackup(d) /\ d.meta[j.inst] > 0
           /\ d.receipt = j.old.specs /\ d.receipt # <<>> /\ ToolOf(d, j.inst, j.old.specs)
           /\ Stocked(d, j.inst) => Stood(d, j.inst)
           /\ NoTool(d) => ToolLeft(j, d)
           /\ d.app[j.old.dir] = None => AppsLeft(j, d, None)
<1>1. Stood(Was(j), j.inst) /\ j.old.specs = Was(j).receipt
  BY DEF Origin
<1>2. Alone(d, j.inst) /\ NoBackup(d) /\ d.meta[j.inst] > 0 /\ d.receipt = j.old.specs /\ d.receipt # <<>>
  BY <1>1 DEF OnlyTouched, SameRest, StagedBut, Stood, Stands, Alone, NoBackup
<1>3. ToolOf(d, j.inst, j.old.specs)
  BY <1>1, NamesDiffer DEF OnlyTouched, Stood, ToolOf
<1>4. Stocked(d, j.inst) => Stood(d, j.inst)
  BY <1>2, <1>3 DEF Stood, Stands
<1>5. NoTool(d) => ToolLeft(j, d)
  BY DEF OnlyTouched, NoTool, ToolLeft, LessTool
<1>6. d.app[j.old.dir] = None => AppsLeft(j, d, None)
  BY DEF OnlyTouched, AppsBut, AppsLeft, AppsWithin
<1> QED BY <1>2, <1>3, <1>4, <1>5, <1>6

(* A reversal that failed is rolled back, given up or, with --force, ignored. *)
LEMMA ReversedIsSound ==
    ASSUME NEW j, JobTyped(j), j.at = "reverse", j.i > Len(j.old.specs), NEW d \in Disk, NEW h, NEW k, NEW g,
           NEW next, next = IF Removing(j) THEN (IF j.failed /\ ~j.opt.force THEN "unlock" ELSE "records")
                            ELSE (IF j.failed THEN "install" ELSE "aside"),
           IF next = "install" THEN k = Jump(j, next, 1, Yes, j.failed, j.backed)
           ELSE k = Jump(j, next, 1, No, j.failed, j.backed),
           g = IF j.failed /\ next = "records" THEN h \cup {"forced"}
               ELSE IF j.failed /\ next = "unlock" THEN h \cup {"half"} ELSE h
    PROVE  Sound(j, d, h, k, d, g)
<1>0. ~j.rolling /\ j.inst \in Versions /\ j.old.specs \in {Kinds, Unlinked} /\ j.i > 2 /\ j.i \in Nat
  <2>1. ~j.rolling /\ j.inst \in Versions /\ j.old.specs # <<>>
    BY DEF JobTyped, PredecessorAt
  <2>2. j.old.specs \in {Kinds, Unlinked} /\ j.i \in Nat
    BY <2>1, JobIs DEF SpecLists
  <2>3. \A n \in {2, 3} : j.i > n => j.i > 2
    BY <2>2
  <2>4. Len(j.old.specs) \in {2, 3}
    BY <2>2, SpecsAre
  <2>5. j.i > 2
    BY <2>3, <2>4
  <2> QED BY <2>1, <2>2, <2>5
<1>1. /\ Comes(k) /\ Keeps(j, k) /\ k.at = next /\ k.i = 1 /\ k.backed = j.backed
      /\ k.rolling <=> next = "install"
  <2>1. CASE next = "install"
    <3>1. MayBe(j, next, 1, Yes, j.failed, j.backed)
      BY <1>0, <2>1, JobPlaceIs DEF MayBe, Places, PredecessorAt, Early, Yes
    <3>2. Comes(k) /\ Keeps(j, k) /\ k.at = next /\ k.i = 1 /\ k.backed = j.backed /\ k.rolling = Yes
      BY <2>1, <3>1, JumpTyped
    <3> QED BY <2>1, <3>2 DEF Yes
  <2>2. CASE next # "install"
    <3>1. MayBe(j, next, 1, No, j.failed, j.backed)
      BY <1>0, <2>2, JobPlaceIs, SpecsAre DEF JobTyped, MayBe, Places, PredecessorAt, Early, No
    <3>2. Comes(k) /\ Keeps(j, k) /\ k.at = next /\ k.i = 1 /\ k.backed = j.backed /\ k.rolling = No
      BY <2>2, <3>1, JumpTyped
    <3> QED BY <2>2, <3>2 DEF No
  <2> QED BY <2>1, <2>2
<1>2. ASSUME Unharmed(g), Knows(j, d, h) PROVE Knows(k, d, g)
  <2>1. AtReverse(j, d) /\ (h = {} => WasInPlace(k))
    BY <1>1, <1>2, KeepsIs DEF Knows
  <2>2. ~(j.failed /\ next = "records")
    BY <1>2 DEF Unharmed
  <2>3. g = {} => WasInPlace(k)
    BY <2>1
  <2>4. CASE Removing(j) /\ j.failed
    <3>1. next = "unlock" /\ "half" \in g
      BY <2>2, <2>4
    <3>2. Something(d, j.inst, g)
      BY <2>1, <3>1 DEF AtReverse, Found, OldRecords, Something, TakenOut
    <3> QED BY <1>0, <1>1, <2>3, <3>1, <3>2 DEF Knows, AtRest
  <2>5. CASE Removing(j) /\ ~j.failed
    <3>1. next = "records"
      BY <2>5
    <3>2. AtRecords(j, d)
      BY <1>0, <2>1, <2>5 DEF AtReverse, AtRecords, Found, Recorded, TakenOut, Out
    <3>3. AtRecords(k, d)
      BY <1>1, <3>2, KeepsIs
    <3> QED BY <1>1, <2>3, <3>1, <3>3 DEF Knows
  <2>6. CASE ~Removing(j) /\ j.failed
    <3>1. next = "install"
      BY <2>6
    <3>2. Found(k, d) /\ k.inst = j.inst /\ k.old = j.old /\ (TakenOut(k, d) <=> TakenOut(j, d))
      BY <1>1, <2>1, KeepsIs DEF AtReverse, Keeps
    <3>3. AtRollBack(k, d)
      BY <1>1, <2>1, <3>2 DEF AtReverse, AtRollBack
    <3> QED BY <1>1, <2>3, <3>1, <3>3 DEF Knows
  <2>7. CASE ~Removing(j) /\ ~j.failed
    <3>1. next = "aside"
      BY <2>7
    <3>2. Found(j, d) /\ TakenOut(j, d) /\ NoTool(d) /\ Chosen(j)
      BY <1>0, <2>1, <2>7 DEF AtReverse
    <3>3. AtAside(k, d)
      BY <1>1, <3>2, KeepsIs DEF AtAside
    <3> QED BY <1>1, <2>3, <3>1, <3>3 DEF Knows
  <2> QED BY <2>4, <2>5, <2>6, <2>7
<1>3. h \subseteq g
  OBVIOUS
<1>4. Unharmed(g) => Unharmed(h)
  BY <1>3 DEF Unharmed
<1>5. ASSUME Bearable(g), Recalls(j, d) PROVE Recalls(k, d)
  <2>1. RecallsReverse(j, d) /\ OnlyTouched(j, d) /\ Stocked(d, j.inst)
    BY <1>5 DEF Recalls, RecallsReverse
  <2>2. Fits(d, d.receipt) /\ (k.before # {} => Origin(k)) /\ (k.inst # None => k.before # {}) /\ Origin(j)
    BY <1>0, <1>1, <1>5, StillRecalls, NamesDiffer
  <2>3. ~(j.failed /\ next = "records")
    BY <1>5 DEF Bearable
  <2>4. Alone(d, j.inst) /\ NoBackup(d) /\ Stood(d, j.inst) /\ d.receipt = j.old.specs
    BY <2>1, <2>2, TouchedStands
  <2>5. CASE Removing(j) /\ j.failed
    <3>1. next = "unlock"
      BY <2>3, <2>5
    <3>2. Settled(d)
      BY <1>0, <2>4 DEF Settled
    <3> QED BY <1>1, <2>2, <3>1, <3>2 DEF Recalls, RecallsUnlock
  <2>6. CASE Removing(j) /\ ~j.failed
    <3>1. next = "records"
      BY <2>6
    <3>2. Alone(d, k.inst) /\ NoBackup(d) /\ NoTool(d)
      BY <1>0, <1>1, <2>1, <2>4, <2>6 DEF RecallsReverse, Keeps
    <3> QED BY <1>1, <2>2, <3>1, <3>2 DEF Recalls
  <2>7. CASE ~Removing(j) /\ j.failed
    <3>1. next = "install" /\ ~k.backed
      BY <1>1, <2>7 DEF JobTyped, Early
    <3>2. Remains(j, d)
      BY <2>4 DEF Remains, RollKinds
    <3>3. RecallsRollBack(k, d)
      BY <1>1, <3>1, <3>2, KeepsRecalled DEF RecallsRollBack
    <3> QED BY <1>1, <2>2, <3>1, <3>3 DEF Recalls
  <2>8. CASE ~Removing(j) /\ ~j.failed
    <3>1. next = "aside"
      BY <2>8
    <3>2. RecallsAside(j, d)
      BY <1>0, <2>1, <2>8 DEF RecallsReverse, RecallsAside
    <3>3. RecallsAside(k, d)
      BY <1>1, <3>2, KeepsRecalled DEF RecallsAside, Keeps
    <3> QED BY <1>1, <2>2, <3>1, <3>3 DEF Recalls
  <2> QED BY <2>5, <2>6, <2>7, <2>8
<1>6. Bearable(g) => Bearable(h)
  BY <1>3 DEF Bearable
<1> QED BY <1>1, <1>2, <1>3, <1>4, <1>5, <1>6 DEF Sound

(* The staged files of the predecessor are renamed. *)
LEMMA AsideIsSound ==
    ASSUME NEW j, JobTyped(j), j.at = "aside", NEW d \in Disk, NEW h, NEW k, NEW e,
           k = Jump(j, "asideMeta", j.i, j.rolling, j.failed, No),
           e = SetAside(d, j.inst)
    PROVE  Sound(j, d, h, k, e, h)
<1>0. ~j.rolling /\ j.inst \in Versions /\ j.i > 0 /\ j.old.specs # <<>>
  BY DEF JobTyped, PredecessorAt
<1>1. Comes(k) /\ Keeps(j, k) /\ k.at = "asideMeta" /\ k.i = j.i
  <2>1. MayBe(j, "asideMeta", j.i, j.rolling, j.failed, No)
    BY <1>0, JobPlaceIs DEF MayBe, Places, PredecessorAt, Early, No
  <2> QED BY <2>1, JumpTyped
<1>2. /\ e \in Disk /\ SameMetas(d, e) /\ SameOutside(d, e)
      /\ e.staged[j.inst] = Gone /\ StagedBut(d, e, j.inst)
      /\ e.aside[j.inst] = d.staged[j.inst] /\ AsideBut(d, e, j.inst)
  BY <1>0, SetAsideDoes
<1>3. ASSUME Unharmed(h), Knows(j, d, h) PROVE Knows(k, e, h)
  <2>1. AtAside(j, d) /\ (h = {} => WasInPlace(k))
    BY <1>1, <1>3, KeepsIs DEF Knows
  <2>2. OldRecords(j, e)
    BY <1>2, <2>1 DEF AtAside, Found, OldRecords, SameOutside
  <2>3. Staged(j, e)
    BY <1>2, <2>1 DEF AtAside, Found, Recorded, NoBackup, TakenOut, Out, Staged, AsideBut
  <2>4. e.meta[j.inst] > 0 /\ \A w \in Versions : w # j.inst => e.meta[w] = 0
    BY <1>2, <2>1 DEF AtAside, Found, Recorded, Alone, SameMetas
  <2>5. \A w \in Versions : e.staged[w] = Gone /\ e.asideMeta[w] = 0
    BY <1>2, <2>1 DEF AtAside, Found, Recorded, Alone, NoBackup, SameMetas, StagedBut
  <2>6. Vacant(j, e) /\ NoApp(e) /\ NoTool(e)
    BY <1>2, <2>1 DEF AtAside, TakenOut, Out, Vacant, NoApp, NoTool, SameOutside
  <2>7. AtAsideMeta(j, e)
    BY <2>1, <2>2, <2>3, <2>4, <2>5, <2>6 DEF AtAside, AtAsideMeta
  <2>8. AtAsideMeta(k, e)
    BY <1>1, <2>7, KeepsIs DEF AtAsideMeta, Keeps
  <2> QED BY <1>1, <2>1, <2>8 DEF Knows
<1>4. ASSUME Bearable(h), Recalls(j, d) PROVE Recalls(k, e)
  <2>1. RecallsAside(j, d) /\ OnlyTouched(j, d)
    BY <1>4 DEF Recalls, RecallsAside
  <2>2. Fits(e, e.receipt) /\ (k.before # {} => Origin(k)) /\ (k.inst # None => k.before # {}) /\ Origin(j)
    BY <1>0, <1>1, <1>2, <1>4, StillRecalls, NamesDiffer DEF Fits, SameOutside
  <2>3. Alone(d, j.inst) /\ NoBackup(d) /\ ToolLeft(j, d) /\ AppsLeft(j, d, None)
    BY <2>1, <2>2, TouchedStands DEF RecallsAside
  <2>4. Aside(j, e)
    BY <1>2, <2>1, <2>3 DEF RecallsAside, Aside, NoBackup, AsideBut
  <2>5. \A w \in Versions : e.staged[w] = Gone
    BY <1>2, <2>3 DEF Alone, StagedBut
  <2>6. e.meta = Was(j).meta /\ e.asideMeta = Was(j).asideMeta /\ e.receipt = Was(j).receipt
    BY <1>2, <2>1 DEF OnlyTouched, SameRest, SameMetas, SameOutside
  <2>7. AppsLeft(j, e, None) /\ NoTool(e) /\ ToolLeft(j, e) /\ Picks(j)
    BY <1>2, <2>1, <2>3, SameAppsLeft DEF RecallsAside, NoTool, ToolLeft, SameOutside
  <2>8. RecallsAsideMeta(j, e)
    BY <2>4, <2>5, <2>6, <2>7 DEF RecallsAsideMeta
  <2>9. RecallsAsideMeta(k, e)
    BY <1>1, <2>8, KeepsRecalled DEF RecallsAsideMeta
  <2> QED BY <1>1, <2>2, <2>9 DEF Recalls
<1> QED BY <1>1, <1>2, <1>3, <1>4 DEF Sound

(* Then its caskfile, and the backup is complete. *)
LEMMA AsideMetaIsSound ==
    ASSUME NEW j, JobTyped(j), j.at = "asideMeta", NEW d \in Disk, NEW h, NEW k, NEW e,
           k = Jump(j, "stage", j.i, j.rolling, j.failed, Yes),
           e = SetAsideMeta(d, j.inst)
    PROVE  Sound(j, d, h, k, e, h)
<1>0. ~j.rolling /\ j.inst \in Versions
  BY DEF JobTyped, PredecessorAt
<1>1. Comes(k) /\ Keeps(j, k) /\ k.at = "stage"
  <2>1. MayBe(j, "stage", j.i, j.rolling, j.failed, Yes)
    BY <1>0, JobPlaceIs DEF MayBe, Places, PredecessorAt, Early, Yes
  <2> QED BY <2>1, JumpTyped
<1>2. /\ e \in Disk /\ SameDirs(d, e) /\ SameOutside(d, e)
      /\ e.meta[j.inst] = 0 /\ MetaBut(d, e, j.inst)
      /\ e.asideMeta[j.inst] = d.meta[j.inst] /\ AsideMetaBut(d, e, j.inst)
  BY <1>0, SetAsideMetaDoes
<1>3. ASSUME Unharmed(h), Knows(j, d, h) PROVE Knows(k, e, h)
  <2>1. AtAsideMeta(j, d) /\ (h = {} => WasInPlace(k))
    BY <1>1, <1>3, KeepsIs DEF Knows
  <2>2. OldRecords(j, e) /\ Staged(j, e)
    BY <1>2, <2>1 DEF AtAsideMeta, OldRecords, Staged, SameOutside, SameDirs
  <2>3. Caskfiled(j, e)
    BY <1>2, <2>1 DEF AtAsideMeta, Caskfiled, AsideMetaBut
  <2>4. Replacing(j, e)
    BY <1>0, <2>2, <2>3, NamesDiffer DEF Replacing, Behind
  <2>5. Alone(e, None)
    BY <1>2, <2>1 DEF AtAsideMeta, Alone, SameDirs, MetaBut
  <2>6. Vacant(j, e) /\ NoApp(e) /\ NoTool(e)
    BY <1>2, <2>1, SameApps DEF AtAsideMeta, NoTool, SameOutside
  <2>7. AtStage(k, e)
    BY <1>1, <2>1, <2>4, <2>5, <2>6, KeepsIs DEF AtStage, AtAsideMeta
  <2> QED BY <1>1, <2>1, <2>7 DEF Knows
<1>4. ASSUME Bearable(h), Recalls(j, d) PROVE Recalls(k, e)
  <2>1. RecallsAsideMeta(j, d)
    BY <1>4 DEF Recalls
  <2>2. Fits(e, e.receipt) /\ (k.before # {} => Origin(k)) /\ (k.inst # None => k.before # {}) /\ Origin(j)
    BY <1>0, <1>1, <1>2, <1>4, StillRecalls, NamesDiffer DEF Fits, SameOutside
  <2>3. Alone(Was(j), j.inst) /\ NoBackup(Was(j))
    BY <2>2 DEF Origin, Stood, Stands
  <2>4. Aside(j, e) /\ ToolLeft(j, e) /\ Receipts(j, e)
    BY <1>2, <2>1 DEF RecallsAsideMeta, Aside, ToolLeft, Receipts, SameDirs, SameOutside
  <2>5. AsideMeta(j, e)
    BY <1>2, <2>1, <2>3 DEF RecallsAsideMeta, AsideMeta, NoBackup, AsideMetaBut
  <2>6. Saved(j, e)
    BY <1>0, <2>4, <2>5, NamesDiffer DEF Saved
  <2>7. Alone(e, None)
    BY <1>2, <2>1, <2>3 DEF RecallsAsideMeta, Alone, SameDirs, MetaBut
  <2>8. AppsLeft(j, e, None) /\ NoTool(e) /\ Picks(j)
    BY <1>2, <2>1, SameAppsLeft DEF RecallsAsideMeta, NoTool, SameOutside
  <2>9. RecallsStage(k, e)
    BY <1>1, <2>6, <2>7, <2>8, KeepsRecalled DEF RecallsStage
  <2> QED BY <1>1, <2>2, <2>9 DEF Recalls
<1> QED BY <1>1, <1>2, <1>3, <1>4 DEF Sound

(* A backup that cannot be made: what is aside already comes back. *)
LEMMA NoBackupIsSound ==
    ASSUME NEW j, JobTyped(j), j.at \in {"aside", "asideMeta"}, NEW d \in Disk, NEW h, NEW k, NEW c, NEW f, NEW e,
           k = Jump(j, "install", j.i, Yes, Yes, j.backed),
           c = IF j.at = "aside" THEN ClearAside(d, j.inst) ELSE ClearAsideMeta(d, j.inst),
           f = Restore(c, j.inst), e = RestoreMeta(f, j.inst)
    PROVE  Sound(j, d, h, k, e, h)
<1>0. j.inst \in Versions /\ j.i > 0
  BY DEF JobTyped, PredecessorAt
<1>1. Comes(k) /\ Keeps(j, k) /\ k.at = "install" /\ k.i = j.i /\ k.rolling /\ ~k.backed
  <2>1. MayBe(j, "install", j.i, Yes, Yes, j.backed)
    BY <1>0, JobPlaceIs DEF MayBe, Places, PredecessorAt, Early, Yes
  <2>2. Comes(k) /\ Keeps(j, k) /\ k.at = "install" /\ k.i = j.i /\ k.rolling = Yes /\ k.backed = j.backed
    BY <2>1, JumpTyped
  <2> QED BY <2>2 DEF JobTyped, Early, Yes
<1>2. /\ c \in Disk /\ SameOutside(d, c) /\ c.staged = d.staged /\ c.meta = d.meta
      /\ AsideBut(d, c, j.inst) /\ AsideMetaBut(d, c, j.inst)
      /\ IF j.at = "aside" THEN c.aside[j.inst] = Gone /\ c.asideMeta = d.asideMeta
         ELSE c.asideMeta[j.inst] = 0 /\ c.aside = d.aside
  <2>1. CASE j.at = "aside"
    <3>1. c = ClearAside(d, j.inst)
      BY <2>1
    <3>2. /\ c \in Disk /\ SameMetas(d, c) /\ SameOutside(d, c) /\ c.staged = d.staged
          /\ c.aside[j.inst] = Gone /\ AsideBut(d, c, j.inst)
      BY <1>0, <3>1, ClearDoes
    <3> QED BY <2>1, <3>2 DEF SameMetas, AsideMetaBut
  <2>2. CASE j.at # "aside"
    <3>1. c = ClearAsideMeta(d, j.inst)
      BY <2>2
    <3>2. /\ c \in Disk /\ SameDirs(d, c) /\ SameOutside(d, c) /\ c.meta = d.meta
          /\ c.asideMeta[j.inst] = 0 /\ AsideMetaBut(d, c, j.inst)
      BY <1>0, <3>1, ClearDoes
    <3> QED BY <2>2, <3>2 DEF SameDirs, AsideBut
  <2> QED BY <2>1, <2>2
<1>3. /\ f \in Disk /\ SameMetas(c, f) /\ SameOutside(c, f)
      /\ StagedBut(c, f, j.inst) /\ AsideBut(c, f, j.inst)
      /\ f.aside[j.inst] = Gone
      /\ f.staged[j.inst] = IF c.aside[j.inst] = Gone THEN c.staged[j.inst] ELSE c.aside[j.inst]
  BY <1>0, <1>2, RestoreDoes
<1>4. /\ e \in Disk /\ SameDirs(f, e) /\ SameOutside(f, e)
      /\ MetaBut(f, e, j.inst) /\ AsideMetaBut(f, e, j.inst)
      /\ e.asideMeta[j.inst] = 0
      /\ e.meta[j.inst] = IF f.asideMeta[j.inst] = 0 THEN f.meta[j.inst] ELSE f.asideMeta[j.inst]
  BY <1>0, <1>3, RestoreMetaDoes
<1>5. ASSUME Unharmed(h), Knows(j, d, h) PROVE Knows(k, e, h)
  <2>1. SameOutside(d, e)
    BY <1>2, <1>3, <1>4 DEF SameOutside
  <2>2. CASE j.at = "aside"
    <3>1. AtAside(j, d) /\ (h = {} => WasInPlace(k))
      BY <1>1, <1>5, <2>2, KeepsIs DEF Knows
    <3>2. NoBackup(d) /\ Alone(d, j.inst) /\ d.meta[j.inst] > 0 /\ OldRecords(j, d) /\ TakenOut(j, d) /\ NoTool(d) /\ j.i = 1
      BY <3>1 DEF AtAside, Found, Recorded
    <3>3. e.staged[j.inst] = d.staged[j.inst] /\ e.meta[j.inst] = d.meta[j.inst]
      BY <1>0, <1>2, <1>3, <1>4, <2>2, <3>2 DEF NoBackup, SameDirs, SameMetas
    <3>4. NoBackup(e)
      BY SMTT(60), <1>2, <1>3, <1>4, <2>2, <3>2 DEF NoBackup, SameDirs, SameMetas, AsideBut, AsideMetaBut
    <3>5. \A w \in Versions : w # j.inst => e.staged[w] = Gone /\ e.meta[w] = 0
      BY <1>2, <1>3, <1>4, <3>2 DEF Alone, StagedBut, MetaBut, SameDirs, SameMetas
    <3>6. OldRecords(j, e) /\ NoTool(e) /\ TakenOut(j, e)
      BY <2>1, <3>2, <3>3 DEF OldRecords, NoTool, TakenOut, Out, NoApp, SameOutside
    <3>7. AtRollBack(k, e)
      BY <1>0, <1>1, <3>2, <3>3, <3>4, <3>5, <3>6, PutBack
    <3> QED BY <1>1, <3>1, <3>7 DEF Knows
  <2>3. CASE j.at = "asideMeta"
    <3>1. AtAsideMeta(j, d) /\ (h = {} => WasInPlace(k))
      BY <1>1, <1>5, <2>3, KeepsIs DEF Knows
    <3>2. c.aside = d.aside /\ d.aside[j.inst] # Gone
      BY <1>2, <2>3, <3>1 DEF AtAsideMeta, Staged, Unpacked, Has
    <3>3. e.staged[j.inst] = d.aside[j.inst] /\ e.meta[j.inst] = d.meta[j.inst]
      <4>1. c.asideMeta[j.inst] = 0 /\ f.asideMeta = c.asideMeta /\ f.meta = c.meta
        BY <1>2, <1>3, <2>3 DEF SameMetas
      <4>2. f.staged[j.inst] = d.aside[j.inst] /\ e.staged = f.staged
        BY <1>2, <1>3, <1>4, <3>2 DEF SameDirs
      <4> QED BY <1>2, <1>4, <4>1, <4>2
    <3>4. NoBackup(e)
      BY SMTT(60), <1>2, <1>3, <1>4, <2>3, <3>1, <3>2
        DEF NoBackup, AtAsideMeta, Staged, SameDirs, SameMetas, AsideBut, AsideMetaBut
    <3>5. \A w \in Versions : w # j.inst => e.staged[w] = Gone /\ e.meta[w] = 0
      BY <1>2, <1>3, <1>4, <3>1 DEF AtAsideMeta, StagedBut, MetaBut, SameDirs, SameMetas
    <3>6. OldRecords(j, e) /\ NoTool(e) /\ TakenOut(j, e)
      BY <1>0, <2>1, <3>1, <3>3, NamesDiffer
      DEF AtAsideMeta, Staged, Kept, Vacant, OldRecords, NoTool, TakenOut, Out, NoApp, SameOutside
    <3>7. AtRollBack(k, e)
      <4>1. k.i = 1 /\ e.meta[j.inst] > 0
        BY <1>1, <3>1, <3>3 DEF AtAsideMeta
      <4> QED BY <1>0, <1>1, <4>1, <3>4, <3>5, <3>6, PutBack
    <3> QED BY <1>1, <3>1, <3>7 DEF Knows
  <2> QED BY <2>2, <2>3
<1>6. ASSUME Bearable(h), Recalls(j, d) PROVE Recalls(k, e)
  <2>1. SameOutside(d, e)
    BY <1>2, <1>3, <1>4 DEF SameOutside
  <2>2. Fits(e, e.receipt) /\ (k.before # {} => Origin(k)) /\ (k.inst # None => k.before # {}) /\ Origin(j)
    BY <1>0, <1>1, <1>6, <2>1, StillRecalls, NamesDiffer DEF Fits, SameOutside
  <2>3. Remains(k, e)
    <3>1. CASE j.at = "aside"
      <4>1. RecallsAside(j, d) /\ OnlyTouched(j, d)
        BY <1>6, <3>1 DEF Recalls, RecallsAside
      <4>2. Alone(d, j.inst) /\ NoBackup(d) /\ d.meta = Was(j).meta /\ d.receipt = Was(j).receipt
        BY <2>2, <4>1, TouchedStands DEF OnlyTouched, SameRest
      <4>3. e.staged[j.inst] = d.staged[j.inst] /\ e.meta[j.inst] = d.meta[j.inst]
        BY <1>0, <1>2, <1>3, <1>4, <3>1, <4>2 DEF NoBackup, SameDirs, SameMetas
      <4>4. NoBackup(e)
        BY SMTT(60), <1>2, <1>3, <1>4, <3>1, <4>2 DEF NoBackup, SameDirs, SameMetas, AsideBut, AsideMetaBut
      <4>5. Alone(e, j.inst)
        BY <1>2, <1>3, <1>4, <4>2 DEF Alone, StagedBut, MetaBut, SameDirs, SameMetas
      <4>6. NoTool(e) /\ Picks(j) /\ Receipts(j, e)
        BY <2>1, <4>1, <4>2 DEF RecallsAside, NoTool, Receipts, SameOutside
      <4>7. Taken(j, e.staged[j.inst]) /\ e.meta[j.inst] = Was(j).meta[j.inst]
        BY <4>1, <4>2, <4>3 DEF RecallsAside
      <4> QED BY <1>0, <1>1, <2>2, <4>4, <4>5, <4>6, <4>7, StandsAgain
    <3>2. CASE j.at = "asideMeta"
      <4>1. RecallsAsideMeta(j, d)
        BY <1>6, <3>2 DEF Recalls
      <4>2. c.aside = d.aside /\ d.aside[j.inst] # Gone /\ Alone(Was(j), j.inst) /\ NoBackup(Was(j))
        BY <1>2, <2>2, <3>2, <4>1 DEF RecallsAsideMeta, Aside, Taken, Origin, Stood, Stands
      <4>3. e.staged[j.inst] = d.aside[j.inst] /\ e.meta[j.inst] = d.meta[j.inst]
        <5>1. c.asideMeta[j.inst] = 0 /\ f.asideMeta = c.asideMeta /\ f.meta = c.meta
          BY <1>2, <1>3, <3>2 DEF SameMetas
        <5>2. f.staged[j.inst] = d.aside[j.inst] /\ e.staged = f.staged
          BY <1>2, <1>3, <1>4, <4>2 DEF SameDirs
        <5> QED BY <1>2, <1>4, <5>1, <5>2
      <4>4. NoBackup(e)
        <5>1. \A w \in Versions : e.aside[w] = Gone
          BY <1>2, <1>3, <1>4, <3>2, <4>1 DEF RecallsAsideMeta, Aside, SameDirs, AsideBut
        <5>2. \A w \in Versions : e.asideMeta[w] = 0
          BY SMTT(60), <1>2, <1>3, <1>4, <3>2, <4>1, <4>2 DEF RecallsAsideMeta, NoBackup, SameMetas, AsideMetaBut
        <5> QED BY <5>1, <5>2 DEF NoBackup
      <4>5. Alone(e, j.inst)
        <5>1. \A w \in Versions : w # j.inst => e.staged[w] = Gone
          BY SMTT(60), <1>2, <1>3, <1>4, <4>1 DEF RecallsAsideMeta, StagedBut, SameDirs
        <5>2. \A w \in Versions : w # j.inst => e.meta[w] = 0
          BY <1>2, <1>3, <1>4, <4>1, <4>2 DEF RecallsAsideMeta, Alone, MetaBut, SameMetas
        <5> QED BY <5>1, <5>2 DEF Alone
      <4>6. NoTool(e) /\ Picks(j) /\ Receipts(j, e)
        BY <2>1, <4>1 DEF RecallsAsideMeta, NoTool, Receipts, SameOutside
      <4>7. Taken(j, e.staged[j.inst]) /\ e.meta[j.inst] = Was(j).meta[j.inst]
        BY <4>1, <4>3 DEF RecallsAsideMeta, Aside
      <4> QED BY <1>0, <1>1, <2>2, <4>4, <4>5, <4>6, <4>7, StandsAgain
    <3> QED BY <3>1, <3>2
  <2>4. RecallsRollBack(k, e)
    BY <1>1, <2>3 DEF RecallsRollBack
  <2> QED BY <1>1, <2>2, <2>4 DEF Recalls
<1> QED BY <1>1, <1>4, <1>5, <1>6 DEF Sound

-------------------------------------------------------------------------------
(* The artifacts, one by one. *)

(* A list of kinds that is not empty. *)
Listed(specs) == specs \in {Kinds, Unlinked}

(* The kind of one of its artifacts. *)
KindAt(specs, i, kind) == kind = specs[i]

(* What a step that cannot fail makes of the disk. *)
Gets(d, outcomes, e) == e \in IF outcomes = {} THEN {d} ELSE outcomes

(* The kinds of a list, by number. *)
LEMMA SpecsAt ==
    ASSUME NEW specs, Listed(specs)
    PROVE  /\ Len(specs) \in {2, 3} /\ specs[1] = "app"
           /\ specs[2] \in {"binary", "postflight_steps"}
           /\ specs[2] = "binary" => specs = Kinds
           /\ specs[2] # "binary" => specs # Kinds
           /\ Len(specs) = 3 => specs[3] = "postflight_steps"
BY SpecsAre DEF Listed

(* An app that is in its place comes back among the staged files. *)
LEMMA AppComesBack ==
    ASSUME NEW d \in Disk, NEW v \in Versions, NEW dir \in AppDirs, In(d, v, dir), NEW opt, NEW skip,
           NEW e, Gets(d, UninstallOne(d, "app", v, dir, opt, skip), e)
    PROVE  /\ e \in Disk /\ SameRest(d, e) /\ e.tool = d.tool
           /\ StagedBut(d, e, v) /\ AppsBut(d, e, dir)
           /\ Has(e.staged[v], v) /\ e.app[dir] = None /\ NoApp(e)
<1>1. d.staged[v] # Gone /\ d.staged[v].tool /\ d.staged[v].app = dir /\ d.app[dir] = v
  BY DEF In, Has
<1>2. MayMoveBack(d, v, dir, opt, skip)
  BY <1>1, NamesDiffer DEF MayMoveBack
<1>3. e = MoveBack(d, v, dir)
  <2>1. MoveBack(d, v, dir) \in UninstallOne(d, "app", v, dir, opt, skip)
    BY <1>2, UninstallOneIs
  <2> QED BY <2>1, UninstallOneIs DEF Gets
<1>4. /\ e \in Disk /\ SameRest(d, e) /\ e.tool = d.tool
      /\ StagedBut(d, e, v) /\ AppsBut(d, e, dir)
      /\ AppIs(e, dir, None)
      /\ Has(e.staged[v], d.app[dir])
  BY <1>1, <1>3, MoveBackDoes
<1>5. Has(e.staged[v], v) /\ e.app[dir] = None
  BY <1>1, <1>4 DEF AppIs
<1>6. NoApp(e)
  BY <1>4, <1>5, NamesDiffer DEF In, AppsBut, NoApp
<1> QED BY <1>4, <1>5, <1>6

(* An app that is not there leaves its place in the staged files empty. *)
LEMMA AppIsMissed ==
    ASSUME NEW d \in Disk, NEW v \in Versions, NEW dir \in AppDirs, Out(d, v, dir), NEW opt, NEW skip,
           NEW e \in UninstallOne(d, "app", v, dir, opt, skip)
    PROVE  /\ e \in Disk /\ SameRest(d, e) /\ e.tool = d.tool
           /\ StagedBut(d, e, v) /\ Out(e, v, dir) /\ e.staged[v].app = None
<1>1. d.staged[v] # Gone /\ d.staged[v].tool /\ d.app[dir] = None /\ NoApp(d)
  BY DEF Out, Unpacked, Has
<1>2. e = MoveBack(d, v, dir)
  BY UninstallOneIs
<1>3. /\ e \in Disk /\ SameRest(d, e) /\ e.tool = d.tool
      /\ StagedBut(d, e, v) /\ AppsBut(d, e, dir)
      /\ AppIs(e, dir, None)
      /\ Has(e.staged[v], d.app[dir])
  BY <1>1, <1>2, MoveBackDoes
<1>4. Has(e.staged[v], None) /\ e.app[dir] = None
  BY <1>1, <1>3 DEF AppIs
<1>5. NoApp(e)
  BY <1>1, <1>3, <1>4, NamesDiffer DEF AppsBut, NoApp
<1> QED BY <1>3, <1>4, <1>5 DEF Out, Unpacked, Has

(* The second artifact is the tool, if that was installed; after it nothing is left. *)
LEMMA RestIsUninstalled ==
    ASSUME NEW d \in Disk, NEW v \in Versions, NEW dir \in AppDirs, NEW specs, Listed(specs), ToolOf(d, v, specs),
           NEW i \in Nat, i > 1, i <= Len(specs), NEW opt, NEW skip,
           NEW kind, KindAt(specs, i, kind), NEW e, Gets(d, UninstallOne(d, kind, v, dir, opt, skip), e)
    PROVE  /\ e \in Disk /\ SameRest(d, e) /\ e.staged = d.staged /\ e.app = d.app
           /\ ToolOf(e, v, specs)
           /\ e.tool = d.tool \/ (e.tool = None /\ d.tool \in Versions)
           /\ i = 2 \/ NoTool(d) => NoTool(e)
<1>1. CASE kind = "binary"
  <2>1. i = 2
    <3>1. i = 2 \/ (i = 3 /\ Len(specs) = 3)
      <4>1. Len(specs) \in {2, 3}
        BY SpecsAt
      <4>2. \A n \in {2, 3} : i <= n => i = 2 \/ (i = 3 /\ n = 3)
        OBVIOUS
      <4> QED BY <4>1, <4>2
    <3>2. specs[i] = "binary"
      BY <1>1 DEF KindAt
    <3> QED BY <3>1, <3>2, SpecsAt
  <2>3. e = UnlinkTool(d, v)
    BY <1>1, UninstallOneIs DEF Gets
  <2>2. /\ e \in Disk /\ SameRest(d, e) /\ e.staged = d.staged /\ e.app = d.app
        /\ e.tool = d.tool \/ (e.tool = None /\ d.tool \in Versions)
        /\ e.tool # v
    BY <2>3, UnlinkToolDoes
  <2> QED BY <2>1, <2>2, NamesDiffer DEF ToolOf, NoTool
<1>2. CASE kind # "binary"
  <2>1. kind = "postflight_steps" /\ (i = 2 => specs # Kinds)
    BY <1>2, SpecsAt DEF KindAt
  <2>2. e = d
    BY <2>1, UninstallOneIs DEF Gets
  <2> QED BY <2>1, <2>2 DEF ToolOf, NoTool, SameRest
<1> QED BY <1>1, <1>2

(* An app that is staged, or in its place already, is in its place once it is installed. *)
LEMMA AppIsPlaced ==
    ASSUME NEW d \in Disk, NEW v \in Versions, NEW dir \in AppDirs,
           (Has(d.staged[v], v) /\ NoApp(d)) \/ In(d, v, dir) \/ Out(d, v, dir),
           NEW opt, NEW e \in InstallOne(d, "app", v, dir, opt)
    PROVE  /\ e \in Disk /\ SameRest(d, e) /\ e.tool = d.tool
           /\ StagedBut(d, e, v) /\ AppsBut(d, e, dir)
           /\ In(e, v, dir)
<1>1. HasSource(d, v) /\ (e = MoveApp(d, v, dir) \/ e = AdoptApp(d, v, dir))
  BY InstallOneIs DEF MayMoveApp, MayAdoptApp
<1>2. d.staged[v] # Gone /\ d.staged[v].tool /\ Source(d, v) = v
  BY <1>1, NamesDiffer DEF HasSource, Source, In, Out, Unpacked, Has
<1>3. /\ e \in Disk /\ SameRest(d, e) /\ e.tool = d.tool
      /\ StagedBut(d, e, v) /\ AppsBut(d, e, dir)
      /\ AppIs(e, dir, v)
      /\ Has(e.staged[v], dir)
  <2>1. CASE e = MoveApp(d, v, dir)
    BY <1>2, <2>1, MoveAppDoes
  <2>2. CASE e = AdoptApp(d, v, dir)
    BY <1>2, <2>2, AdoptAppDoes
  <2> QED BY <1>1, <2>1, <2>2
<1>4. e.app[dir] = v
  BY <1>3 DEF AppIs
<1>5. \A f \in AppDirs : f # dir => d.app[f] \notin Versions
  BY DEF NoApp, In, Out
<1> QED BY <1>3, <1>4, <1>5 DEF AppsBut, In

(* An app among the staged files is in its place, whosever are the others. *)
LEMMA AppIsMoved ==
    ASSUME NEW d \in Disk, NEW v \in Versions, NEW dir \in AppDirs, Has(d.staged[v], v),
           NEW opt, NEW e \in InstallOne(d, "app", v, dir, opt)
    PROVE  /\ e \in Disk /\ SameRest(d, e) /\ e.tool = d.tool
           /\ StagedBut(d, e, v) /\ AppsBut(d, e, dir)
           /\ Set(e, v, dir)
<1>1. HasSource(d, v) /\ (e = MoveApp(d, v, dir) \/ e = AdoptApp(d, v, dir))
  BY InstallOneIs DEF MayMoveApp, MayAdoptApp
<1>2. d.staged[v] # Gone /\ d.staged[v].tool /\ Source(d, v) = v
  BY NamesDiffer DEF Source, Has
<1>3. /\ e \in Disk /\ SameRest(d, e) /\ e.tool = d.tool
      /\ StagedBut(d, e, v) /\ AppsBut(d, e, dir)
      /\ AppIs(e, dir, v)
      /\ Has(e.staged[v], dir)
  <2>1. CASE e = MoveApp(d, v, dir)
    BY <1>2, <2>1, MoveAppDoes
  <2>2. CASE e = AdoptApp(d, v, dir)
    BY <1>2, <2>2, AdoptAppDoes
  <2> QED BY <1>1, <2>1, <2>2
<1> QED BY <1>3, NamesDiffer DEF AppIs, Set

(* The others change the tool at most. *)
LEMMA RestIsInstalled ==
    ASSUME NEW d \in Disk, NEW v \in Versions, NEW dir \in AppDirs, NEW specs, Listed(specs),
           NEW i \in Nat, i > 1, i <= Len(specs), NEW opt, NEW kind, KindAt(specs, i, kind), NEW e \in InstallOne(d, kind, v, dir, opt)
    PROVE  /\ e \in Disk /\ SameRest(d, e) /\ e.staged = d.staged /\ e.app = d.app
           /\ \A old : ToolOf(d, v, old) /\ (specs = Kinds => old = Kinds) => ToolOf(e, v, old)
           /\ \/ e.tool = d.tool
              \/ e.tool = v /\ d.tool # "formula" /\ (d.tool = "other" => opt.force)
           /\ i = 2 \/ Fits(d, specs) => Fits(e, specs)
<1>1. CASE kind = "binary"
  <2>1. specs = Kinds
    <3>1. i = 2 \/ (i = 3 /\ Len(specs) = 3)
      <4>1. Len(specs) \in {2, 3}
        BY SpecsAt
      <4>2. \A n \in {2, 3} : i <= n => i = 2 \/ (i = 3 /\ n = 3)
        OBVIOUS
      <4> QED BY <4>1, <4>2
    <3>2. specs[i] = "binary"
      BY <1>1 DEF KindAt
    <3> QED BY <3>1, <3>2, SpecsAt
  <2>3. e = LinkTool(d, v) /\ MayLinkTool(d, v, opt)
    BY <1>1, InstallOneIs
  <2>2. /\ e \in Disk /\ SameRest(d, e) /\ e.staged = d.staged /\ e.app = d.app
        /\ e.tool = IF d.tool = "formula" THEN "formula" ELSE v
    BY <2>3, LinkToolDoes
  <2>4. d.tool = "other" => opt.force
    BY <2>3, NamesDiffer DEF MayLinkTool, None
  <2>5. e.tool # "other"
    BY <2>2, NamesDiffer
  <2>6. \A old : ToolOf(d, v, old) /\ (specs = Kinds => old = Kinds) => ToolOf(e, v, old)
    BY <2>1, <2>2, NamesDiffer DEF ToolOf
  <2>7. e.tool = d.tool \/ (e.tool = v /\ d.tool # "formula")
    BY <2>2
  <2> QED BY <2>2, <2>4, <2>5, <2>6, <2>7 DEF Fits
<1>2. CASE kind # "binary"
  <2>1. kind = "postflight_steps" /\ (i = 2 => specs # Kinds)
    BY <1>2, SpecsAt DEF KindAt
  <2>2. e = d
    BY <2>1, InstallOneIs
  <2> QED BY <2>1, <2>2 DEF ToolOf, Fits, SameRest
<1> QED BY <1>1, <1>2

(* The predecessor's app, where it is or staged, is always installed again: by
   force.  Only a copy that was lost before is not. *)
LEMMA PredecessorFits ==
    ASSUME NEW d \in Disk, NEW v \in Versions, NEW dir \in AppDirs, NEW specs, Listed(specs),
           NEW i \in Nat, i > 0, i <= Len(specs), NEW opt, opt.force = TRUE,
           In(d, v, dir) \/ (i = 1 /\ Out(d, v, dir)),
           NEW kind, KindAt(specs, i, kind), InstallOne(d, kind, v, dir, opt) = {}
    PROVE  i = 1 /\ Out(d, v, dir) /\ d.staged[v].app = None
<1>1. i = 1
  <2> SUFFICES ASSUME i # 1 PROVE FALSE
    OBVIOUS
  <2>1. In(d, v, dir)
    OBVIOUS
  <2>2. CASE kind = "binary"
    <3>1. MayLinkTool(d, v, opt)
      BY <2>1 DEF MayLinkTool, Resolves, In, Has
    <3>2. LinkTool(d, v) \in InstallOne(d, kind, v, dir, opt)
      BY <2>2, <3>1, InstallOneIs
    <3> QED BY <3>2
  <2>3. CASE kind # "binary"
    <3>1. kind = "postflight_steps"
      BY <2>3, SpecsAt DEF KindAt
    <3>2. InstallOne(d, kind, v, dir, opt) = {d}
      BY <3>1, InstallOneIs
    <3> QED BY <3>2
  <2> QED BY <2>2, <2>3
<1>2. ~MayMoveApp(d, v, dir, opt) /\ ~MayAdoptApp(d, v, dir, opt)
  <2>1. kind = "app"
    BY <1>1, SpecsAt DEF KindAt
  <2> QED BY <2>1, InstallOneIs
<1>3. ~In(d, v, dir)
  BY <1>2, NamesDiffer DEF In, Has, MayMoveApp, MayAdoptApp, HasSource
<1> QED BY <1>1, <1>2, <1>3 DEF Out, Unpacked, Has, MayMoveApp, HasSource

-------------------------------------------------------------------------------
(* The steps that install and uninstall an artifact. *)

(* Once something went wrong nothing more is claimed. *)
LEMMA HarmedIsSound ==
    ASSUME NEW j, NEW d, NEW h, NEW k, Comes(k), NEW e \in Disk, NEW g, h \subseteq g, ~Bearable(g)
    PROVE  Sound(j, d, h, k, e, g)
BY DEF Sound, Bearable, Unharmed

(* What move_back leaves in the place of the app and among the staged files. *)
LEMMA AppIsTaken ==
    ASSUME NEW d \in Disk, NEW v \in Versions, NEW dir \in AppDirs, d.staged[v] # Gone, d.staged[v].tool,
           NEW opt, NEW skip, NEW e \in UninstallOne(d, "app", v, dir, opt, skip)
    PROVE  /\ e \in Disk /\ SameRest(d, e) /\ e.tool = d.tool
           /\ StagedBut(d, e, v) /\ AppsBut(d, e, dir)
           /\ Has(e.staged[v], d.app[dir]) /\ e.app[dir] = None
<1>1. e = MoveBack(d, v, dir)
  BY UninstallOneIs
<1>2. /\ e \in Disk /\ SameRest(d, e) /\ e.tool = d.tool
      /\ StagedBut(d, e, v) /\ AppsBut(d, e, dir)
      /\ AppIs(e, dir, None)
      /\ Has(e.staged[v], d.app[dir])
  BY <1>1, MoveBackDoes
<1> QED BY <1>2 DEF AppIs

(* The next artifact of the predecessor is reversed. *)
LEMMA ReverseIsSound ==
    ASSUME NEW j, JobTyped(j), j.at = "reverse", NEW d \in Disk, NEW h, NEW k, NEW opt, NEW skip,
           j.i <= Len(j.old.specs),
           NEW e \in UninstallOne(d, j.old.specs[j.i], j.inst, j.old.dir, opt, skip),
           k = Jump(j, "reverse", j.i + 1, j.rolling, j.failed, j.backed)
    PROVE  Sound(j, d, h, k, e, h)
<1>0. /\ ~j.rolling /\ j.inst \in Versions /\ j.old.dir \in AppDirs /\ Listed(j.old.specs)
      /\ j.i \in Nat /\ j.i > 0
  BY JobIs DEF JobTyped, PredecessorAt, SpecLists, Listed
<1>1. Comes(k) /\ Keeps(j, k) /\ k.at = "reverse" /\ k.i = j.i + 1 /\ k.failed = j.failed
  <2>1. MayBe(j, "reverse", j.i + 1, j.rolling, j.failed, j.backed)
    BY <1>0, JobPlaceIs, SpecsAre DEF JobTyped, MayBe, Places, PredecessorAt, Early
  <2> QED BY <2>1, JumpTyped
<1>2. e \in Disk
  BY <1>0, OutcomesAreDisks
<1>3. ASSUME Unharmed(h), Knows(j, d, h) PROVE Knows(k, e, h)
  <2>1. AtReverse(j, d) /\ (h = {} => WasInPlace(k))
    BY <1>1, <1>3, KeepsIs DEF Knows
  <2>2. SUFFICES AtReverse(k, e)
    BY <1>1, <2>1 DEF Knows
  <2>3. CASE j.i = 1
    <3>1. j.old.specs[j.i] = "app"
      BY <1>0, <2>3, SpecsAt
    <3>2. /\ SameRest(d, e) /\ e.tool = d.tool /\ StagedBut(d, e, j.inst)
          /\ Out(e, j.inst, j.old.dir) /\ Kept(j, e.staged[j.inst])
      <4>0. e \in UninstallOne(d, "app", j.inst, j.old.dir, opt, skip)
        BY <3>1
      <4>1. CASE In(d, j.inst, j.old.dir)
        <5>0. Gets(d, UninstallOne(d, "app", j.inst, j.old.dir, opt, skip), e)
          BY <4>0 DEF Gets
        <5>1. /\ SameRest(d, e) /\ e.tool = d.tool /\ StagedBut(d, e, j.inst)
              /\ Has(e.staged[j.inst], j.inst) /\ e.app[j.old.dir] = None /\ NoApp(e)
          BY <1>0, <4>1, <5>0, AppComesBack
        <5> QED BY <1>0, <5>1, NamesDiffer DEF Out, Unpacked, Kept, Has
      <4>2. CASE TakenOut(j, d) /\ ~WasInPlace(j)
        <5>1. Out(d, j.inst, j.old.dir)
          BY <4>2 DEF TakenOut
        <5>2. /\ SameRest(d, e) /\ e.tool = d.tool /\ StagedBut(d, e, j.inst)
              /\ Out(e, j.inst, j.old.dir)
          BY <1>0, <4>0, <5>1, AppIsMissed
        <5> QED BY <4>2, <5>2 DEF Kept
      <4> QED BY <2>1, <2>3, <4>1, <4>2 DEF AtReverse
    <3>3. Found(j, e)
      BY <2>1, <3>2 DEF AtReverse, Found, OldRecords, Recorded, Alone, NoBackup, ToolOf, SameRest, StagedBut
    <3>4. Found(k, e) /\ TakenOut(k, e) /\ (Removing(k) \/ Chosen(k))
      BY <1>1, <2>1, <3>2, <3>3, KeepsIs DEF TakenOut, AtReverse
    <3> QED BY <1>1, <2>3, <3>4 DEF AtReverse
  <2>4. CASE j.i > 1
    <3>1. ToolOf(d, j.inst, j.old.specs)
      BY <2>1 DEF AtReverse, Found, Recorded
    <3>2. /\ SameRest(d, e) /\ e.staged = d.staged /\ e.app = d.app
          /\ ToolOf(e, j.inst, j.old.specs)
          /\ j.i = 2 \/ NoTool(d) => NoTool(e)
      <4>1. /\ Gets(d, UninstallOne(d, j.old.specs[j.i], j.inst, j.old.dir, opt, skip), e)
            /\ KindAt(j.old.specs, j.i, j.old.specs[j.i])
        BY DEF Gets, KindAt
      <4> QED BY <1>0, <2>4, <3>1, <4>1, RestIsUninstalled
    <3>3. Found(j, e)
      BY <2>1, <3>2 DEF AtReverse, Found, OldRecords, Recorded, Alone, NoBackup, SameRest
    <3>4. In(e, j.inst, j.old.dir) <=> In(d, j.inst, j.old.dir)
      BY <3>2 DEF In
    <3>5. TakenOut(j, e) <=> TakenOut(j, d)
      BY <3>2 DEF TakenOut, Out, NoApp
    <3>6. /\ Found(k, e) /\ (TakenOut(k, e) <=> TakenOut(j, d)) /\ (Removing(k) \/ Chosen(k))
          /\ In(e, k.inst, k.old.dir) <=> In(d, j.inst, j.old.dir)
      BY <1>1, <2>1, <3>3, <3>4, <3>5, KeepsIs DEF AtReverse, Keeps
    <3>7. ~k.failed => NoTool(e)
      <4>1. j.i = 2 \/ j.i > 2
        BY <1>0, <2>4
      <4> QED BY <1>1, <2>1, <3>2, <4>1 DEF AtReverse
    <3> QED BY <1>0, <1>1, <2>1, <2>4, <3>6, <3>7 DEF AtReverse
  <2> QED BY <1>0, <2>3, <2>4
<1>4. ASSUME Bearable(h), Recalls(j, d) PROVE Recalls(k, e)
  <2>1. OnlyTouched(j, d) /\ Stocked(d, j.inst) /\ (Removing(k) \/ Picks(k)) /\ RecallsReverse(j, d)
    BY <1>1, <1>4, KeepsIs, KeepsRecalled DEF Recalls, RecallsReverse
  <2>2. (k.before # {} => Origin(k)) /\ (k.inst # None => k.before # {}) /\ Origin(j) /\ Fits(d, d.receipt)
    BY <1>0, <1>1, <1>4, StillRecalls, NamesDiffer
  <2>3. CASE j.i = 1
    <3>1. j.old.specs[j.i] = "app" /\ d = Was(j)
      BY <1>0, <2>1, <2>3, SpecsAt DEF RecallsReverse
    <3>2. /\ SameRest(d, e) /\ e.tool = d.tool
          /\ StagedBut(d, e, j.inst) /\ AppsBut(d, e, j.old.dir)
          /\ Has(e.staged[j.inst], d.app[j.old.dir]) /\ e.app[j.old.dir] = None
      BY <1>0, <2>1, <3>1, AppIsTaken DEF Stocked
    <3>3. d.app[j.old.dir] \notin AppDirs
      BY <1>0, DiskIs, NamesDiffer
    <3>4. Taken(j, e.staged[j.inst]) /\ Stocked(e, j.inst)
      BY <3>1, <3>2, <3>3 DEF Taken, Stocked, Has
    <3>5. OnlyTouched(j, e)
      BY <3>1, <3>2 DEF OnlyTouched
    <3>6. OnlyTouched(k, e) /\ Stocked(e, k.inst) /\ Taken(k, e.staged[k.inst]) /\ e.app[k.old.dir] = None
      BY <1>1, <3>2, <3>4, <3>5, KeepsRecalled DEF Keeps
    <3>7. RecallsReverse(k, e)
      BY <1>1, <2>1, <2>3, <3>6 DEF RecallsReverse
    <3>8. Fits(e, e.receipt)
      BY <2>2, <3>2 DEF Fits, SameRest
    <3> QED BY <1>1, <2>2, <3>7, <3>8 DEF Recalls
  <2>4. CASE j.i > 1
    <3>1. ToolOf(d, j.inst, j.old.specs)
      BY <2>1, <2>2, TouchedStands
    <3>2. /\ SameRest(d, e) /\ e.staged = d.staged /\ e.app = d.app
          /\ e.tool = d.tool \/ (e.tool = None /\ d.tool \in Versions)
          /\ j.i = 2 \/ NoTool(d) => NoTool(e)
      <4>1. /\ Gets(d, UninstallOne(d, j.old.specs[j.i], j.inst, j.old.dir, opt, skip), e)
            /\ KindAt(j.old.specs, j.i, j.old.specs[j.i])
        BY DEF Gets, KindAt
      <4> QED BY <1>0, <2>4, <3>1, <4>1, RestIsUninstalled
    <3>3. OnlyTouched(j, e)
      BY <2>1, <3>2, NamesDiffer DEF OnlyTouched, SameRest, StagedBut, AppsBut
    <3>4. Stocked(e, j.inst)
      BY <2>1, <3>2 DEF Stocked
    <3>5. ~j.failed => NoTool(e) /\ Taken(j, e.staged[j.inst]) /\ e.app[j.old.dir] = None
      <4>1. j.i = 2 \/ j.i > 2
        BY <1>0, <2>4
      <4> QED BY <2>1, <2>4, <3>2, <4>1 DEF RecallsReverse
    <3>6. /\ OnlyTouched(k, e) /\ Stocked(e, k.inst)
          /\ ~k.failed => NoTool(e) /\ Taken(k, e.staged[k.inst]) /\ e.app[k.old.dir] = None
      BY <1>1, <3>3, <3>4, <3>5, KeepsRecalled DEF Keeps
    <3>7. RecallsReverse(k, e)
      BY <1>0, <1>1, <2>1, <2>4, <3>6 DEF RecallsReverse
    <3>8. Fits(e, e.receipt)
      BY <2>2, <3>2, SameSaved DEF SameRest
    <3> QED BY <1>1, <2>2, <3>7, <3>8 DEF Recalls
  <2> QED BY <1>0, <2>3, <2>4
<1> QED BY <1>1, <1>2, <1>3, <1>4 DEF Sound

(* It cannot be, and the reversal goes on without it. *)
LEMMA NotReversedIsSound ==
    ASSUME NEW j, JobTyped(j), j.at = "reverse", NEW d \in Disk, NEW h, NEW k,
           k = Jump(j, "reverse", j.i + 1, j.rolling, Yes, j.backed)
    PROVE  Sound(j, d, h, k, d, h) /\ Comes(k)
<1>0. ~j.rolling /\ j.inst \in Versions /\ j.old.specs # <<>> /\ j.i \in Nat /\ j.i > 0
  BY JobIs DEF JobTyped, PredecessorAt
<1>1. Comes(k) /\ Keeps(j, k) /\ k.at = "reverse" /\ k.i = j.i + 1 /\ k.failed
  <2>1. MayBe(j, "reverse", j.i + 1, j.rolling, Yes, j.backed)
    BY <1>0, JobPlaceIs DEF JobTyped, MayBe, Places, PredecessorAt, Early, Yes
  <2>2. Comes(k) /\ Keeps(j, k) /\ k.at = "reverse" /\ k.i = j.i + 1 /\ k.failed = Yes
    BY <2>1, JumpTyped
  <2> QED BY <2>2 DEF Yes
<1>2. ASSUME Unharmed(h), Knows(j, d, h) PROVE Knows(k, d, h)
  <2>1. AtReverse(j, d) /\ (h = {} => WasInPlace(k))
    BY <1>1, <1>2, KeepsIs DEF Knows
  <2>2. /\ Found(k, d) /\ (TakenOut(k, d) <=> TakenOut(j, d)) /\ (Removing(k) \/ Chosen(k))
        /\ In(d, k.inst, k.old.dir) <=> In(d, j.inst, j.old.dir)
    BY <1>1, <2>1, KeepsIs DEF AtReverse, Keeps
  <2>3. AtReverse(k, d)
    BY <1>0, <1>1, <2>1, <2>2 DEF AtReverse
  <2> QED BY <1>1, <2>1, <2>3 DEF Knows
<1>3. ASSUME Bearable(h), Recalls(j, d) PROVE Recalls(k, d)
  <2>1. OnlyTouched(k, d) /\ Stocked(d, k.inst) /\ (Removing(k) \/ Picks(k))
    BY <1>1, <1>3, KeepsIs, KeepsRecalled DEF Recalls, RecallsReverse, Keeps
  <2>2. (k.before # {} => Origin(k)) /\ (k.inst # None => k.before # {}) /\ Fits(d, d.receipt)
    BY <1>0, <1>1, <1>3, StillRecalls, NamesDiffer
  <2>3. RecallsReverse(k, d)
    BY <1>0, <1>1, <2>1 DEF RecallsReverse
  <2> QED BY <1>1, <2>2, <2>3 DEF Recalls
<1> QED BY <1>1, <1>2, <1>3 DEF Sound

(* What is left of the apps, when one directory's alone changes. *)
LEMMA AppsLeftBut ==
    ASSUME NEW j, j.old.dir \in AppDirs, NEW d, NEW e, NEW dir \in AppDirs, AppsBut(d, e, dir)
    PROVE  /\ AppsLeft(j, d, None) => AppsLeft(j, e, dir)
           /\ AppsLeft(j, d, dir) /\ e.app[dir] = None => AppsLeft(j, e, None)
<1>1. ASSUME AppsLeft(j, d, None) PROVE AppsLeft(j, e, dir)
  <2>1. ASSUME j.inst # None, NEW f \in AppDirs, f # dir PROVE e.app[f] \in {Was(j).app[f], None}
    <3>1. f # None /\ e.app[f] = d.app[f]
      BY <2>1, NamesDiffer DEF AppsBut
    <3> QED BY <1>1, <2>1, <3>1 DEF AppsLeft, AppsWithin
  <2>2. ASSUME j.inst # None, j.old.dir # dir PROVE e.app[j.old.dir] = None
    <3>1. j.old.dir # None /\ e.app[j.old.dir] = d.app[j.old.dir]
      BY <2>2, NamesDiffer DEF AppsBut
    <3> QED BY <1>1, <2>2, <3>1 DEF AppsLeft
  <2> QED BY <2>1, <2>2 DEF AppsLeft, AppsWithin
<1>2. ASSUME AppsLeft(j, d, dir), e.app[dir] = None PROVE AppsLeft(j, e, None)
  <2>1. ASSUME j.inst # None, NEW f \in AppDirs PROVE e.app[f] \in {Was(j).app[f], None}
    <3>1. CASE f = dir
      BY <1>2, <3>1
    <3>2. CASE f # dir
      BY <1>2, <2>1, <3>2 DEF AppsBut, AppsLeft, AppsWithin
    <3> QED BY <3>1, <3>2
  <2>2. ASSUME j.inst # None PROVE e.app[j.old.dir] = None
    <3>1. CASE j.old.dir = dir
      BY <1>2, <3>1
    <3>2. CASE j.old.dir # dir
      BY <1>2, <2>2, <3>2 DEF AppsBut, AppsLeft
    <3> QED BY <3>1, <3>2
  <2> QED BY <2>1, <2>2 DEF AppsLeft, AppsWithin
<1> QED BY <1>1, <1>2

(* What was put in its place comes back among the staged files. *)
LEMMA SetComesBack ==
    ASSUME NEW d \in Disk, NEW v \in Versions, NEW dir \in AppDirs, Set(d, v, dir), NEW opt, NEW skip,
           NEW e, Gets(d, UninstallOne(d, "app", v, dir, opt, skip), e)
    PROVE  /\ e \in Disk /\ SameRest(d, e) /\ e.tool = d.tool
           /\ StagedBut(d, e, v) /\ AppsBut(d, e, dir)
           /\ Has(e.staged[v], d.app[dir]) /\ e.app[dir] = None
<1>1. d.staged[v] # Gone /\ d.staged[v].tool /\ d.staged[v].app = dir /\ d.app[dir] # None
  BY DEF Set, Has
<1>2. MoveBack(d, v, dir) \in UninstallOne(d, "app", v, dir, opt, skip)
  BY <1>1, UninstallOneIs DEF MayMoveBack
<1>3. e \in UninstallOne(d, "app", v, dir, opt, skip)
  BY <1>2 DEF Gets
<1> QED BY <1>1, <1>3, AppIsTaken

(* The specs that are picked are listed. *)
LEMMA PicksListed ==
    ASSUME NEW j, Picks(j)
    PROVE  Listed(j.specs) /\ j.specs # <<>> /\ Len(j.specs) \in Nat
<1>1. Listed(j.specs)
  BY SpecsAre DEF Picks, Listed
<1> QED BY <1>1, SpecsAre DEF Listed

(* The next artifact of the new version is installed. *)
LEMMA InstallIsSound ==
    ASSUME NEW j, JobTyped(j), j.at = "install", ~j.rolling, NEW d \in Disk, NEW h, NEW k,
           j.i <= Len(j.specs),
           NEW e \in InstallOne(d, j.specs[j.i], j.new, j.dir, j.opt),
           k = Jump(j, "install", j.i + 1, j.rolling, j.failed, j.backed)
    PROVE  Sound(j, d, h, k, e, h)
<1>0. /\ j.new \in Versions /\ j.dir \in AppDirs /\ j.specs \in SpecLists
      /\ j.i \in Nat /\ j.i > 0
  BY JobIs DEF JobTyped
<1>1. Comes(k) /\ Keeps(j, k) /\ k.at = "install" /\ k.i = j.i + 1 /\ ~k.rolling
  <2>1. MayBe(j, "install", j.i + 1, j.rolling, j.failed, j.backed)
    BY <1>0, JobPlaceIs DEF MayBe, Places, PredecessorAt, Early
  <2> QED BY <2>1, JumpTyped
<1>2. e \in Disk
  BY <1>0, OutcomesAreDisks
<1>3. ASSUME Unharmed(h), Knows(j, d, h) PROVE Knows(k, e, h)
  <2>1. AtInstall(j, d) /\ (h = {} => WasInPlace(k))
    BY <1>1, <1>3, KeepsIs DEF Knows
  <2>2. Listed(j.specs)
    BY <1>0, <2>1 DEF AtInstall, Chosen, SpecLists, Listed
  <2>3. SUFFICES AtInstall(k, e)
    BY <1>1, <2>1 DEF Knows
  <2>4. CASE j.i = 1
    <3>1. j.specs[j.i] = "app"
      BY <2>2, <2>4, SpecsAt
    <3>2. Has(d.staged[j.new], j.new) /\ NoApp(d) /\ Vacant(j, d) /\ NoTool(d)
      BY <2>1, <2>4 DEF AtInstall
    <3>3. /\ SameRest(d, e) /\ e.tool = d.tool
          /\ StagedBut(d, e, j.new) /\ AppsBut(d, e, j.dir)
          /\ In(e, j.new, j.dir)
      BY <1>0, <3>1, <3>2, AppIsPlaced
    <3>4. Alone(e, j.new) /\ e.meta[j.new] > 0 /\ ToolOf(e, j.new, j.specs) /\ NoTool(e)
      BY <2>1, <3>2, <3>3 DEF AtInstall, Alone, SameRest, StagedBut, ToolOf, NoTool
    <3>5. VacantElsewhere(j, e)
      BY <1>0, <3>2, <3>3, JobIs DEF Vacant, VacantElsewhere, AppsBut
    <3>6. Replacing(j, e)
      BY <2>1, <3>3, SameBackup DEF AtInstall, SameRest
    <3>7. Replacing(k, e) /\ Chosen(k) /\ VacantElsewhere(k, e)
      BY <1>1, <2>1, <3>5, <3>6, KeepsIs DEF AtInstall
    <3> QED BY <1>1, <2>4, <3>3, <3>4, <3>7 DEF AtInstall, Keeps
  <2>5. CASE j.i > 1
    <3>1. In(d, j.new, j.dir) /\ VacantElsewhere(j, d)
      BY <2>1, <2>5 DEF AtInstall
    <3>2. /\ SameRest(d, e) /\ e.staged = d.staged /\ e.app = d.app
          /\ \A old : ToolOf(d, j.new, old) /\ (j.specs = Kinds => old = Kinds) => ToolOf(e, j.new, old)
      <4>1. KindAt(j.specs, j.i, j.specs[j.i])
        BY DEF KindAt
      <4> QED BY <1>0, <2>2, <2>5, <4>1, RestIsInstalled
    <3>3. In(e, j.new, j.dir) /\ Alone(e, j.new) /\ e.meta[j.new] > 0 /\ ToolOf(e, j.new, j.specs)
      BY <2>1, <3>1, <3>2 DEF AtInstall, Alone, SameRest, In
    <3>4. Replacing(k, e) /\ Chosen(k) /\ VacantElsewhere(k, e)
      BY <1>1, <2>1, <3>1, <3>2, SameBackup, SameApps, KeepsIs DEF AtInstall, SameRest
    <3> QED BY <1>0, <1>1, <2>5, <3>3, <3>4 DEF AtInstall, Keeps
  <2> QED BY <1>0, <2>4, <2>5
<1>4. ASSUME Bearable(h), Recalls(j, d) PROVE Recalls(k, e)
  <2>1. RecallsInstall(j, d) /\ Listed(j.specs) /\ Saved(j, d)
    BY <1>4, PicksListed DEF Recalls, RecallsInstall
  <2>2. (k.before # {} => Origin(k)) /\ (k.inst # None => k.before # {}) /\ (j.inst # None => Origin(j)) /\ Fits(d, d.receipt)
    BY <1>1, <1>4, StillRecalls
  <2>3. CASE j.i = 1
    <3>1. j.specs[j.i] = "app" /\ Has(d.staged[j.new], j.new) /\ AppsLeft(j, d, None) /\ NoTool(d)
      BY <2>1, <2>3, SpecsAt DEF RecallsInstall
    <3>2. /\ SameRest(d, e) /\ e.tool = d.tool
          /\ StagedBut(d, e, j.new) /\ AppsBut(d, e, j.dir)
          /\ Set(e, j.new, j.dir)
      BY <1>0, <3>1, AppIsMoved
    <3>3. Saved(j, e) /\ NoTool(e) /\ ToolOf(e, j.new, j.specs) /\ Fits(e, e.receipt)
      BY <2>1, <2>2, <3>1, <3>2, SameSaved DEF RecallsInstall, SameRest
    <3>4. AppsLeft(j, e, j.dir)
      BY <1>0, <3>1, <3>2, JobIs, AppsLeftBut
    <3>5. Alone(e, j.new) /\ e.meta[j.new] > 0
      BY <2>1, <3>2 DEF RecallsInstall, Alone, SameRest, StagedBut
    <3>6. Saved(k, e) /\ Picks(k) /\ AppsLeft(k, e, k.dir)
      BY <1>1, <2>1, <3>3, <3>4, KeepsRecalled DEF RecallsInstall, Keeps
    <3>7. RecallsInstall(k, e)
      BY <1>1, <2>3, <3>2, <3>3, <3>5, <3>6 DEF RecallsInstall, Keeps
    <3> QED BY <1>1, <2>2, <3>3, <3>7 DEF Recalls
  <2>4. CASE j.i > 1
    <3>1. Set(d, j.new, j.dir) /\ AppsLeft(j, d, j.dir)
      BY <2>1, <2>4 DEF RecallsInstall
    <3>2. /\ SameRest(d, e) /\ e.staged = d.staged /\ e.app = d.app
          /\ \A old : ToolOf(d, j.new, old) /\ (j.specs = Kinds => old = Kinds) => ToolOf(e, j.new, old)
          /\ \/ e.tool = d.tool
             \/ e.tool = j.new /\ d.tool # "formula" /\ (d.tool = "other" => j.opt.force)
          /\ j.i = 2 \/ Fits(d, j.specs) => Fits(e, j.specs)
      <4>1. KindAt(j.specs, j.i, j.specs[j.i])
        BY DEF KindAt
      <4> QED BY <1>0, <2>1, <2>4, <4>1, RestIsInstalled
    <3>3. Set(e, j.new, j.dir) /\ Alone(e, j.new) /\ e.meta[j.new] > 0 /\ ToolOf(e, j.new, j.specs)
      BY <2>1, <3>1, <3>2 DEF RecallsInstall, Alone, SameRest, Set
    <3>4. Fits(e, j.specs)
      <4>1. j.i = 2 \/ j.i > 2
        BY <1>0, <2>4
      <4> QED BY <2>1, <3>2, <4>1 DEF RecallsInstall
    <3>5. Saved(j, e)
      <4>1. CASE j.inst = None
        BY <2>1, <3>2, <4>1 DEF Saved, NoBackup, SameRest
      <4>2. CASE j.inst # None
        <5>1. Aside(j, e) /\ AsideMeta(j, e) /\ Receipts(j, e)
          BY <2>1, <3>2, <4>2 DEF Saved, Aside, AsideMeta, Receipts, SameRest
        <5>2. d.tool \in {None, "formula", "other"} \cup Versions
          BY DiskIs
        <5>3. ToolLeft(j, d)
          BY <2>1, <4>2 DEF Saved
        <5>4. ASSUME e.tool = d.tool PROVE ToolLeft(j, e)
          BY <5>3, <5>4 DEF ToolLeft
        <5>5. ASSUME e.tool = j.new, d.tool # "formula", d.tool = "other" => j.opt.force PROVE ToolLeft(j, e)
          <6>1. e.tool \in Versions
            BY <5>5, JobIs
          <6>2. SUFFICES LessTool(j, None)
            BY <6>1 DEF ToolLeft
          <6>3. CASE d.tool \in Versions
            BY <5>3, <6>3 DEF ToolLeft
          <6>4. CASE d.tool = None
            BY <5>3, <6>4, NamesDiffer DEF ToolLeft
          <6>5. CASE d.tool = "other"
            <7>1. LessTool(j, "other")
              BY <5>3, <6>5, NamesDiffer DEF ToolLeft
            <7>2. Was(j).tool = "other"
              BY <7>1, NamesDiffer DEF LessTool, None
            <7> QED BY <5>5, <6>5, <7>2 DEF LessTool
          <6> QED BY <5>2, <5>5, <6>3, <6>4, <6>5
        <5>6. ToolLeft(j, e)
          BY <3>2, <5>4, <5>5
        <5> QED BY <4>2, <5>1, <5>6 DEF Saved
      <4> QED BY <4>1, <4>2
    <3>6. Saved(k, e) /\ Picks(k) /\ AppsLeft(k, e, k.dir)
      BY <1>1, <2>1, <3>1, <3>2, <3>5, SameAppsLeft, KeepsRecalled DEF RecallsInstall, Keeps
    <3>7. RecallsInstall(k, e)
      BY <1>0, <1>1, <2>4, <3>3, <3>4, <3>6 DEF RecallsInstall, Keeps
    <3>8. Fits(e, e.receipt)
      BY <1>0, <2>2, <3>2, NamesDiffer DEF Fits, SameRest
    <3> QED BY <1>1, <2>2, <3>7, <3>8 DEF Recalls
  <2> QED BY <1>0, <2>3, <2>4
<1> QED BY <1>1, <1>2, <1>3, <1>4 DEF Sound

(* It cannot be, and those before it go again. *)
LEMMA NotInstalledIsSound ==
    ASSUME NEW j, JobTyped(j), j.at = "install", ~j.rolling, NEW d \in Disk, NEW h, NEW k,
           j.i <= Len(j.specs),
           k = Jump(j, "undo", j.i - 1, j.rolling, Yes, j.backed)
    PROVE  Sound(j, d, h, k, d, h) /\ Comes(k)
<1>0. j.i \in Nat /\ j.i > 0 /\ j.i - 1 \in Nat
  BY JobIs DEF JobTyped
<1>1. Comes(k) /\ Keeps(j, k) /\ k.at = "undo" /\ k.i = j.i - 1 /\ ~k.rolling
  <2>1. MayBe(j, "undo", j.i - 1, j.rolling, Yes, j.backed)
    BY <1>0, JobPlaceIs DEF MayBe, Places, PredecessorAt, Early, Yes
  <2> QED BY <2>1, JumpTyped
<1>2. ASSUME Unharmed(h), Knows(j, d, h) PROVE Knows(k, d, h)
  <2>1. AtInstall(j, d) /\ (h = {} => WasInPlace(k))
    BY <1>1, <1>2, KeepsIs DEF Knows
  <2>2. Replacing(k, d) /\ Chosen(k) /\ (Vacant(k, d) <=> Vacant(j, d)) /\ (VacantElsewhere(k, d) <=> VacantElsewhere(j, d))
    BY <1>1, <2>1, KeepsIs DEF AtInstall
  <2>3. Len(k.specs) \in Nat /\ j.i <= Len(k.specs)
    BY <1>1, JobIs, SpecsAre DEF Keeps, SpecLists, Listed
  <2>4. AtUndo(k, d)
    <3>1. k.specs # <<>> /\ Alone(d, k.new) /\ ToolOf(d, k.new, k.specs)
      BY <1>1, <2>1, <2>2 DEF AtInstall, Chosen, Keeps
    <3>2. IF k.i = 0 THEN NoApp(d) /\ Vacant(k, d) ELSE In(d, k.new, k.dir) /\ VacantElsewhere(k, d)
      BY <1>0, <1>1, <2>1, <2>2 DEF AtInstall, Keeps
    <3>3. (k.i < 2 => NoTool(d)) /\ k.i <= Len(k.specs)
      BY <1>0, <1>1, <2>1, <2>3 DEF AtInstall
    <3> QED BY <2>2, <3>1, <3>2, <3>3 DEF AtUndo
  <2> QED BY <1>1, <2>1, <2>4 DEF Knows
<1>3. ASSUME Bearable(h), Recalls(j, d) PROVE Recalls(k, d)
  <2>1. RecallsInstall(j, d) /\ Len(j.specs) \in Nat
    BY <1>3, PicksListed DEF Recalls, RecallsInstall
  <2>2. (k.before # {} => Origin(k)) /\ (k.inst # None => k.before # {}) /\ Fits(d, d.receipt)
    BY <1>1, <1>3, StillRecalls
  <2>3. Saved(k, d) /\ Picks(k) /\ \A but : AppsLeft(k, d, but) <=> AppsLeft(j, d, but)
    BY <1>1, <2>1, KeepsRecalled DEF RecallsInstall
  <2>4. IF k.i = 0 THEN AppsLeft(k, d, None) ELSE Set(d, k.new, k.dir) /\ AppsLeft(k, d, k.dir)
    BY <1>0, <1>1, <2>1, <2>3 DEF RecallsInstall, Keeps
  <2>5. (k.i < 2 => NoTool(d)) /\ k.i <= Len(k.specs)
    BY <1>0, <1>1, <2>1 DEF RecallsInstall, Keeps
  <2>6. RecallsUndo(k, d)
    BY <1>1, <2>1, <2>3, <2>4, <2>5 DEF RecallsInstall, RecallsUndo, Keeps
  <2> QED BY <1>1, <2>2, <2>6 DEF Recalls
<1> QED BY <1>1, <1>2, <1>3 DEF Sound

(* Every artifact is installed: of the new version, or again of the predecessor. *)
LEMMA AllInstalledIsSound ==
    ASSUME NEW j, JobTyped(j), j.at = "install", NEW d \in Disk, NEW h, NEW k, NEW specs,
           IF j.rolling THEN k = Jump(j, "unlock", j.i, j.rolling, j.failed, j.backed)
           ELSE k = Jump(j, "config", j.i, j.rolling, j.failed, j.backed),
           j.i > Len(specs),
           IF j.rolling THEN specs = (IF j.opt.binaries THEN j.old.specs ELSE Unlinked) ELSE specs = j.specs
    PROVE  Sound(j, d, h, k, d, h)
<1>0. j.i \in Nat /\ j.i > 0 /\ j.specs \in SpecLists /\ j.old.specs \in SpecLists /\ (j.rolling => j.inst \in Versions)
  BY JobIs DEF JobTyped
<1>1. CASE j.rolling
  <2>1. Comes(k) /\ Keeps(j, k) /\ k.at = "unlock" /\ k.backed = j.backed
    <3>0. k = Jump(j, "unlock", j.i, j.rolling, j.failed, j.backed)
      BY <1>1
    <3>1. MayBe(j, "unlock", j.i, j.rolling, j.failed, j.backed)
      BY <1>0, <1>1, JobPlaceIs DEF MayBe, Places, PredecessorAt, Early
    <3> QED BY <3>0, <3>1, JumpTyped
  <2>2. ASSUME Unharmed(h), Knows(j, d, h) PROVE Knows(k, d, h)
    <3>1. AtRollBack(j, d) /\ (h = {} => WasInPlace(k))
      BY <1>1, <2>1, <2>2, KeepsIs DEF Knows
    <3>2. Listed(specs)
      BY <1>0, <1>1, <3>1 DEF AtRollBack, Found, OldRecords, SpecLists, Listed
    <3>3. j.i # 1
      BY <3>2, SpecsAt
    <3>4. In(d, j.inst, j.old.dir) /\ Found(j, d)
      BY <3>1, <3>3 DEF AtRollBack
    <3>5. Something(d, j.inst, h)
      BY <3>4 DEF Found, OldRecords, Something
    <3> QED BY <1>0, <1>1, <2>1, <3>1, <3>5 DEF Knows, AtRest
  <2>3. ASSUME Bearable(h), Recalls(j, d) PROVE Recalls(k, d)
    <3>1. RecallsRollBack(j, d) /\ Remains(j, d)
      BY <1>1, <2>3 DEF Recalls, RecallsRollBack
    <3>2. (k.before # {} => Origin(k)) /\ (k.inst # None => k.before # {}) /\ Fits(d, d.receipt) /\ Origin(j)
      BY <1>0, <1>1, <2>1, <2>3, StillRecalls, NamesDiffer
    <3>3. Stood(d, j.inst) /\ Settled(d)
      BY <1>0, <1>1, <3>1 DEF Remains, Settled
    <3>4. ASSUME j.backed, j.opt.binaries, InPlace(j) PROVE Back(j, d)
      <4>1. ComesBack(j, d) /\ specs = j.old.specs
        BY <1>1, <3>1, <3>4 DEF RecallsRollBack
      <4>2. Stood(Was(j), j.inst) /\ Was(j) \in Disk /\ j.old.specs = Was(j).receipt
        BY <3>2 DEF Origin
      <4>3. Listed(specs)
        BY <1>0, <4>1, <4>2 DEF Stood, SpecLists, Listed
      <4>4. j.i > 2
        BY <1>0, <4>3, SpecsAt
      <4>5. /\ d.meta = Was(j).meta /\ AppsWithin(j, d, None)
            /\ d.staged = Was(j).staged /\ d.app[j.old.dir] = Was(j).app[j.old.dir]
            /\ IF RollKinds(j) THEN ToolBack(j, d) ELSE LessTool(j, d.tool)
        BY <1>0, <4>1, <4>4 DEF ComesBack
      <4>6. d.aside = Was(j).aside /\ d.asideMeta = Was(j).asideMeta
        <5>1. NoBackup(d) /\ NoBackup(Was(j))
          BY <3>3, <4>2 DEF Stood, Stands
        <5>2. d.aside \in Dirs /\ Was(j).aside \in Dirs /\ d.asideMeta \in Metas /\ Was(j).asideMeta \in Metas
          BY <4>2, DiskIs
        <5> QED BY <5>1, <5>2 DEF NoBackup, Dirs, Metas
      <4>7. ToolBack(j, d)
        <5>1. CASE RollKinds(j)
          BY <4>5, <5>1
        <5>2. CASE ~RollKinds(j)
          <6>1. LessTool(j, d.tool) /\ Was(j).receipt # Kinds
            BY <3>4, <4>2, <4>5, <5>2 DEF RollKinds
          <6>2. Was(j).tool \notin Versions
            BY <4>2, <6>1 DEF Stood, ToolOf
          <6> QED BY <6>1, <6>2 DEF LessTool, ToolBack
        <5> QED BY <5>1, <5>2
      <4> QED BY <4>5, <4>6, <4>7 DEF Back
    <3>5. RecallsUnlock(k, d)
      BY <2>1, <3>3, <3>4, KeepsRecalled DEF RecallsUnlock, Keeps
    <3> QED BY <2>1, <3>2, <3>5 DEF Recalls
  <2> QED BY <2>1, <2>2, <2>3 DEF Sound
<1>2. CASE ~j.rolling
  <2>1. Comes(k) /\ Keeps(j, k) /\ k.at = "config"
    <3>1. MayBe(j, "config", j.i, j.rolling, j.failed, j.backed)
      BY <1>0, <1>2, JobPlaceIs DEF MayBe, Places, PredecessorAt, Early
    <3> QED BY <1>2, <3>1, JumpTyped
  <2>2. ASSUME Unharmed(h), Knows(j, d, h) PROVE Knows(k, d, h)
    <3>1. AtInstall(j, d) /\ (h = {} => WasInPlace(k))
      BY <1>2, <2>1, <2>2, KeepsIs DEF Knows
    <3>2. Listed(specs)
      BY <1>0, <1>2, <3>1 DEF AtInstall, Chosen, SpecLists, Listed
    <3>3. j.i # 1
      BY <3>2, SpecsAt
    <3>4. Placed(j, d) /\ VacantElsewhere(j, d) /\ Replacing(j, d)
      BY <3>1, <3>3 DEF AtInstall, Placed
    <3>5. AtConfig(k, d)
      BY <2>1, <3>4, KeepsIs DEF AtConfig
    <3> QED BY <2>1, <3>1, <3>5 DEF Knows
  <2>3. ASSUME Bearable(h), Recalls(j, d) PROVE Recalls(k, d)
    <3>1. RecallsInstall(j, d) /\ Listed(specs)
      BY <1>2, <2>3, PicksListed DEF Recalls, RecallsInstall
    <3>2. (k.before # {} => Origin(k)) /\ (k.inst # None => k.before # {}) /\ Fits(d, d.receipt)
      BY <2>1, <2>3, StillRecalls
    <3>3. j.i > 2
      BY <1>0, <3>1, SpecsAt
    <3>4. RecallsPlaced(j, d)
      BY <1>0, <3>1, <3>3 DEF RecallsInstall, RecallsPlaced
    <3>5. RecallsPlaced(k, d)
      BY <2>1, <3>4, KeepsRecalled
    <3> QED BY <2>1, <3>2, <3>5 DEF Recalls
  <2> QED BY <2>1, <2>2, <2>3 DEF Sound
<1> QED BY <1>1, <1>2

(* The artifact before goes again, or all of them have. *)
LEMMA UndoIsSound ==
    ASSUME NEW j, JobTyped(j), j.at = "undo", ~j.rolling, NEW d \in Disk, NEW h, NEW k, NEW skip, NEW e,
           j.i # 0, Gets(d, UninstallOne(d, j.specs[j.i], j.new, j.dir, j.opt, skip), e),
           k = Jump(j, "undo", j.i - 1, j.rolling, j.failed, j.backed)
    PROVE  Sound(j, d, h, k, e, h)
<1>0. /\ j.new \in Versions /\ j.dir \in AppDirs /\ j.specs \in SpecLists /\ j.old.dir \in AppDirs
      /\ j.i \in Nat /\ j.i > 0 /\ j.i - 1 \in Nat
  BY JobIs DEF JobTyped
<1>1. Comes(k) /\ Keeps(j, k) /\ k.at = "undo" /\ k.i = j.i - 1 /\ ~k.rolling
  <2>1. MayBe(j, "undo", j.i - 1, j.rolling, j.failed, j.backed)
    BY <1>0, JobPlaceIs DEF MayBe, Places, PredecessorAt, Early
  <2> QED BY <2>1, JumpTyped
<1>2. e \in Disk
  <2>1. UninstallOne(d, j.specs[j.i], j.new, j.dir, j.opt, skip) \subseteq Disk
    BY <1>0, OutcomesAreDisks
  <2> QED BY <2>1 DEF Gets
<1>3. ASSUME Unharmed(h), Knows(j, d, h) PROVE Knows(k, e, h)
  <2>1. AtUndo(j, d) /\ (h = {} => WasInPlace(k))
    BY <1>1, <1>3, KeepsIs DEF Knows
  <2>2. Listed(j.specs) /\ In(d, j.new, j.dir) /\ VacantElsewhere(j, d)
    BY <1>0, <2>1 DEF AtUndo, SpecLists, Listed
  <2>3. SUFFICES AtUndo(k, e)
    BY <1>1, <2>1 DEF Knows
  <2>4. CASE j.i = 1
    <3>1. j.specs[j.i] = "app"
      BY <2>2, <2>4, SpecsAt
    <3>2. /\ SameRest(d, e) /\ e.tool = d.tool
          /\ StagedBut(d, e, j.new) /\ AppsBut(d, e, j.dir)
          /\ e.app[j.dir] = None /\ NoApp(e)
      <4>1. Gets(d, UninstallOne(d, "app", j.new, j.dir, j.opt, skip), e)
        BY <3>1
      <4> QED BY <1>0, <2>2, <4>1, AppComesBack
    <3>3. Vacant(j, e)
      BY <1>0, <2>2, <3>2 DEF VacantElsewhere, Vacant, AppsBut
    <3>4. Alone(e, j.new) /\ ToolOf(e, j.new, j.specs) /\ NoTool(e)
      BY <2>1, <2>4, <3>2 DEF AtUndo, Alone, SameRest, StagedBut, ToolOf, NoTool
    <3>5. Replacing(k, e) /\ Vacant(k, e)
      BY <1>1, <2>1, <3>2, <3>3, SameBackup, KeepsIs DEF AtUndo, SameRest
    <3>6. k.specs # <<>> /\ k.specs = j.specs /\ k.new = j.new /\ k.i = 0 /\ Len(j.specs) \in Nat
      BY <1>1, <2>1, <2>2, <2>4, SpecsAt DEF AtUndo, Keeps
    <3> QED BY <3>2, <3>4, <3>5, <3>6 DEF AtUndo
  <2>5. CASE j.i > 1
    <3>1. j.i <= Len(j.specs) /\ ToolOf(d, j.new, j.specs)
      BY <2>1 DEF AtUndo
    <3>2. /\ SameRest(d, e) /\ e.staged = d.staged /\ e.app = d.app
          /\ ToolOf(e, j.new, j.specs)
          /\ j.i = 2 => NoTool(e)
      <4>1. KindAt(j.specs, j.i, j.specs[j.i])
        BY DEF KindAt
      <4> QED BY <1>0, <2>2, <2>5, <3>1, <4>1, RestIsUninstalled
    <3>3. In(e, j.new, j.dir) /\ Alone(e, j.new)
      BY <2>1, <2>2, <3>2 DEF AtUndo, Alone, SameRest, In
    <3>4. Replacing(k, e) /\ VacantElsewhere(k, e)
      BY <1>1, <2>1, <2>2, <3>2, SameBackup, SameApps, KeepsIs DEF AtUndo, SameRest
    <3>5. k.specs # <<>> /\ k.specs = j.specs /\ k.new = j.new /\ k.dir = j.dir /\ Len(j.specs) \in Nat
      BY <1>1, <2>1, <2>2, SpecsAt DEF AtUndo, Keeps
    <3>6. (k.i < 2 => NoTool(e)) /\ k.i # 0 /\ k.i <= Len(j.specs)
      BY <1>0, <1>1, <2>5, <3>1, <3>2, <3>5
    <3> QED BY <3>2, <3>3, <3>4, <3>5, <3>6 DEF AtUndo
  <2> QED BY <1>0, <2>4, <2>5
<1>4. ASSUME Bearable(h), Recalls(j, d) PROVE Recalls(k, e)
  <2>1. RecallsUndo(j, d) /\ Listed(j.specs) /\ Len(j.specs) \in Nat /\ Set(d, j.new, j.dir) /\ AppsLeft(j, d, j.dir)
    BY <1>0, <1>4, PicksListed DEF Recalls, RecallsUndo
  <2>2. (k.before # {} => Origin(k)) /\ (k.inst # None => k.before # {}) /\ Fits(d, d.receipt)
    BY <1>1, <1>4, StillRecalls
  <2>3. CASE j.i = 1
    <3>1. j.specs[j.i] = "app"
      BY <2>1, <2>3, SpecsAt
    <3>2. /\ SameRest(d, e) /\ e.tool = d.tool
          /\ StagedBut(d, e, j.new) /\ AppsBut(d, e, j.dir)
          /\ e.app[j.dir] = None
      <4>1. Gets(d, UninstallOne(d, "app", j.new, j.dir, j.opt, skip), e)
        BY <3>1
      <4> QED BY <1>0, <2>1, <4>1, SetComesBack
    <3>3. Saved(j, e) /\ NoTool(e) /\ ToolOf(e, j.new, j.specs) /\ Fits(e, e.receipt)
      BY <2>1, <2>2, <2>3, <3>2, SameSaved DEF RecallsUndo, SameRest
    <3>4. AppsLeft(j, e, None)
      BY <1>0, <2>1, <3>2, JobIs, AppsLeftBut
    <3>5. Alone(e, j.new)
      BY <2>1, <3>2 DEF RecallsUndo, Alone, SameRest, StagedBut
    <3>6. Saved(k, e) /\ Picks(k) /\ AppsLeft(k, e, None)
      BY <1>1, <2>1, <3>3, <3>4, KeepsRecalled DEF RecallsUndo
    <3>7. k.specs = j.specs /\ k.new = j.new /\ k.i = 0
      BY <1>1, <2>3 DEF Keeps
    <3>8. RecallsUndo(k, e)
      BY <2>1, <3>3, <3>5, <3>6, <3>7 DEF RecallsUndo
    <3> QED BY <1>1, <2>2, <3>3, <3>8 DEF Recalls
  <2>4. CASE j.i > 1
    <3>1. j.i <= Len(j.specs) /\ ToolOf(d, j.new, j.specs)
      BY <2>1 DEF RecallsUndo
    <3>2. /\ SameRest(d, e) /\ e.staged = d.staged /\ e.app = d.app
          /\ ToolOf(e, j.new, j.specs)
          /\ e.tool = d.tool \/ (e.tool = None /\ d.tool \in Versions)
          /\ j.i = 2 => NoTool(e)
      <4>1. KindAt(j.specs, j.i, j.specs[j.i])
        BY DEF KindAt
      <4> QED BY <1>0, <2>1, <2>4, <3>1, <4>1, RestIsUninstalled
    <3>3. Set(e, j.new, j.dir) /\ Alone(e, j.new)
      BY <2>1, <3>2 DEF RecallsUndo, Alone, SameRest, Set
    <3>4. Saved(j, e) /\ AppsLeft(j, e, j.dir) /\ Fits(e, e.receipt)
      BY <2>1, <2>2, <3>2, SameSaved, SameAppsLeft DEF RecallsUndo, SameRest
    <3>5. Saved(k, e) /\ Picks(k) /\ AppsLeft(k, e, j.dir)
      BY <1>1, <2>1, <3>4, KeepsRecalled DEF RecallsUndo
    <3>6. k.specs = j.specs /\ k.new = j.new /\ k.dir = j.dir
      BY <1>1 DEF Keeps
    <3>7. (k.i < 2 => NoTool(e)) /\ k.i # 0 /\ k.i <= Len(j.specs)
      BY <1>0, <1>1, <2>1, <2>4, <3>1, <3>2
    <3>8. RecallsUndo(k, e)
      BY <3>2, <3>3, <3>5, <3>6, <3>7 DEF RecallsUndo
    <3> QED BY <1>1, <2>2, <3>4, <3>8 DEF Recalls
  <2> QED BY <1>0, <2>3, <2>4
<1> QED BY <1>1, <1>2, <1>3, <1>4 DEF Sound

(* When all are undone the new version is purged, and a roll back given up. *)
LEMMA AllUndoneIsSound ==
    ASSUME NEW j, JobTyped(j), j.at = "undo", j.i = 0, NEW d \in Disk, NEW h, NEW k,
           IF j.rolling THEN k = Jump(j, "unlock", j.i, j.rolling, j.failed, j.backed)
           ELSE k = Jump(j, "purge", j.i, j.rolling, j.failed, j.backed)
    PROVE  Sound(j, d, h, k, d, h)
<1>0. j.rolling => j.inst \in Versions
  BY DEF JobTyped
<1>1. CASE j.rolling
  <2>1. Comes(k) /\ Keeps(j, k) /\ k.at = "unlock" /\ k.backed = j.backed
    <3>0. k = Jump(j, "unlock", j.i, j.rolling, j.failed, j.backed)
      BY <1>1
    <3>1. MayBe(j, "unlock", j.i, j.rolling, j.failed, j.backed)
      BY <1>0, <1>1, JobPlaceIs DEF MayBe, Places, PredecessorAt, Early
    <3> QED BY <3>0, <3>1, JumpTyped
  <2>2. ASSUME Unharmed(h), Knows(j, d, h) PROVE Knows(k, d, h)
    <3>1. AtGiveUp(j, d) /\ (h = {} => WasInPlace(j)) /\ (h = {} => WasInPlace(k))
      BY <1>1, <2>1, <2>2, KeepsIs DEF Knows
    <3>2. "half" \in h
      BY <2>2, <3>1 DEF AtGiveUp, Unharmed
    <3>3. Something(d, j.inst, h)
      BY <3>1, <3>2 DEF AtGiveUp, Found, OldRecords, Something
    <3> QED BY <1>0, <1>1, <2>1, <3>1, <3>3 DEF Knows, AtRest
  <2>3. ASSUME Bearable(h), Recalls(j, d) PROVE Recalls(k, d)
    <3>1. Stood(d, j.inst) /\ (j.backed => ~InPlace(j))
      BY <1>1, <2>3 DEF Recalls, RecallsGiveUp, Remains
    <3>2. (k.before # {} => Origin(k)) /\ (k.inst # None => k.before # {}) /\ Fits(d, d.receipt)
      BY <2>1, <2>3, StillRecalls
    <3>3. RecallsUnlock(k, d)
      BY <1>0, <1>1, <2>1, <3>1, KeepsRecalled DEF RecallsUnlock, Settled
    <3> QED BY <2>1, <3>2, <3>3 DEF Recalls
  <2> QED BY <2>1, <2>2, <2>3 DEF Sound
<1>2. CASE ~j.rolling
  <2>1. Comes(k) /\ Keeps(j, k) /\ k.at = "purge"
    <3>1. MayBe(j, "purge", j.i, j.rolling, j.failed, j.backed)
      BY <1>0, <1>2, JobPlaceIs DEF MayBe, Places, PredecessorAt, Early
    <3> QED BY <1>2, <3>1, JumpTyped
  <2>2. ASSUME Unharmed(h), Knows(j, d, h) PROVE Knows(k, d, h)
    <3>1. AtUndo(j, d) /\ (h = {} => WasInPlace(k))
      BY <1>2, <2>1, <2>2, KeepsIs DEF Knows
    <3>2. AtPurge(k, d)
      BY <2>1, <3>1, KeepsIs DEF AtUndo, AtPurge, Keeps
    <3> QED BY <2>1, <3>1, <3>2 DEF Knows
  <2>3. ASSUME Bearable(h), Recalls(j, d) PROVE Recalls(k, d)
    <3>1. RecallsUndo(j, d)
      BY <1>2, <2>3 DEF Recalls
    <3>2. (k.before # {} => Origin(k)) /\ (k.inst # None => k.before # {}) /\ Fits(d, d.receipt)
      BY <2>1, <2>3, StillRecalls
    <3>3. RecallsPurge(k, d)
      BY <2>1, <3>1, KeepsRecalled DEF RecallsUndo, RecallsPurge, Keeps
    <3> QED BY <2>1, <3>2, <3>3 DEF Recalls
  <2> QED BY <2>1, <2>2, <2>3 DEF Sound
<1> QED BY <1>1, <1>2

(* When the records could not be written, the artifacts go in their order. *)
LEMMA UnrecordNextIsSound ==
    ASSUME NEW j, JobTyped(j), j.at = "unrecord", NEW d \in Disk, NEW h, NEW k, NEW skip, NEW e,
           j.i <= Len(j.specs), Gets(d, UninstallOne(d, j.specs[j.i], j.new, j.dir, j.opt, skip), e),
           k = Jump(j, "unrecord", j.i + 1, j.rolling, j.failed, j.backed)
    PROVE  Sound(j, d, h, k, e, h)
<1>0. /\ j.new \in Versions /\ j.dir \in AppDirs /\ j.specs \in SpecLists /\ j.old.dir \in AppDirs
      /\ j.i \in Nat /\ j.i > 0 /\ ~j.rolling
  BY JobIs DEF JobTyped
<1>1. Comes(k) /\ Keeps(j, k) /\ k.at = "unrecord" /\ k.i = j.i + 1
  <2>1. MayBe(j, "unrecord", j.i + 1, j.rolling, j.failed, j.backed)
    BY <1>0, JobPlaceIs DEF MayBe, Places, PredecessorAt, Early
  <2> QED BY <2>1, JumpTyped
<1>2. e \in Disk
  <2>1. UninstallOne(d, j.specs[j.i], j.new, j.dir, j.opt, skip) \subseteq Disk
    BY <1>0, OutcomesAreDisks
  <2> QED BY <2>1 DEF Gets
<1>3. ASSUME Unharmed(h), Knows(j, d, h) PROVE Knows(k, e, h)
  <2>1. AtUnrecord(j, d) /\ (h = {} => WasInPlace(k))
    BY <1>1, <1>3, KeepsIs DEF Knows
  <2>2. Listed(j.specs)
    BY <1>0, <2>1 DEF AtUnrecord, SpecLists, Listed
  <2>3. k.specs # <<>> /\ k.specs = j.specs /\ k.new = j.new
    BY <1>1, <2>1 DEF AtUnrecord, Keeps
  <2>4. SUFFICES AtUnrecord(k, e)
    BY <1>1, <2>1 DEF Knows
  <2>5. CASE j.i = 1
    <3>1. j.specs[j.i] = "app" /\ In(d, j.new, j.dir) /\ VacantElsewhere(j, d)
      BY <2>1, <2>2, <2>5, SpecsAt DEF AtUnrecord
    <3>2. /\ SameRest(d, e) /\ e.tool = d.tool
          /\ StagedBut(d, e, j.new) /\ AppsBut(d, e, j.dir)
          /\ e.app[j.dir] = None /\ NoApp(e)
      <4>1. Gets(d, UninstallOne(d, "app", j.new, j.dir, j.opt, skip), e)
        BY <3>1
      <4> QED BY <1>0, <3>1, <4>1, AppComesBack
    <3>3. Vacant(j, e)
      BY <1>0, <3>1, <3>2 DEF VacantElsewhere, Vacant, AppsBut
    <3>4. Alone(e, j.new) /\ ToolOf(e, j.new, j.specs)
      BY <2>1, <3>2 DEF AtUnrecord, Alone, SameRest, StagedBut, ToolOf
    <3>5. Replacing(k, e) /\ Vacant(k, e)
      BY <1>1, <2>1, <3>2, <3>3, SameBackup, KeepsIs DEF AtUnrecord, SameRest
    <3> QED BY <1>1, <2>3, <2>5, <3>2, <3>4, <3>5 DEF AtUnrecord
  <2>6. CASE j.i > 1
    <3>1. ToolOf(d, j.new, j.specs) /\ NoApp(d) /\ Vacant(j, d)
      BY <2>1, <2>6 DEF AtUnrecord
    <3>2. /\ SameRest(d, e) /\ e.staged = d.staged /\ e.app = d.app
          /\ ToolOf(e, j.new, j.specs)
          /\ j.i = 2 \/ NoTool(d) => NoTool(e)
      <4>1. KindAt(j.specs, j.i, j.specs[j.i])
        BY DEF KindAt
      <4> QED BY <1>0, <2>2, <2>6, <3>1, <4>1, RestIsUninstalled
    <3>3. NoTool(e) /\ Alone(e, j.new)
      <4>1. j.i = 2 \/ j.i > 2
        BY <1>0, <2>6
      <4> QED BY <2>1, <3>2, <4>1 DEF AtUnrecord, Alone, SameRest
    <3>4. Replacing(k, e) /\ Vacant(k, e) /\ NoApp(e)
      BY <1>1, <2>1, <3>1, <3>2, SameBackup, SameApps, KeepsIs DEF AtUnrecord, SameRest
    <3> QED BY <1>0, <1>1, <2>3, <2>6, <3>2, <3>3, <3>4 DEF AtUnrecord
  <2> QED BY <1>0, <2>5, <2>6
<1>4. ASSUME Bearable(h), Recalls(j, d) PROVE Recalls(k, e)
  <2>1. RecallsUnrecord(j, d) /\ Listed(j.specs)
    BY <1>4, PicksListed DEF Recalls, RecallsUnrecord
  <2>2. (k.before # {} => Origin(k)) /\ (k.inst # None => k.before # {}) /\ Fits(d, d.receipt)
    BY <1>1, <1>4, StillRecalls
  <2>3. k.specs = j.specs /\ k.new = j.new
    BY <1>1 DEF Keeps
  <2>4. CASE j.i = 1
    <3>1. j.specs[j.i] = "app" /\ Set(d, j.new, j.dir) /\ AppsLeft(j, d, j.dir)
      BY <2>1, <2>4, SpecsAt DEF RecallsUnrecord
    <3>2. /\ SameRest(d, e) /\ e.tool = d.tool
          /\ StagedBut(d, e, j.new) /\ AppsBut(d, e, j.dir)
          /\ e.app[j.dir] = None
      <4>1. Gets(d, UninstallOne(d, "app", j.new, j.dir, j.opt, skip), e)
        BY <3>1
      <4> QED BY <1>0, <3>1, <4>1, SetComesBack
    <3>3. Saved(j, e) /\ ToolOf(e, j.new, j.specs) /\ Fits(e, e.receipt)
      BY <2>1, <2>2, <3>2, SameSaved DEF RecallsUnrecord, SameRest
    <3>4. AppsLeft(j, e, None)
      BY <1>0, <3>1, <3>2, JobIs, AppsLeftBut
    <3>5. Alone(e, j.new)
      BY <2>1, <3>2 DEF RecallsUnrecord, Alone, SameRest, StagedBut
    <3>6. Saved(k, e) /\ Picks(k) /\ AppsLeft(k, e, None)
      BY <1>1, <2>1, <3>3, <3>4, KeepsRecalled DEF RecallsUnrecord
    <3>7. RecallsUnrecord(k, e)
      BY <1>1, <2>3, <2>4, <3>3, <3>5, <3>6 DEF RecallsUnrecord
    <3> QED BY <1>1, <2>2, <3>3, <3>7 DEF Recalls
  <2>5. CASE j.i > 1
    <3>1. ToolOf(d, j.new, j.specs) /\ AppsLeft(j, d, None)
      BY <2>1, <2>5 DEF RecallsUnrecord
    <3>2. /\ SameRest(d, e) /\ e.staged = d.staged /\ e.app = d.app
          /\ ToolOf(e, j.new, j.specs)
          /\ e.tool = d.tool \/ (e.tool = None /\ d.tool \in Versions)
          /\ j.i = 2 \/ NoTool(d) => NoTool(e)
      <4>1. KindAt(j.specs, j.i, j.specs[j.i])
        BY DEF KindAt
      <4> QED BY <1>0, <2>1, <2>5, <3>1, <4>1, RestIsUninstalled
    <3>3. NoTool(e) /\ Alone(e, j.new)
      <4>1. j.i = 2 \/ j.i > 2
        BY <1>0, <2>5
      <4> QED BY <2>1, <3>2, <4>1 DEF RecallsUnrecord, Alone, SameRest
    <3>4. Saved(j, e) /\ AppsLeft(j, e, None) /\ Fits(e, e.receipt)
      BY <2>1, <2>2, <3>1, <3>2, SameSaved, SameAppsLeft DEF RecallsUnrecord, SameRest
    <3>5. Saved(k, e) /\ Picks(k) /\ AppsLeft(k, e, None)
      BY <1>1, <2>1, <3>4, KeepsRecalled DEF RecallsUnrecord
    <3>6. RecallsUnrecord(k, e)
      BY <1>0, <1>1, <2>3, <2>5, <3>2, <3>3, <3>5 DEF RecallsUnrecord
    <3> QED BY <1>1, <2>2, <3>4, <3>6 DEF Recalls
  <2> QED BY <1>0, <2>4, <2>5
<1> QED BY <1>1, <1>2, <1>3, <1>4 DEF Sound

(* Then the new version is purged. *)
LEMMA UnrecordedIsSound ==
    ASSUME NEW j, JobTyped(j), j.at = "unrecord", j.i > Len(j.specs), NEW d \in Disk, NEW h, NEW k,
           k = Jump(j, "purge", j.i, j.rolling, j.failed, j.backed)
    PROVE  Sound(j, d, h, k, d, h)
<1>0. ~j.rolling /\ j.specs \in SpecLists /\ j.i \in Nat
  BY JobIs DEF JobTyped
<1>1. Comes(k) /\ Keeps(j, k) /\ k.at = "purge"
  <2>1. MayBe(j, "purge", j.i, j.rolling, j.failed, j.backed)
    BY <1>0, JobPlaceIs DEF MayBe, Places, PredecessorAt, Early
  <2> QED BY <1>0, <2>1, JumpTyped
<1>2. ASSUME Unharmed(h), Knows(j, d, h) PROVE Knows(k, d, h)
  <2>1. AtUnrecord(j, d) /\ (h = {} => WasInPlace(k))
    BY <1>1, <1>2, KeepsIs DEF Knows
  <2>2. j.i > 2
    BY SMTT(60), <1>0, <2>1, SpecsAt DEF AtUnrecord, SpecLists, Listed
  <2>3. AtPurge(k, d)
    BY <1>1, <2>1, <2>2, KeepsIs DEF AtUnrecord, AtPurge, Keeps
  <2> QED BY <1>1, <2>1, <2>3 DEF Knows
<1>3. ASSUME Bearable(h), Recalls(j, d) PROVE Recalls(k, d)
  <2>1. RecallsUnrecord(j, d) /\ Listed(j.specs)
    BY <1>3, PicksListed DEF Recalls, RecallsUnrecord
  <2>2. (k.before # {} => Origin(k)) /\ (k.inst # None => k.before # {}) /\ Fits(d, d.receipt)
    BY <1>1, <1>3, StillRecalls
  <2>3. j.i > 2
    BY <1>0, <2>1, SpecsAt
  <2>4. RecallsPurge(k, d)
    BY <1>1, <2>1, <2>3, KeepsRecalled DEF RecallsUnrecord, RecallsPurge, Keeps
  <2> QED BY <1>1, <2>2, <2>4 DEF Recalls
<1> QED BY <1>1, <1>2, <1>3 DEF Sound

================================================================================
