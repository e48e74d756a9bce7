------------------------------ MODULE CaskProofs -------------------------------
(***************************************************************************)
(* What holds of a cask whatever the versions, directories, options and    *)
(* processes are: the invariant CaskInv of CaskSteps, from the steps proved *)
(* sound there, and what follows from it.                                  *)
(***************************************************************************)
EXTENDS CaskSteps

(* The artifacts installed go again, whichever could not be. *)
LEMMA UndoComes ==
    ASSUME NEW j, JobTyped(j), j.at = "install", NEW k,
           k = Jump(j, "undo", j.i - 1, j.rolling, Yes, j.backed)
    PROVE  Comes(k) /\ Keeps(j, k) /\ k.at = "undo" /\ k.i = j.i - 1 /\ k.rolling = j.rolling
<1>1. j.i - 1 \in Nat
  BY JobIs DEF JobTyped
<1>2. MayBe(j, "undo", j.i - 1, j.rolling, Yes, j.backed)
  BY <1>1, JobPlaceIs DEF MayBe, Places, PredecessorAt, Early, Yes, JobTyped
<1> QED BY <1>2, JumpTyped

(* Two staged directories that have the tool and the same app. *)
LEMMA SameHas ==
    ASSUME NEW s \in StagedDir \cup {Gone}, NEW t \in StagedDir \cup {Gone}, NEW app, Has(s, app), Has(t, app)
    PROVE  s = t
<1>1. s \in StagedDir /\ t \in StagedDir /\ s.app = t.app /\ s.tool /\ t.tool
  BY DEF Has
<1>2. s.tool = t.tool
  BY <1>1 DEF StagedDir
<1> QED BY <1>1, <1>2 DEF StagedDir

(* The predecessor's app is installed again: where it was, from where it was taken. *)
LEMMA AppIsBack ==
    ASSUME NEW j, j.inst \in Versions, j.old.dir \in AppDirs, j.i = 1, Origin(j), NEW d \in Disk, RecallsRollBack(j, d),
           Fits(d, d.receipt), NEW k, Keeps(j, k), k.i = j.i + 1, NEW specs, Listed(specs),
           NEW opt, NEW e \in InstallOne(d, specs[j.i], j.inst, j.old.dir, opt)
    PROVE  Remains(j, e) /\ Fits(e, e.receipt) /\ (j.backed /\ InPlace(j) => ComesBack(k, e))
<1> DEFINE v == j.inst
           dir == j.old.dir
<1>1. /\ \/ MayMoveApp(d, v, dir, opt) /\ e = MoveApp(d, v, dir)
         \/ MayAdoptApp(d, v, dir, opt) /\ e = AdoptApp(d, v, dir)
      /\ HasSource(d, v)
  <2>1. specs[j.i] = "app"
    BY SpecsAt
  <2> QED BY <2>1, InstallOneIs DEF MayMoveApp, MayAdoptApp
<1>2. Remains(j, d) /\ Stocked(d, v) /\ Stood(d, v)
  BY DEF RecallsRollBack, Remains, Stood, Stands
<1>3. /\ SameRest(d, e) /\ e.tool = d.tool /\ StagedBut(d, e, v) /\ AppsBut(d, e, dir)
      /\ Has(e.staged[v], dir) /\ e.app[dir] # None
      /\ e = MoveApp(d, v, dir) => e.app[dir] = Source(d, v)
  <2>1. d.staged[v] # Gone /\ d.staged[v].tool /\ Source(d, v) # None
    BY <1>1, <1>2 DEF HasSource, Stocked, Source
  <2>2. e = MoveApp(d, v, dir) =>
          /\ SameRest(d, e) /\ e.tool = d.tool /\ StagedBut(d, e, v) /\ AppsBut(d, e, dir)
          /\ Has(e.staged[v], dir) /\ e.app[dir] = Source(d, v)
    BY <2>1, MoveAppDoes DEF AppIs
  <2>3. e = AdoptApp(d, v, dir) =>
          /\ SameRest(d, e) /\ e.tool = d.tool /\ StagedBut(d, e, v) /\ AppsBut(d, e, dir)
          /\ Has(e.staged[v], dir) /\ e.app[dir] # None
    BY <2>1, AdoptAppDoes, NamesDiffer DEF AppIs
  <2> QED BY <1>1, <2>1, <2>2, <2>3
<1>4. Remains(j, e) /\ Fits(e, e.receipt)
  <2>1. Stocked(e, v)
    BY <1>3, NamesDiffer DEF Has, Stocked
  <2>2. Alone(e, v) /\ NoBackup(e) /\ e.meta[v] > 0 /\ e.receipt = d.receipt /\ ToolOf(e, v, e.receipt)
    BY <1>2, <1>3 DEF Stood, Stands, Alone, NoBackup, ToolOf, SameRest, StagedBut
  <2> QED BY <1>2, <1>3, <2>1, <2>2 DEF Remains, Stood, Stands, Fits
<1>5. ASSUME j.backed, InPlace(j) PROVE ComesBack(k, e)
  <2>1. /\ d.meta = Was(j).meta /\ AppsWithin(j, d, None)
        /\ Taken(j, d.staged[v]) /\ d.app[dir] = None /\ NoTool(d) /\ LessTool(j, d.tool)
    BY <1>5 DEF RecallsRollBack, ComesBack
  <2>2. e = MoveApp(d, v, dir) /\ e.app[dir] = Was(j).app[dir]
    <3>1. e = MoveApp(d, v, dir)
      BY <1>1, <2>1 DEF MayAdoptApp
    <3>2. Source(d, v) = Was(j).app[dir]
      BY <1>5, <2>1 DEF Taken, Source
    <3> QED BY <1>3, <3>1, <3>2
  <2>3. e.staged = Was(j).staged
    <3>1. /\ e.staged \in [Versions -> StagedDir \cup {Gone}] /\ Was(j).staged \in [Versions -> StagedDir \cup {Gone}]
      BY DiskIs, OutcomesAreDisks DEF Origin, Dirs
    <3>2. ASSUME NEW w \in Versions PROVE e.staged[w] = Was(j).staged[w]
      <4>1. CASE w = v
        <5>1. Has(Was(j).staged[v], dir)
          BY <1>5 DEF Origin, Stood, Stands, Stocked, InPlace, Has
        <5> QED BY <1>3, <3>1, <4>1, <5>1, SameHas
      <4>2. CASE w # v
        <5>1. e.staged[w] = Gone
          BY <1>4, <4>2 DEF Remains, Stood, Stands, Alone
        <5>2. Was(j).staged[w] = Gone
          BY <4>2 DEF Origin, Stood, Stands, Alone
        <5> QED BY <5>1, <5>2
      <4> QED BY <4>1, <4>2
    <3> QED BY <3>1, <3>2
  <2>4. AppsWithin(j, e, None)
    BY <1>3, <2>1, <2>2 DEF AppsWithin, AppsBut
  <2>5. e.meta = Was(j).meta /\ NoTool(e) /\ LessTool(j, e.tool)
    BY <1>3, <2>1 DEF SameRest, NoTool
  <2>6. k.i = 2
    OBVIOUS
  <2> QED BY <2>2, <2>3, <2>4, <2>5, <2>6, KeepsRecalled DEF ComesBack, Keeps
<1> QED BY <1>4, <1>5

(* Its tool is linked again, unless a stranger's was in its place. *)
LEMMA RestIsBack ==
    ASSUME NEW j, j.inst \in Versions, j.old.dir \in AppDirs, j.i \in Nat, j.i > 1, Origin(j),
           NEW d \in Disk, RecallsRollBack(j, d),
           Fits(d, d.receipt), NEW k, Keeps(j, k), k.i = j.i + 1,
           NEW specs, Listed(specs), specs = (IF j.opt.binaries THEN j.old.specs ELSE Unlinked), j.i <= Len(specs),
           NEW opt, NEW e \in InstallOne(d, specs[j.i], j.inst, j.old.dir, opt)
    PROVE  Remains(j, e) /\ Fits(e, e.receipt) /\ (j.backed /\ InPlace(j) => ComesBack(k, e))
<1> DEFINE v == j.inst
<1>1. RollKinds(j) <=> specs = Kinds
  BY DEF RollKinds, Unlinked, Kinds
<1>2. Remains(j, d) /\ Stood(d, v)
  BY DEF RecallsRollBack, Remains
<1>3. /\ SameRest(d, e) /\ e.staged = d.staged /\ e.app = d.app
      /\ \A old : ToolOf(d, v, old) /\ (specs = Kinds => old = Kinds) => ToolOf(e, v, old)
      /\ e.tool = d.tool \/ e.tool = v
  <2>1. KindAt(specs, j.i, specs[j.i])
    BY DEF KindAt
  <2> QED BY <2>1, RestIsInstalled
<1>4. Remains(j, e) /\ Fits(e, e.receipt)
  <2>1. Stands(e, v) /\ e.receipt = d.receipt
    BY <1>2, <1>3 DEF Stood, Stands, Alone, NoBackup, Stocked, SameRest
  <2>2. ToolOf(e, v, e.receipt)
    BY <1>1, <1>2, <1>3, <2>1 DEF Remains, Stood
  <2>3. Fits(e, e.receipt)
    BY <1>3, <2>1, NamesDiffer DEF Fits
  <2> QED BY <1>2, <2>1, <2>2, <2>3 DEF Remains, Stood
<1>5. ASSUME j.backed, InPlace(j) PROVE ComesBack(k, e)
  <2>1. ComesBack(j, d)
    BY <1>5 DEF RecallsRollBack
  <2>2. /\ e.meta = Was(j).meta /\ AppsWithin(j, e, None)
        /\ e.staged = Was(j).staged /\ e.app[j.old.dir] = Was(j).app[j.old.dir]
    BY <1>3, <2>1, SameAppsLeft DEF ComesBack, SameRest
  <2>3. IF RollKinds(j) THEN ToolBack(j, e) ELSE LessTool(j, e.tool)
    <3>1. CASE specs[j.i] = "binary"
      <4>1. RollKinds(j) /\ j.i = 2
        <5>1. Len(specs) \in {2, 3} /\ (specs[2] = "binary" => specs = Kinds) /\ (Len(specs) = 3 => specs[3] # "binary")
          BY SpecsAt
        <5>2. j.i \in {2, 3}
          BY <5>1
        <5> QED BY <1>1, <3>1, <5>1, <5>2
      <4>2. e.tool = IF d.tool = "formula" THEN "formula" ELSE v
        BY <3>1, InstallOneIs, LinkToolDoes
      <4>3. LessTool(j, d.tool)
        BY <2>1, <4>1 DEF ComesBack
      <4>4. Was(j).tool # "other"
        BY <4>1 DEF RollKinds, Origin, Fits
      <4>5. Was(j).tool \in {None, "formula", "other"} \cup Versions
        BY DiskIs DEF Origin
      <4>6. Was(j).tool \in Versions => Was(j).tool = v
        BY DEF Origin, Stood, ToolOf
      <4>7. CASE d.tool = Was(j).tool /\ d.tool \notin Versions
        BY <4>1, <4>2, <4>4, <4>5, <4>7, NamesDiffer DEF ToolBack, RollKinds
      <4>8. CASE d.tool = None /\ Was(j).tool \in Versions
        <5>1. d.tool # "formula"
          BY <4>8 DEF None
        <5>2. e.tool = v
          BY <4>2, <5>1
        <5>3. e.tool = Was(j).tool
          BY <4>6, <4>8, <5>2
        <5> QED BY <4>1, <5>3 DEF ToolBack
      <4> QED BY <4>1, <4>3, <4>4, <4>7, <4>8 DEF LessTool
    <3>2. CASE specs[j.i] # "binary"
      <4>1. e = d
        <5>1. specs[j.i] # "app"
          <6>1. Len(specs) \in {2, 3} /\ specs[2] # "app" /\ (Len(specs) = 3 => specs[3] # "app")
            BY SpecsAt
          <6>2. j.i \in {2, 3}
            BY <6>1
          <6> QED BY <6>1, <6>2
        <5> QED BY <3>2, <5>1, InstallOneIs
      <4>2. j.i = 2 => ~RollKinds(j)
        BY <1>1, <3>2 DEF Kinds
      <4> QED BY <2>1, <4>1, <4>2 DEF ComesBack
    <3> QED BY <3>1, <3>2
  <2>4. k.i > 2
    OBVIOUS
  <2> QED BY <2>2, <2>3, <2>4, KeepsRecalled DEF ComesBack, Keeps
<1> QED BY <1>4, <1>5

(* The next artifact of the predecessor is installed again. *)
LEMMA ReinstallIsSound ==
    ASSUME NEW j, JobTyped(j), j.at = "install", j.rolling = Yes, NEW d \in Disk, NEW h, NEW k,
           NEW specs, specs = (IF j.opt.binaries THEN j.old.specs ELSE Unlinked), j.i <= Len(specs),
           NEW opt, NEW e \in InstallOne(d, specs[j.i], j.inst, j.old.dir, opt),
           k = Jump(j, "install", j.i + 1, Yes, j.failed, j.backed)
    PROVE  Sound(j, d, h, k, e, h)
<1>0. /\ j.inst \in Versions /\ j.old.dir \in AppDirs /\ j.old.specs \in SpecLists
      /\ j.i \in Nat /\ j.i > 0
  BY JobIs DEF JobTyped, Yes
<1>1. Comes(k) /\ Keeps(j, k) /\ k.at = "install" /\ k.i = j.i + 1 /\ k.rolling /\ k.backed = j.backed
  <2>1. MayBe(j, "install", j.i + 1, Yes, j.failed, j.backed)
    BY <1>0, JobPlaceIs DEF MayBe, Places, PredecessorAt, Early, Yes
  <2>2. Comes(k) /\ Keeps(j, k) /\ k.at = "install" /\ k.i = j.i + 1 /\ k.rolling = Yes /\ k.backed = j.backed
    BY <2>1, JumpTyped
  <2> QED BY <2>2 DEF Yes
<1>2. e \in Disk
  BY <1>0, OutcomesAreDisks
<1>3. ASSUME Unharmed(h), Knows(j, d, h) PROVE Knows(k, e, h)
  <2>1. AtRollBack(j, d) /\ (h = {} => WasInPlace(k))
    BY <1>1, <1>3, KeepsIs DEF Knows, Yes
  <2>2. Listed(specs) /\ (specs = Kinds => j.old.specs = Kinds)
    BY <1>0, <2>1, SpecsAre DEF AtRollBack, Found, OldRecords, SpecLists, Listed
  <2>3. SUFFICES Found(j, e) /\ In(e, j.inst, j.old.dir)
    <3>1. AtRollBack(k, e)
      BY <1>1, KeepsIs DEF AtRollBack, Keeps
    <3> QED BY <1>1, <2>1, <3>1 DEF Knows
  <2>4. CASE j.i = 1
    <3>1. specs[j.i] = "app"
      BY <2>2, <2>4, SpecsAt
    <3>2. In(d, j.inst, j.old.dir) \/ Out(d, j.inst, j.old.dir)
      BY <2>1 DEF AtRollBack, TakenOut
    <3>3. /\ SameRest(d, e) /\ e.tool = d.tool
          /\ StagedBut(d, e, j.inst)
          /\ In(e, j.inst, j.old.dir)
      BY <1>0, <3>1, <3>2, AppIsPlaced
    <3>4. Found(j, e)
      BY <2>1, <3>3 DEF AtRollBack, Found, OldRecords, Recorded, Alone, NoBackup, ToolOf, SameRest, StagedBut
    <3> QED BY <3>3, <3>4
  <2>5. CASE j.i > 1
    <3>1. In(d, j.inst, j.old.dir) /\ ToolOf(d, j.inst, j.old.specs)
      BY <2>1, <2>5 DEF AtRollBack, Found, Recorded
    <3>2. /\ SameRest(d, e) /\ e.staged = d.staged /\ e.app = d.app
          /\ \A old : ToolOf(d, j.inst, old) /\ (specs = Kinds => old = Kinds) => ToolOf(e, j.inst, old)
      <4>1. KindAt(specs, j.i, specs[j.i])
        BY DEF KindAt
      <4> QED BY <1>0, <2>2, <2>5, <4>1, RestIsInstalled
    <3>3. ToolOf(e, j.inst, j.old.specs) /\ In(e, j.inst, j.old.dir)
      BY <2>2, <3>1, <3>2 DEF In
    <3>4. Found(j, e)
      BY <2>1, <3>2, <3>3 DEF AtRollBack, Found, OldRecords, Recorded, Alone, NoBackup, SameRest
    <3> QED BY <3>3, <3>4
  <2> QED BY <1>0, <2>4, <2>5
<1>4. ASSUME Bearable(h), Recalls(j, d) PROVE Recalls(k, e)
  <2>1. RecallsRollBack(j, d) /\ Remains(j, d)
    BY <1>4 DEF Recalls, RecallsRollBack, Yes
  <2>2. /\ Origin(j) /\ (k.before # {} => Origin(k)) /\ (k.inst # None => k.before # {}) /\ Fits(d, d.receipt)
        /\ Listed(specs)
    <3>1. /\ Origin(j) /\ (k.before # {} => Origin(k)) /\ (k.inst # None => k.before # {}) /\ Fits(d, d.receipt)
      BY <1>0, <1>1, <1>4, StillRecalls, NamesDiffer
    <3> QED BY <1>0, <3>1, SpecsAre DEF Origin, Stood, SpecLists, Listed
  <2>3. Remains(j, e) /\ Fits(e, e.receipt) /\ (j.backed /\ InPlace(j) => ComesBack(k, e))
    <3>1. CASE j.i = 1
      BY ZenonT(120), <1>0, <1>1, <1>2, <2>1, <2>2, <3>1, AppIsBack
    <3>2. CASE j.i > 1
      BY <1>0, <1>1, <1>2, <2>1, <2>2, <3>2, RestIsBack
    <3> QED BY <1>0, <3>1, <3>2
  <2>4. RecallsRollBack(k, e)
    BY <1>1, <2>3, KeepsRecalled DEF RecallsRollBack, Keeps
  <2> QED BY <1>1, <2>2, <2>3, <2>4 DEF Recalls
<1> QED BY <1>1, <1>2, <1>3, <1>4 DEF Sound

(* It must fail: only an app that was lost before this command is not installed again. *)
LEMMA NotReinstalledIsSound ==
    ASSUME NEW j, JobTyped(j), j.at = "install", j.rolling = Yes, NEW d \in Disk, NEW h, NEW k,
           NEW specs, specs = (IF j.opt.binaries THEN j.old.specs ELSE Unlinked), j.i <= Len(specs),
           NEW opt, opt.force = TRUE, InstallOne(d, specs[j.i], j.inst, j.old.dir, opt) = {},
           k = Jump(j, "undo", j.i - 1, Yes, Yes, j.backed)
    PROVE  Sound(j, d, h, k, d, h)
<1>0. /\ j.inst \in Versions /\ j.old.dir \in AppDirs /\ j.old.specs \in SpecLists
      /\ j.i \in Nat /\ j.i > 0
  BY JobIs DEF JobTyped, Yes
<1>1. Comes(k) /\ Keeps(j, k) /\ k.at = "undo" /\ k.i = j.i - 1 /\ k.rolling /\ k.backed = j.backed
  <2>1. MayBe(j, "undo", j.i - 1, Yes, Yes, j.backed)
    BY <1>0, JobPlaceIs DEF MayBe, Places, PredecessorAt, Early, Yes
  <2>2. Comes(k) /\ Keeps(j, k) /\ k.at = "undo" /\ k.i = j.i - 1 /\ k.rolling = Yes /\ k.backed = j.backed
    BY <2>1, JumpTyped
  <2> QED BY <2>2 DEF Yes
<1>2. ASSUME Unharmed(h), Knows(j, d, h) PROVE Knows(k, d, h)
  <2>1. AtRollBack(j, d) /\ (h = {} => WasInPlace(k))
    BY <1>1, <1>2, KeepsIs DEF Knows, Yes
  <2>2. Listed(specs)
    BY <1>0, <2>1 DEF AtRollBack, Found, OldRecords, SpecLists, Listed
  <2>3. j.i = 1 /\ Out(d, j.inst, j.old.dir) /\ d.staged[j.inst].app = None
    <3>1. KindAt(specs, j.i, specs[j.i])
      BY DEF KindAt
    <3>2. In(d, j.inst, j.old.dir) \/ (j.i = 1 /\ Out(d, j.inst, j.old.dir))
      BY <2>1 DEF AtRollBack, TakenOut
    <3> QED BY ZenonT(120), <1>0, <2>2, <3>1, <3>2, PredecessorFits
  <2>4. ~WasInPlace(j)
    <3>1. ~In(d, j.inst, j.old.dir)
      BY <1>0, <2>3, NamesDiffer DEF In, Has
    <3>2. TakenOut(j, d)
      BY <2>1, <3>1 DEF AtRollBack
    <3> QED BY <2>3, <3>2 DEF TakenOut, Kept
  <2>5. AtGiveUp(k, d)
    BY <1>0, <1>1, <2>1, <2>3, <2>4, KeepsIs DEF AtRollBack, AtGiveUp, Keeps
  <2> QED BY <1>1, <2>1, <2>5 DEF Knows
<1>3. ASSUME Bearable(h), Recalls(j, d) PROVE Recalls(k, d)
  <2>1. RecallsRollBack(j, d) /\ Remains(j, d) /\ Stocked(d, j.inst)
    BY <1>3 DEF Recalls, RecallsRollBack, Yes, Remains, Stood, Stands
  <2>2. /\ Origin(j) /\ (k.before # {} => Origin(k)) /\ (k.inst # None => k.before # {}) /\ Fits(d, d.receipt)
        /\ Listed(specs)
    <3>1. /\ Origin(j) /\ (k.before # {} => Origin(k)) /\ (k.inst # None => k.before # {}) /\ Fits(d, d.receipt)
      BY <1>0, <1>1, <1>3, StillRecalls, NamesDiffer
    <3> QED BY <1>0, <3>1, SpecsAre DEF Origin, Stood, SpecLists, Listed
  <2>3. specs[j.i] = "app"
    <3>1. CASE specs[j.i] = "binary"
      <4>1. LinkTool(d, j.inst) \in InstallOne(d, specs[j.i], j.inst, j.old.dir, opt)
        BY <2>1, <3>1, InstallOneIs DEF MayLinkTool, Resolves, Stocked
      <4> QED BY <4>1
    <3>2. CASE specs[j.i] \notin {"app", "binary"}
      <4>1. InstallOne(d, specs[j.i], j.inst, j.old.dir, opt) = {d}
        BY <3>2, InstallOneIs
      <4> QED BY <4>1
    <3> QED BY <3>1, <3>2
  <2>4. j.i = 1
    <3>1. Len(specs) \in {2, 3} /\ specs[2] # "app" /\ (Len(specs) = 3 => specs[3] # "app")
      BY <2>2, SpecsAt
    <3>2. j.i \in {1, 2, 3}
      BY SMTT(60), <1>0, <3>1
    <3> QED BY <2>3, <3>1, <3>2
  <2>5. ~MayMoveApp(d, j.inst, j.old.dir, opt)
    <3> SUFFICES ASSUME MayMoveApp(d, j.inst, j.old.dir, opt) PROVE FALSE
      OBVIOUS
    <3>1. MoveApp(d, j.inst, j.old.dir) \in InstallOne(d, specs[j.i], j.inst, j.old.dir, opt)
      BY <2>3, InstallOneIs
    <3> QED BY <3>1
  <2>6. ASSUME j.backed, InPlace(j) PROVE FALSE
    <3>1. Taken(j, d.staged[j.inst]) /\ d.app[j.old.dir] = None
      BY <2>1, <2>4, <2>6 DEF RecallsRollBack, ComesBack
    <3>2. Was(j).app[j.old.dir] # None
      BY <1>0, <2>2, <2>6 DEF Origin, Stood, Stands, Stocked, InPlace
    <3>3. HasSource(d, j.inst)
      BY <2>6, <3>1, <3>2 DEF Taken, HasSource
    <3> QED BY <2>5, <3>1, <3>3 DEF MayMoveApp
  <2>7. RecallsGiveUp(k, d)
    BY <1>0, <1>1, <2>1, <2>4, <2>6, KeepsRecalled DEF RecallsGiveUp, Keeps
  <2> QED BY <1>1, <2>2, <2>7 DEF Recalls
<1> QED BY <1>1, <1>2, <1>3 DEF Sound

-------------------------------------------------------------------------------
(* What a step of the lock's holder must show, and that it keeps the invariant. *)

Works(p) ==
    /\ \E k : /\ Sound(job[p], disk, harm, k, disk', harm')
              /\ job' = [job EXCEPT ![p] = k]
    /\ holder' = holder
    /\ clock' \in Nat
    /\ mishaps' \in Nat /\ mishaps' <= MaxMishaps

(* A step that shows this keeps the invariant: nobody else is past the lock. *)
LEMMA WorksKeeps ==
    ASSUME CaskInv, NEW p \in Procs, Past(p), Works(p)
    PROVE  CaskInv'
<1>1. PICK k : Sound(job[p], disk, harm, k, disk', harm') /\ job' = [job EXCEPT ![p] = k]
  BY DEF Works
<1>2. /\ TypeInv /\ holder = p /\ Nobody \notin Procs
      /\ job'[p] = k /\ \A q \in Procs : q # p => job'[q] = job[q]
  BY <1>1, CaskAssumption DEF CaskInv, TypeInv, Exclusive
<1>3. Comes(k) /\ disk' \in Disk /\ harm \subseteq harm'
  BY <1>1 DEF Sound
<1>4. TypeInv'
  <2>1. job' \in [Procs -> {Idle} \cup JobType]
    <3>1. k \in {Idle} \cup JobType
      BY <1>3 DEF Comes, JobTyped
    <3>2. job \in [Procs -> {Idle} \cup JobType]
      BY <1>2 DEF TypeInv
    <3> QED BY <1>1, <3>1, <3>2
  <2>2. \A q \in Procs : job'[q] = Idle \/ JobTyped(job'[q])
    <3>1. JobTyped(k)
      BY <1>3 DEF Comes
    <3>2. \A q \in Procs : job[q] = Idle \/ JobTyped(job[q])
      BY <1>2 DEF TypeInv
    <3>3. ASSUME NEW q \in Procs PROVE job'[q] = Idle \/ JobTyped(job'[q])
      <4>1. CASE q = p
        BY <1>2, <3>1, <4>1
      <4>2. CASE q # p
        <5>1. job'[q] = job[q]
          BY <1>2, <4>2
        <5> QED BY <3>2, <5>1
      <4> QED BY <4>1, <4>2
    <3> QED BY <3>3
  <2>3. Exclusive'
    <3>1. k.at \notin {"idle", "look", "lock"}
      BY <1>3 DEF Comes, JobTyped, JobType
    <3>2. holder' = p /\ \A q \in Procs : Past(q) <=> holder = q
      BY <1>2 DEF TypeInv, Exclusive, Works
    <3>3. ASSUME NEW q \in Procs PROVE job'[q].at \notin {"idle", "look", "lock"} <=> holder' = q
      <4>1. CASE q = p
        BY <1>2, <3>1, <3>2, <4>1
      <4>2. CASE q # p
        BY <1>2, <3>2, <4>2 DEF Past
      <4> QED BY <4>1, <4>2
    <3> QED BY <3>3 DEF Exclusive, Past
  <2> QED BY <1>2, <1>3, <2>1, <2>2, <2>3 DEF TypeInv, Works
<1>5. ASSUME Unharmed(harm') PROVE Knows(k, disk', harm')
  <2>1. Unharmed(harm)
    BY <1>3, <1>5 DEF Unharmed
  <2>2. Knows(job[p], disk, harm)
    BY <2>1 DEF CaskInv
  <2> QED BY <1>1, <1>5, <2>2 DEF Sound
<1>6. \A q \in Procs : Past(q)' => q = p
  BY <1>2, <1>4 DEF TypeInv, Exclusive, Works
<1>7. ASSUME Bearable(harm') PROVE Recalls(k, disk')
  <2>1. Bearable(harm)
    BY <1>3, <1>7 DEF Bearable
  <2>2. Recalls(job[p], disk)
    BY <2>1 DEF CaskInv
  <2> QED BY <1>1, <1>7, <2>2 DEF Sound
<1> QED BY <1>2, <1>4, <1>5, <1>6, <1>7 DEF CaskInv, Works

(* A job of the holder is typed. *)
LEMMA HolderIs ==
    ASSUME TypeInv, NEW p \in Procs, Past(p)
    PROVE  JobTyped(job[p]) /\ job[p] \in JobType /\ disk \in Disk
BY DEF TypeInv, Past, Idle, JobTyped

(* A step in which nothing goes wrong. *)
LEMMA QuietlyWorks ==
    ASSUME TypeInv, NEW p, NEW k, NEW e, Goes(p, k, e), Quietly, Sound(job[p], disk, harm, k, e, harm)
    PROVE  Works(p)
BY DEF TypeInv, Goes, Quietly, Works

(* A call that fails, with the marks it leaves. *)
LEMMA FailsWorks ==
    ASSUME TypeInv, NEW p, NEW k, NEW e, NEW marks, Goes(p, k, e), Fails(marks),
           Sound(job[p], disk, harm, k, e, harm \cup marks)
    PROVE  Works(p)
<1>1. mishaps' \in Nat /\ mishaps' <= MaxMishaps
  BY CaskAssumption DEF TypeInv, Fails, Mishap
<1> QED BY <1>1 DEF TypeInv, Goes, Fails, Works

(* A call that fails and leaves no mark. *)
LEMMA FailsPlainly ==
    ASSUME TypeInv, NEW p, NEW k, NEW e, Goes(p, k, e), Fails({}), Sound(job[p], disk, harm, k, e, harm)
    PROVE  Works(p)
<1>1. harm \cup {} = harm
  OBVIOUS
<1> QED BY <1>1, FailsWorks

(* One that breaks half way, or leaves any mark but that of a failed uninstall. *)
LEMMA FailsBadly ==
    ASSUME TypeInv, NEW p, NEW k, NEW e \in Disk, NEW mark, mark \notin {"half", "misrecorded"}, Goes(p, k, e), Fails({mark}), Comes(k)
    PROVE  Works(p)
<1>1. ~Bearable(harm \cup {mark})
  BY DEF Bearable
<1>2. Sound(job[p], disk, harm, k, e, harm \cup {mark})
  BY <1>1, HarmedIsSound
<1> QED BY <1>2, FailsWorks

-------------------------------------------------------------------------------
(* The actions of the lock's holder. *)

(* Before anything is touched. *)
LEMMA DecideWorks ==
    ASSUME TypeInv, NEW p \in Procs, Decide(p)
    PROVE  Works(p)
<1>1. Past(p) /\ job[p].at = "decide"
  BY DEF Decide, At, Past
<1>2. JobTyped(job[p]) /\ disk \in Disk
  BY <1>1, HolderIs
<1>3. PICK at \in {"fetch", "unlock"} : Goes(p, Find(job[p], at, Installed(disk)), disk) /\ Quietly
  BY DEF Decide, Find
<1>4. Sound(job[p], disk, harm, Find(job[p], at, Installed(disk)), disk, harm)
  BY <1>1, <1>2, DecideIsSound
<1> QED BY <1>3, <1>4, QuietlyWorks

(* The download succeeds, or fails and changes nothing. *)
LEMMA FetchWorks ==
    ASSUME TypeInv, NEW p \in Procs, Fetch(p)
    PROVE  Works(p)
<1> DEFINE j == job[p]
<1>1. Past(p) /\ j.at = "fetch"
  BY DEF Fetch, At, Past
<1>2. JobTyped(j) /\ disk \in Disk /\ j \in JobType
  BY <1>1, HolderIs
<1>3. CASE Goes(p, [j EXCEPT !.at = IF j.inst = None THEN "stage" ELSE "begin", !.dir = DirOf(j.opt.appdir),
                             !.specs = Specs(j.opt.binaries)], disk) /\ Quietly
  <2> DEFINE k == Choose(j, IF j.inst = None THEN "stage" ELSE "begin", DirOf(j.opt.appdir), Specs(j.opt.binaries))
  <2>1. Goes(p, k, disk) /\ Quietly
    BY <1>3 DEF Choose
  <2>2. Sound(j, disk, harm, k, disk, harm)
    BY <1>1, <1>2, FetchIsSound
  <2> HIDE DEF k
  <2> QED BY <2>1, <2>2, QuietlyWorks
<1>4. CASE Goes(p, [j EXCEPT !.at = "unlock"], disk) /\ Fails({})
  <2> DEFINE k == Jump(j, "unlock", j.i, j.rolling, j.failed, j.backed)
  <2>1. Goes(p, k, disk) /\ Fails({})
    BY <1>2, <1>4 DEF Jump, JobType
  <2>2. Sound(j, disk, harm, k, disk, harm)
    BY <1>1, <1>2, NoFetchIsSound
  <2> HIDE DEF k
  <2> QED BY <2>1, <2>2, FailsPlainly
<1> QED BY <1>3, <1>4 DEF Fetch

(* The records of the predecessor are read. *)
LEMMA BeginWorks ==
    ASSUME TypeInv, NEW p \in Procs, Begin(p)
    PROVE  Works(p)
<1> DEFINE j == job[p]
           flag == IF Removing(j) THEN Unset ELSE MergedFlag(disk, j.opt.appdir)
           used == IF Removing(j) THEN Unset ELSE j.opt.appdir
           old == [dir |-> RecordedDir(disk, used), specs |-> InstalledSpecs(disk)]
           k == Begun(j, disk, old, flag, DirOf(flag))
<1>1. Past(p) /\ j.at = "begin"
  BY DEF Begin, At, Past
<1>2. JobTyped(j) /\ disk \in Disk
  BY <1>1, HolderIs
<1>3. Goes(p, k, disk) /\ Quietly
  BY DEF Begin, Begun, Removing
<1>4. Sound(j, disk, harm, k, disk, harm)
  BY <1>1, <1>2, BeginIsSound
<1> HIDE DEF k
<1> QED BY <1>3, <1>4, QuietlyWorks

(* The reversal: an artifact goes, must stay, or its call fails or breaks. *)
LEMMA ReverseNextWorks ==
    ASSUME TypeInv, NEW p \in Procs, ReverseNext(p)
    PROVE  Works(p)
<1> DEFINE j == job[p]
           kind == j.old.specs[j.i]
           opt == ReverseOpt(j)
           outcomes == UninstallOne(disk, kind, j.inst, j.old.dir, opt, Yes)
           next == Jump(j, "reverse", j.i + 1, j.rolling, j.failed, j.backed)
           failed == Jump(j, "reverse", j.i + 1, j.rolling, Yes, j.backed)
<1>1. Past(p) /\ j.at = "reverse" /\ j.i <= Len(j.old.specs)
  BY DEF ReverseNext, At, Past
<1>2. JobTyped(j) /\ disk \in Disk /\ j \in JobType
  BY <1>1, HolderIs
<1>3. [j EXCEPT !.i = @ + 1] = next /\ [[j EXCEPT !.i = @ + 1] EXCEPT !.failed = TRUE] = failed
  BY ZenonT(120), <1>1, <1>2 DEF Jump, JobType, Yes
<1>4. Sound(j, disk, harm, failed, disk, harm) /\ Comes(failed)
  BY <1>1, <1>2, NotReversedIsSound
<1>5. \A e \in outcomes : Sound(j, disk, harm, next, e, harm)
  BY <1>1, <1>2, ReverseIsSound
<1>6. TornUninstall(disk, kind, j.inst, j.old.dir, opt) \subseteq Disk
  <2>1. j.inst \in Versions /\ j.old.dir \in AppDirs
    BY <1>1, <1>2, JobIs DEF JobTyped, PredecessorAt
  <2> QED BY <1>2, <2>1, TornIsDisk
<1>7. UninstallOne(disk, kind, j.inst, j.old.dir, opt, TRUE) = outcomes
  BY SMTT(60) DEF Yes
<1>8. \/ \E e \in outcomes : Goes(p, next, e) /\ Quietly
      \/ Goes(p, failed, disk) /\ Quietly
      \/ Goes(p, failed, disk) /\ Fails({})
      \/ \E e \in TornUninstall(disk, kind, j.inst, j.old.dir, opt) : Goes(p, failed, e) /\ Fails({"torn"})
  <2> HIDE DEF next, failed, outcomes, opt
  <2> QED BY <1>3, <1>7 DEF ReverseNext, opt
<1> HIDE DEF next, failed, outcomes, opt, kind
<1> QED BY <1>4, <1>5, <1>6, <1>8, QuietlyWorks, FailsPlainly, FailsBadly

(* All of its artifacts were tried. *)
LEMMA ReversedWorks ==
    ASSUME TypeInv, NEW p \in Procs, Reversed(p)
    PROVE  Works(p)
<1> DEFINE j == job[p]
           next == IF Removing(j) THEN (IF j.failed /\ ~j.opt.force THEN "unlock" ELSE "records")
                   ELSE (IF j.failed THEN "install" ELSE "aside")
           g == IF j.failed /\ next = "records" THEN harm \cup {"forced"}
                ELSE IF j.failed /\ next = "unlock" THEN harm \cup {"half"} ELSE harm
           k == IF next = "install" THEN Jump(j, next, 1, Yes, j.failed, j.backed)
                ELSE Jump(j, next, 1, No, j.failed, j.backed)
<1>1. Past(p) /\ j.at = "reverse" /\ j.i > Len(j.old.specs)
  BY DEF Reversed, At, Past
<1>2. JobTyped(j) /\ disk \in Disk /\ j \in JobType
  BY <1>1, HolderIs
<1>3. /\ Goes(p, [j EXCEPT !.at = next, !.i = 1, !.rolling = next = "install"], disk)
      /\ harm' = g
      /\ UNCHANGED <<holder, clock, mishaps>>
  BY DEF Reversed, Removing
<1>4. Goes(p, k, disk)
  <2> HIDE DEF next
  <2>1. CASE next = "install"
    <3>1. [j EXCEPT !.at = next, !.i = 1, !.rolling = TRUE] = Jump(j, next, 1, Yes, j.failed, j.backed)
      BY <1>2 DEF Jump, JobType, Yes
    <3>2. [j EXCEPT !.at = next, !.i = 1, !.rolling = next = "install"]
          = [j EXCEPT !.at = next, !.i = 1, !.rolling = TRUE]
      BY <2>1
    <3> QED BY <1>3, <2>1, <3>1, <3>2
  <2>2. CASE next # "install"
    <3>1. [j EXCEPT !.at = next, !.i = 1, !.rolling = FALSE] = Jump(j, next, 1, No, j.failed, j.backed)
      BY <1>2 DEF Jump, JobType, No
    <3>2. [j EXCEPT !.at = next, !.i = 1, !.rolling = next = "install"]
          = [j EXCEPT !.at = next, !.i = 1, !.rolling = FALSE]
      BY <2>2
    <3> QED BY <1>3, <2>2, <3>1, <3>2
  <2> QED BY <2>1, <2>2
<1>5. Sound(j, disk, harm, k, disk, g)
  <2>1. IF next = "install" THEN k = Jump(j, next, 1, Yes, j.failed, j.backed)
        ELSE k = Jump(j, next, 1, No, j.failed, j.backed)
    OBVIOUS
  <2> HIDE DEF k
  <2> QED BY <1>1, <1>2, <2>1, ReversedIsSound
<1> HIDE DEF k, g
<1> QED BY <1>3, <1>4, <1>5 DEF Works, Goes, TypeInv

(* The backup: what is renamed, or comes back when that fails. *)
LEMMA BackupWorks ==
    ASSUME TypeInv, NEW p \in Procs, Backup(p)
    PROVE  Works(p)
<1> DEFINE j == job[p]
<1>1. Past(p) /\ j.at \in {"aside", "asideMeta"}
  BY DEF Backup, At, Past
<1>2. JobTyped(j) /\ disk \in Disk /\ j \in JobType
  BY <1>1, HolderIs
<1>3. CASE j.at = "aside" /\ Goes(p, [j EXCEPT !.at = "asideMeta", !.backed = FALSE], SetAside(disk, j.inst)) /\ Quietly
  <2> DEFINE k == Jump(j, "asideMeta", j.i, j.rolling, j.failed, No)
             e == SetAside(disk, j.inst)
  <2>1. [j EXCEPT !.at = "asideMeta", !.backed = FALSE] = k
    BY <1>2 DEF Jump, JobType, No
  <2>2. Sound(j, disk, harm, k, e, harm)
    BY <1>2, <1>3, AsideIsSound
  <2> HIDE DEF k, e
  <2>3. Goes(p, k, e)
    BY <1>3, <2>1 DEF e
  <2> QED BY <1>3, <2>2, <2>3, QuietlyWorks
<1>4. CASE j.at = "asideMeta" /\ Goes(p, [j EXCEPT !.at = "stage", !.backed = TRUE], SetAsideMeta(disk, j.inst)) /\ Quietly
  <2> DEFINE k == Jump(j, "stage", j.i, j.rolling, j.failed, Yes)
             e == SetAsideMeta(disk, j.inst)
  <2>1. [j EXCEPT !.at = "stage", !.backed = TRUE] = k
    BY <1>2 DEF Jump, JobType, Yes
  <2>2. Sound(j, disk, harm, k, e, harm)
    BY <1>2, <1>4, AsideMetaIsSound
  <2> HIDE DEF k, e
  <2>3. Goes(p, k, e)
    BY <1>4, <2>1 DEF e
  <2> QED BY <1>4, <2>2, <2>3, QuietlyWorks
<1> DEFINE c == IF j.at = "aside" THEN ClearAside(disk, j.inst) ELSE ClearAsideMeta(disk, j.inst)
           e == RestoreMeta(Restore(c, j.inst), j.inst)
<1>5. CASE Goes(p, [j EXCEPT !.at = "install", !.rolling = TRUE, !.failed = TRUE], e) /\ Fails({})
  <2> DEFINE k == Jump(j, "install", j.i, Yes, Yes, j.backed)
  <2>1. [j EXCEPT !.at = "install", !.rolling = TRUE, !.failed = TRUE] = k
    BY <1>2 DEF Jump, JobType, Yes
  <2>2. Sound(j, disk, harm, k, e, harm)
    BY <1>1, <1>2, NoBackupIsSound
  <2> HIDE DEF k, e
  <2>3. Goes(p, k, e)
    BY <1>5, <2>1
  <2> QED BY <1>5, <2>2, <2>3, FailsPlainly
<1>6. \/ j.at = "aside" /\ Goes(p, [j EXCEPT !.at = "asideMeta", !.backed = FALSE], SetAside(disk, j.inst)) /\ Quietly
      \/ j.at = "asideMeta" /\ Goes(p, [j EXCEPT !.at = "stage", !.backed = TRUE], SetAsideMeta(disk, j.inst)) /\ Quietly
      \/ Goes(p, [j EXCEPT !.at = "install", !.rolling = TRUE, !.failed = TRUE], e) /\ Fails({})
  <2>1. CASE j.at = "aside"
    BY <2>1 DEF Backup, At, ClearAside
  <2>2. CASE j.at = "asideMeta"
    BY <2>2 DEF Backup, At, ClearAsideMeta
  <2> QED BY <1>1, <2>1, <2>2
<1> QED BY <1>3, <1>4, <1>5, <1>6

(* The new version is unpacked, in whole or in part. *)
LEMMA StageWorks ==
    ASSUME TypeInv, NEW p \in Procs, Stage(p)
    PROVE  Works(p)
<1> DEFINE j == job[p]
           next == Jump(j, "caskfile", j.i, j.rolling, j.failed, j.backed)
           failing == Jump(j, "purge", j.i, j.rolling, Yes, j.backed)
           all == [app |-> j.new, tool |-> TRUE]
           lefts == {Gone, [app |-> None, tool |-> FALSE], [app |-> j.new, tool |-> TRUE]}
           Put1(dir) == [disk EXCEPT !.staged[j.new] = dir]
<1>1. Past(p) /\ j.at = "stage"
  BY DEF Stage, At, Past
<1>2. JobTyped(j) /\ disk \in Disk /\ j \in JobType
  BY <1>1, HolderIs
<1>3. [j EXCEPT !.at = "caskfile"] = next /\ Failing(j) = failing
  BY <1>2 DEF Failing, Jump, JobType, Yes
<1>4. Sound(j, disk, harm, next, Put1(all), harm)
  BY <1>1, <1>2, StageIsSound
<1>5. ASSUME NEW left \in lefts PROVE Sound(j, disk, harm, failing, Put1(left), harm)
  BY <1>1, <1>2, StageIsSound
<1>6. \/ Goes(p, next, Put1(all)) /\ Quietly
      \/ \E left \in lefts : Goes(p, failing, Put1(left)) /\ Fails({})
  <2> HIDE DEF next, failing
  <2> QED BY <1>3 DEF Stage
<1> HIDE DEF next, failing, all, lefts, Put1
<1> QED BY <1>4, <1>5, <1>6, QuietlyWorks, FailsPlainly

(* Its caskfile is written, or not. *)
LEMMA CaskfileWorks ==
    ASSUME TypeInv, NEW p \in Procs, Caskfile(p)
    PROVE  Works(p)
<1> DEFINE j == job[p]
           next == Jump(j, "install", 1, j.rolling, j.failed, j.backed)
           failing == Jump(j, "purge", j.i, j.rolling, Yes, j.backed)
           previous == Installed(disk)
           M == IF previous = None THEN disk.meta ELSE [disk.meta EXCEPT ![previous] = 0]
           e == PutMeta(disk, M, j.new, clock + 1)
<1>1. Past(p) /\ j.at = "caskfile"
  BY DEF Caskfile, At, Past
<1>2. JobTyped(j) /\ disk \in Disk /\ j \in JobType /\ clock \in Nat
  BY <1>1, HolderIs DEF TypeInv
<1>3. [j EXCEPT !.at = "install", !.i = 1] = next /\ Failing(j) = failing
  BY <1>2 DEF Failing, Jump, JobType, Yes
<1>4. Sound(j, disk, harm, next, e, harm)
  <2>1. disk.meta \in Metas
    BY <1>2, DiskIs
  <2>2. M \in Metas
    BY <2>1 DEF Metas
  <2>3. clock + 1 \in Nat /\ clock + 1 > 0 /\ (Installed(disk) = None => M = disk.meta)
    BY <1>2
  <2> HIDE DEF M
  <2> QED BY <1>1, <1>2, <2>2, <2>3, CaskfileIsSound
<1>5. Sound(j, disk, harm, failing, disk, harm)
  BY <1>1, <1>2, NoCaskfileIsSound
<1>6. \/ Goes(p, next, e) /\ clock' = clock + 1 /\ UNCHANGED <<holder, mishaps, harm>>
      \/ Goes(p, failing, disk) /\ Fails({})
  <2> HIDE DEF next, failing
  <2> QED BY <1>3 DEF Caskfile, PutMeta
<1> HIDE DEF next, failing, e
<1>7. CASE Goes(p, next, e) /\ clock' = clock + 1 /\ UNCHANGED <<holder, mishaps, harm>>
  <2>1. clock' \in Nat /\ mishaps' \in Nat /\ mishaps' <= MaxMishaps /\ holder' = holder
    BY <1>2, <1>7 DEF TypeInv
  <2>2. Sound(j, disk, harm, next, disk', harm') /\ job' = [job EXCEPT ![p] = next]
    BY <1>4, <1>7 DEF Goes
  <2> QED BY <2>1, <2>2 DEF Works
<1> QED BY <1>5, <1>6, <1>7, FailsPlainly

(* An artifact of the new version is installed, must not be, or its call fails or breaks. *)
LEMMA NewInstallNextWorks ==
    ASSUME TypeInv, NEW p \in Procs, InstallNext(p), ~job[p].rolling
    PROVE  Works(p)
<1> DEFINE j == job[p]
           kind == j.specs[j.i]
           outcomes == InstallOne(disk, kind, j.new, j.dir, j.opt)
           torn == TornInstall(disk, kind, j.new, j.dir, j.opt)
           next == Jump(j, "install", j.i + 1, j.rolling, j.failed, j.backed)
           undo == Jump(j, "undo", j.i - 1, j.rolling, Yes, j.backed)
<1>1. Past(p) /\ j.at = "install" /\ j.i <= Len(j.specs)
  BY DEF InstallNext, Installing, At, Past
<1>2. JobTyped(j) /\ disk \in Disk /\ j \in JobType
  BY <1>1, HolderIs
<1>3. [j EXCEPT !.i = @ + 1] = next /\ [j EXCEPT !.at = "undo", !.failed = TRUE, !.i = @ - 1] = undo
  BY ZenonT(120), <1>1, <1>2 DEF Jump, JobType, Yes
<1>4. Sound(j, disk, harm, undo, disk, harm) /\ Comes(undo)
  BY <1>1, <1>2, NotInstalledIsSound
<1>5. \A e \in outcomes : Sound(j, disk, harm, next, e, harm)
  BY <1>1, <1>2, InstallIsSound
<1>6. torn \subseteq Disk
  BY <1>2, JobIs, TornIsDisk
<1>7. \/ \E e \in outcomes : Goes(p, next, e) /\ Quietly
      \/ Goes(p, undo, disk) /\ Quietly
      \/ Goes(p, undo, disk) /\ Fails({})
      \/ \E e \in torn : Goes(p, undo, e) /\ Fails({"torn"})
  <2> HIDE DEF next, undo
  <2> QED BY <1>3 DEF InstallNext, Installing
<1> HIDE DEF next, undo, outcomes, kind, torn
<1> QED BY <1>4, <1>5, <1>6, <1>7, QuietlyWorks, FailsPlainly, FailsBadly

(* So for one of the predecessor, which a failure leaves half restored. *)
LEMMA RollBackNextWorks ==
    ASSUME TypeInv, NEW p \in Procs, InstallNext(p), job[p].rolling
    PROVE  Works(p)
<1> DEFINE j == job[p]
           opt == PredecessorOpt(j)
           specs == IF j.opt.binaries THEN j.old.specs ELSE Unlinked
           kind == specs[j.i]
           outcomes == InstallOne(disk, kind, j.inst, j.old.dir, opt)
           torn == TornInstall(disk, kind, j.inst, j.old.dir, opt)
           next == Jump(j, "install", j.i + 1, Yes, j.failed, j.backed)
           undo == Jump(j, "undo", j.i - 1, Yes, Yes, j.backed)
<1>1. Past(p) /\ j.at = "install" /\ j.i <= Len(specs)
  BY DEF InstallNext, Installing, At, Past
<1>2. JobTyped(j) /\ disk \in Disk /\ j \in JobType
  BY <1>1, HolderIs
<1>3. j.rolling = Yes
  BY <1>2 DEF JobType, Yes
<1>4. [j EXCEPT !.i = @ + 1] = next /\ [j EXCEPT !.at = "undo", !.failed = TRUE, !.i = @ - 1] = undo
  BY <1>1, <1>2, <1>3 DEF Jump, JobType, Yes
<1>5. opt.force = TRUE
  BY <1>2 DEF PredecessorOpt, JobType, AllOptions
<1>6. specs = (IF j.opt.binaries THEN j.old.specs ELSE Unlinked)
  OBVIOUS
<1>7. \A e \in outcomes : Sound(j, disk, harm, next, e, harm)
  <2> HIDE DEF specs, opt
  <2> QED BY <1>1, <1>2, <1>3, <1>6, ReinstallIsSound
<1>8. outcomes = {} => Sound(j, disk, harm, undo, disk, harm)
  <2> HIDE DEF specs, opt
  <2> QED BY <1>1, <1>2, <1>3, <1>5, <1>6, NotReinstalledIsSound
<1>9. Comes(undo)
  BY SMTT(60), <1>1, <1>2, <1>3, UndoComes
<1>10. torn \subseteq Disk
  BY <1>2, <1>3, JobIs, TornIsDisk DEF JobTyped, Yes
<1>11. \/ \E e \in outcomes : Goes(p, next, e) /\ Quietly
       \/ outcomes = {} /\ Goes(p, undo, disk) /\ Quietly
       \/ Goes(p, undo, disk) /\ Fails({"rollback"})
       \/ \E e \in torn : Goes(p, undo, e) /\ Fails({"torn"})
  <2> HIDE DEF next, undo, opt
  <2> QED BY <1>4 DEF InstallNext, Installing, opt
<1> HIDE DEF next, undo, outcomes, kind, torn, specs, opt
<1> QED BY <1>2, <1>7, <1>8, <1>9, <1>10, <1>11, QuietlyWorks, FailsBadly

(* Every artifact is in its place. *)
LEMMA AllInstalledWorks ==
    ASSUME TypeInv, NEW p \in Procs, AllInstalled(p)
    PROVE  Works(p)
<1> DEFINE j == job[p]
           specs == Installing(j).specs
           unlocked == Jump(j, "unlock", j.i, j.rolling, j.failed, j.backed)
           placed == Jump(j, "config", j.i, j.rolling, j.failed, j.backed)
           k == IF j.rolling THEN unlocked ELSE placed
<1>1. Past(p) /\ j.at = "install" /\ j.i > Len(specs)
  BY DEF AllInstalled, At, Past
<1>2. JobTyped(j) /\ disk \in Disk /\ j \in JobType
  BY <1>1, HolderIs
<1>3. [j EXCEPT !.at = "unlock"] = unlocked /\ [j EXCEPT !.at = "config"] = placed
  BY <1>2 DEF Jump, JobType
<1>4. Goes(p, k, disk) /\ Quietly
  <2> HIDE DEF unlocked, placed
  <2> QED BY <1>3 DEF AllInstalled
<1>5. IF j.rolling THEN specs = (IF j.opt.binaries THEN j.old.specs ELSE Unlinked) ELSE specs = j.specs
  BY DEF Installing
<1>6. IF j.rolling THEN k = unlocked ELSE k = placed
  OBVIOUS
<1>7. Sound(j, disk, harm, k, disk, harm)
  <2> HIDE DEF specs, k
  <2> QED BY <1>1, <1>2, <1>5, <1>6, AllInstalledIsSound
<1> HIDE DEF k
<1> QED BY <1>4, <1>7, QuietlyWorks

(* A predecessor that could not be put back has nothing installed to take out. *)
LEMMA GivenUpIsSound ==
    ASSUME NEW j, JobTyped(j), j.at = "undo", j.rolling = Yes, j.i # 0, NEW d \in Disk, NEW h, NEW k, NEW e \in Disk,
           k = Jump(j, "undo", j.i - 1, j.rolling, j.failed, j.backed)
    PROVE  Sound(j, d, h, k, e, h)
<1>1. j.i - 1 \in Nat /\ j.inst \in Versions
  BY JobIs DEF JobTyped, Yes
<1>2. MayBe(j, "undo", j.i - 1, j.rolling, j.failed, j.backed)
  BY <1>1, JobPlaceIs DEF MayBe, Places, PredecessorAt, Early, JobTyped
<1>3. Comes(k)
  BY <1>2, JumpTyped
<1>4. ~Knows(j, d, h)
  BY DEF Knows, AtGiveUp, Yes
<1>5. ~Recalls(j, d)
  BY DEF Recalls, RecallsGiveUp, Yes
<1> QED BY <1>3, <1>4, <1>5 DEF Sound, Unharmed, Bearable

(* An artifact goes again, or stays; then the files go. *)
LEMMA UndoNextWorks ==
    ASSUME TypeInv, NEW p \in Procs, UndoNext(p)
    PROVE  Works(p)
<1> DEFINE j == job[p]
           what == Installing(j)
           outcomes == UninstallOne(disk, what.specs[j.i], what.v, what.dir, what.opt, No)
           next == Jump(j, "undo", j.i - 1, j.rolling, j.failed, j.backed)
           unlocked == Jump(j, "unlock", j.i, j.rolling, j.failed, j.backed)
           undone == Jump(j, "purge", j.i, j.rolling, j.failed, j.backed)
           k == IF j.rolling THEN unlocked ELSE undone
<1>1. Past(p) /\ j.at = "undo"
  BY DEF UndoNext, At, Past
<1>2. JobTyped(j) /\ disk \in Disk /\ j \in JobType
  BY <1>1, HolderIs
<1>3. /\ [j EXCEPT !.i = @ - 1] = next
      /\ [j EXCEPT !.at = "unlock"] = unlocked /\ [j EXCEPT !.at = "purge"] = undone
  BY <1>1, <1>2 DEF Jump, JobType
<1>4. UninstallOne(disk, what.specs[j.i], what.v, what.dir, what.opt, FALSE) = outcomes
  BY DEF No
<1>5. /\ Quietly
      /\ IF j.i = 0 THEN Goes(p, k, disk) ELSE \E e : Gets(disk, outcomes, e) /\ Goes(p, next, e)
  <2> HIDE DEF next, unlocked, undone, what, outcomes
  <2> QED BY <1>3, <1>4 DEF UndoNext, Gets, what
<1>6. CASE j.i = 0
  <2>1. IF j.rolling THEN k = unlocked ELSE k = undone
    OBVIOUS
  <2>2. Sound(j, disk, harm, k, disk, harm)
    <3> HIDE DEF k
    <3> QED BY <1>1, <1>2, <1>6, <2>1, AllUndoneIsSound
  <2> HIDE DEF k
  <2> QED BY <1>5, <1>6, <2>2, QuietlyWorks
<1>7. ASSUME j.i # 0, NEW e, Gets(disk, outcomes, e) PROVE Sound(j, disk, harm, next, e, harm)
  <2>1. CASE j.rolling
    <3>1. j.rolling = Yes /\ what.v \in Versions /\ what.dir \in AppDirs
      BY <1>2, <2>1, JobIs DEF JobTyped, JobType, Yes, Installing
    <3>2. e \in Disk
      <4>1. outcomes \subseteq Disk
        <5> HIDE DEF what
        <5> QED BY <1>2, <3>1, OutcomesAreDisks
      <4> HIDE DEF outcomes
      <4> QED BY <1>2, <1>7, <4>1 DEF Gets
    <3> QED BY <1>1, <1>2, <1>7, <3>1, <3>2, GivenUpIsSound
  <2>2. CASE ~j.rolling
    <3>1. outcomes = UninstallOne(disk, j.specs[j.i], j.new, j.dir, j.opt, No)
      BY <2>2 DEF Installing
    <3>2. Gets(disk, UninstallOne(disk, j.specs[j.i], j.new, j.dir, j.opt, No), e)
      BY <1>7, <3>1
    <3> QED BY <1>1, <1>2, <1>7, <2>2, <3>2, UndoIsSound
  <2> QED BY <2>1, <2>2
<1> HIDE DEF next, outcomes, k
<1>8. CASE j.i # 0
  BY <1>5, <1>7, <1>8, QuietlyWorks
<1> QED BY <1>6, <1>8

(* A record is written, or cannot be. *)
LEMMA RecordsWorks ==
    ASSUME TypeInv, NEW p \in Procs, Records(p)
    PROVE  Works(p)
<1> DEFINE j == job[p]
           received == Jump(j, "receipt", j.i, j.rolling, j.failed, j.backed)
           summed == Jump(j, "sha", j.i, j.rolling, j.failed, j.backed)
           done == Jump(j, IF j.inst = None THEN "unlock" ELSE "finish", j.i, j.rolling, j.failed, j.backed)
           undo == Jump(j, "unrecord", 1, j.rolling, Yes, j.backed)
           configured == [disk EXCEPT !.config = j.opt.appdir]
           written == [disk EXCEPT !.receipt = j.specs]
           marks == IF j.at = "config" THEN {} ELSE {"misrecorded"}
<1>1. Past(p) /\ j.at \in {"config", "receipt", "sha"}
  BY DEF Records, At, Past
<1>2. JobTyped(j) /\ disk \in Disk /\ j \in JobType
  BY <1>1, HolderIs
<1>3. /\ [j EXCEPT !.at = "receipt"] = received /\ [j EXCEPT !.at = "sha"] = summed
      /\ [j EXCEPT !.at = IF j.inst = None THEN "unlock" ELSE "finish"] = done
      /\ [j EXCEPT !.at = "unrecord", !.failed = TRUE, !.i = 1] = undo
  BY <1>2 DEF Jump, JobType, Yes
<1>4. /\ j.at = "config" => Sound(j, disk, harm, received, configured, harm)
      /\ j.at = "receipt" => Sound(j, disk, harm, summed, written, harm)
      /\ j.at = "sha" => Sound(j, disk, harm, done, disk, harm)
  BY <1>2, ConfigIsSound, ReceiptIsSound, ShaIsSound
<1>5. Sound(j, disk, harm, undo, disk, harm \cup marks)
  BY <1>1, <1>2, UnrecordIsSound
<1>6. \/ j.at = "config" /\ Goes(p, received, configured) /\ Quietly
      \/ j.at = "receipt" /\ Goes(p, summed, written) /\ Quietly
      \/ j.at = "sha" /\ Goes(p, done, disk) /\ Quietly
      \/ Goes(p, undo, disk) /\ Fails(marks)
  <2> HIDE DEF received, summed, done, undo
  <2> QED BY <1>3 DEF Records, At
<1> HIDE DEF received, summed, done, undo, configured, written, marks
<1> QED BY <1>4, <1>5, <1>6, QuietlyWorks, FailsWorks

(* The same when the records could not be written. *)
LEMMA UnrecordNextWorks ==
    ASSUME TypeInv, NEW p \in Procs, UnrecordNext(p)
    PROVE  Works(p)
<1> DEFINE j == job[p]
           outcomes == UninstallOne(disk, j.specs[j.i], j.new, j.dir, j.opt, Yes)
           next == Jump(j, "unrecord", j.i + 1, j.rolling, j.failed, j.backed)
           done == Jump(j, "purge", j.i, j.rolling, j.failed, j.backed)
<1>1. Past(p) /\ j.at = "unrecord"
  BY DEF UnrecordNext, At, Past
<1>2. JobTyped(j) /\ disk \in Disk /\ j \in JobType /\ j.i \in Nat
  BY <1>1, HolderIs, JobIs
<1>3. [j EXCEPT !.i = @ + 1] = next /\ [j EXCEPT !.at = "purge"] = done
  BY <1>1, <1>2 DEF Jump, JobType
<1>4. UninstallOne(disk, j.specs[j.i], j.new, j.dir, j.opt, TRUE) = outcomes
  BY DEF Yes
<1>5. /\ Quietly
      /\ IF j.i > Len(j.specs) THEN Goes(p, done, disk) ELSE \E e : Gets(disk, outcomes, e) /\ Goes(p, next, e)
  <2> HIDE DEF next, done, outcomes
  <2> QED BY <1>3, <1>4 DEF UnrecordNext, Gets
<1>6. CASE j.i > Len(j.specs)
  <2>1. Sound(j, disk, harm, done, disk, harm)
    BY <1>1, <1>2, <1>6, UnrecordedIsSound
  <2> HIDE DEF done
  <2> QED BY <1>5, <1>6, <2>1, QuietlyWorks
<1>7. ASSUME j.i <= Len(j.specs), NEW e, Gets(disk, outcomes, e) PROVE Sound(j, disk, harm, next, e, harm)
  BY <1>1, <1>2, <1>7, UnrecordNextIsSound
<1>8. CASE ~(j.i > Len(j.specs))
  <2>1. j.i <= Len(j.specs)
    <3>1. j.specs \in {<<>>, Kinds, Unlinked} /\ Len(j.specs) \in {0, 2, 3}
      BY <1>2, JobIs, SpecsAre DEF SpecLists
    <3> QED BY <1>2, <1>8, <3>1
  <2> HIDE DEF next, outcomes
  <2> QED BY <1>5, <1>7, <1>8, <2>1, QuietlyWorks
<1> QED BY <1>6, <1>8

(* What there is of the new version goes. *)
LEMMA PurgeWorks ==
    ASSUME TypeInv, NEW p \in Procs, Purge(p)
    PROVE  Works(p)
<1> DEFINE j == job[p]
           k == Jump(j, IF j.inst = None THEN "unlock" ELSE "restore", j.i, j.rolling, j.failed, j.backed)
           e == DropStaged(disk, j.new)
<1>1. Past(p) /\ j.at = "purge"
  BY DEF Purge, At, Past
<1>2. JobTyped(j) /\ disk \in Disk /\ j \in JobType
  BY <1>1, HolderIs
<1>3. [j EXCEPT !.at = IF j.inst = None THEN "unlock" ELSE "restore"] = k
  BY <1>2 DEF Jump, JobType
<1>4. Goes(p, k, e) /\ Quietly
  <2> HIDE DEF k
  <2> QED BY <1>3 DEF Purge, DropStaged
<1>5. Sound(j, disk, harm, k, e, harm)
  BY <1>1, <1>2, PurgeIsSound
<1> HIDE DEF k, e
<1> QED BY <1>4, <1>5, QuietlyWorks

(* Both halves of the backup come back, or go once they are not needed. *)
LEMMA RestoreStagedWorks ==
    ASSUME TypeInv, NEW p \in Procs, RestoreStaged(p)
    PROVE  Works(p)
<1> DEFINE j == job[p]
           k == Jump(j, "restoreMeta", j.i, j.rolling, j.failed, j.backed)
           e == Restore(disk, j.inst)
<1>1. Past(p) /\ j.at = "restore"
  BY DEF RestoreStaged, At, Past
<1>2. JobTyped(j) /\ disk \in Disk /\ j \in JobType
  BY <1>1, HolderIs
<1>3. [j EXCEPT !.at = "restoreMeta"] = k
  BY <1>2 DEF Jump, JobType
<1>4. Goes(p, k, e) /\ Quietly
  <2> HIDE DEF k
  <2> QED BY <1>3 DEF RestoreStaged
<1>5. Sound(j, disk, harm, k, e, harm)
  BY <1>1, <1>2, RestoreStagedIsSound
<1> HIDE DEF k, e
<1> QED BY <1>4, <1>5, QuietlyWorks

(* The caskfile comes back after the files. *)
LEMMA RestoreRecordsWorks ==
    ASSUME TypeInv, NEW p \in Procs, RestoreRecords(p)
    PROVE  Works(p)
<1> DEFINE j == job[p]
           k == Jump(j, "install", 1, Yes, j.failed, j.backed)
           e == RestoreMeta(disk, j.inst)
<1>1. Past(p) /\ j.at = "restoreMeta"
  BY DEF RestoreRecords, At, Past
<1>2. JobTyped(j) /\ disk \in Disk /\ j \in JobType
  BY <1>1, HolderIs
<1>3. [j EXCEPT !.at = "install", !.rolling = TRUE, !.i = 1] = k
  BY <1>2 DEF Jump, JobType, Yes
<1>4. Goes(p, k, e) /\ Quietly
  <2> HIDE DEF k
  <2> QED BY <1>3 DEF RestoreRecords
<1>5. Sound(j, disk, harm, k, e, harm)
  BY <1>1, <1>2, RestoreRecordsIsSound
<1> HIDE DEF k, e
<1> QED BY <1>4, <1>5, QuietlyWorks

(* The backup goes once it is not needed. *)
LEMMA FinishWorks ==
    ASSUME TypeInv, NEW p \in Procs, Finish(p)
    PROVE  Works(p)
<1> DEFINE j == job[p]
           k == Jump(j, "unlock", j.i, j.rolling, j.failed, j.backed)
           e == [disk EXCEPT !.aside[j.inst] = Gone, !.asideMeta[j.inst] = 0]
<1>1. Past(p) /\ j.at = "finish"
  BY DEF Finish, At, Past
<1>2. JobTyped(j) /\ disk \in Disk /\ j \in JobType
  BY <1>1, HolderIs
<1>3. [j EXCEPT !.at = "unlock"] = k
  BY <1>2 DEF Jump, JobType
<1>4. Goes(p, k, e) /\ Quietly
  <2> HIDE DEF k
  <2> QED BY <1>3 DEF Finish
<1>5. Sound(j, disk, harm, k, e, harm)
  BY <1>1, <1>2, FinishIsSound
<1> HIDE DEF k, e
<1> QED BY <1>4, <1>5, QuietlyWorks

(* An uninstall drops the records, then the version's files. *)
LEMMA DropRecordsWorks ==
    ASSUME TypeInv, NEW p \in Procs, DropRecords(p)
    PROVE  Works(p)
<1> DEFINE j == job[p]
           k == Jump(j, "version", j.i, j.rolling, j.failed, j.backed)
           e == [disk EXCEPT !.receipt = <<>>, !.config = None]
<1>1. Past(p) /\ j.at = "records"
  BY DEF DropRecords, At, Past
<1>2. JobTyped(j) /\ disk \in Disk /\ j \in JobType
  BY <1>1, HolderIs
<1>3. [j EXCEPT !.at = "version"] = k
  BY <1>2 DEF Jump, JobType
<1>4. Goes(p, k, e) /\ Quietly
  <2> HIDE DEF k
  <2> QED BY <1>3 DEF DropRecords
<1>5. Sound(j, disk, harm, k, e, harm)
  BY <1>1, <1>2, DropRecordsIsSound
<1> HIDE DEF k, e
<1> QED BY <1>4, <1>5, QuietlyWorks

(* The version's files go after its records. *)
LEMMA DropVersionWorks ==
    ASSUME TypeInv, NEW p \in Procs, DropVersion(p)
    PROVE  Works(p)
<1> DEFINE j == job[p]
           k == Jump(j, "unlock", j.i, j.rolling, j.failed, j.backed)
           e == IF j.cmd = "zap" \/ j.opt.force THEN Emptied(disk) ELSE DropStaged(disk, j.inst)
<1>1. Past(p) /\ j.at = "version"
  BY DEF DropVersion, At, Past
<1>2. JobTyped(j) /\ disk \in Disk /\ j \in JobType
  BY <1>1, HolderIs
<1>3. [j EXCEPT !.at = "unlock"] = k
  BY <1>2 DEF Jump, JobType
<1>4. Goes(p, k, e) /\ Quietly
  <2> HIDE DEF k
  <2> QED BY <1>3 DEF DropVersion, DropStaged
<1>5. Sound(j, disk, harm, k, e, harm)
  BY <1>1, <1>2, DropVersionIsSound
<1> HIDE DEF k, e
<1> QED BY <1>4, <1>5, QuietlyWorks

(* The sweep removes what is stale, one directory at a time. *)
LEMMA SweepNextWorks ==
    ASSUME TypeInv, NEW p \in Procs, SweepNext(p)
    PROVE  Works(p)
<1> DEFINE j == job[p]
           k == Jump(j, "unlock", j.i, j.rolling, j.failed, j.backed)
           e == [disk EXCEPT !.staged[CHOOSE v \in StaleDirs(disk, j.inst) : TRUE] = Gone]
<1>1. Past(p) /\ j.at = "sweep" /\ Quietly
  BY DEF SweepNext, At, Past
<1>2. JobTyped(j) /\ disk \in Disk /\ j \in JobType
  BY <1>1, HolderIs
<1>3. [j EXCEPT !.at = "unlock"] = k
  BY <1>2 DEF Jump, JobType
<1>4. CASE StaleDirs(disk, j.inst) = {}
  <2>1. Sound(j, disk, harm, k, disk, harm)
    BY <1>1, <1>2, <1>4, SweepIsSound
  <2> HIDE DEF k
  <2>2. Goes(p, k, disk)
    BY <1>3, <1>4 DEF SweepNext
  <2> QED BY <1>1, <2>1, <2>2, QuietlyWorks
<1>5. CASE StaleDirs(disk, j.inst) # {}
  <2>1. Sound(j, disk, harm, j, e, harm)
    BY <1>1, <1>2, <1>5, SweepIsSound
  <2>2. Goes(p, j, e)
    BY <1>5 DEF SweepNext
  <2> HIDE DEF e
  <2> QED BY <1>1, <2>1, <2>2, QuietlyWorks
<1> QED BY <1>4, <1>5

-------------------------------------------------------------------------------
(* The actions of a process that has the lock not yet, or no longer. *)

(* A process before its lock changes nothing but its own job. *)
LEMMA OutsideKeeps ==
    ASSUME CaskInv, NEW p \in Procs, job[p].at \in {"idle", "look", "lock"},
           NEW k, k = Idle \/ (JobTyped(k) /\ k.at \in {"look", "lock"}), Goes(p, k, disk), Quietly
    PROVE  CaskInv'
<1>1. /\ TypeInv /\ k.at \in {"idle", "look", "lock"} /\ k \in {Idle} \cup JobType
      /\ disk' = disk /\ holder' = holder /\ clock' = clock /\ mishaps' = mishaps /\ harm' = harm
      /\ job' = [job EXCEPT ![p] = k] /\ job \in [Procs -> {Idle} \cup JobType]
  BY DEF CaskInv, TypeInv, Goes, Quietly, Idle, JobTyped
<1>2. job'[p] = k /\ \A q \in Procs : q # p => job'[q] = job[q]
  BY <1>1
<1>3. ASSUME NEW q \in Procs
      PROVE  /\ job'[q] = Idle \/ JobTyped(job'[q])
             /\ Past(q)' <=> Past(q)
             /\ Past(q)' => job'[q] = job[q]
  <2>1. CASE q = p
    BY <1>1, <1>2, <2>1 DEF Past
  <2>2. CASE q # p
    BY <1>1, <1>2, <2>2 DEF Past, TypeInv
  <2> QED BY <2>1, <2>2
<1>4. job' \in [Procs -> {Idle} \cup JobType]
  BY <1>1
<1>5. TypeInv'
  BY <1>1, <1>3, <1>4 DEF TypeInv, Exclusive
<1> QED BY <1>1, <1>3, <1>5 DEF CaskInv

(* A command starts. *)
LEMMA StartKeeps ==
    ASSUME CaskInv, NEW p \in Procs, Start(p)
    PROVE  CaskInv'
<1>1. PICK cmd \in Commands, opt \in Options, new \in Versions :
        Goes(p, Job(IF cmd \in {"install", "reinstall"} THEN "lock" ELSE "look", cmd, opt, new), disk)
  BY DEF Start
<1> DEFINE at == IF cmd \in {"install", "reinstall"} THEN "lock" ELSE "look"
           k == Job(at, cmd, opt, new)
<1>2. JobTyped(k) /\ k.at = at /\ at \in {"lock", "look"}
  <2>1. cmd \in AllCommands /\ opt \in AllOptions
    BY CaskAssumption
  <2> QED BY <2>1, NewJobs
<1>3. Goes(p, k, disk)
  BY <1>1
<1> HIDE DEF k
<1> QED BY <1>2, <1>3, OutsideKeeps DEF Start, At

(* A job that has found an installed version may lock. *)
LEMMA FoundMayLock ==
    ASSUME NEW j, JobTyped(j), j.at = "look", NEW v \in Versions
    PROVE  JobTyped(Find(j, "lock", v)) /\ Find(j, "lock", v).at = "lock"
<1>1. j \in JobType /\ "lock" \in Places \ {"idle"} /\ v \in Versions \cup {None}
  BY DEF JobTyped, Places
<1>2. LET k == Find(j, "lock", v)
      IN  /\ k \in JobType /\ k.at = "lock" /\ k.inst = v
          /\ k.cmd = j.cmd /\ k.before = j.before /\ k.rolling = j.rolling /\ k.i = j.i /\ k.old = j.old
          /\ k.backed = j.backed
  BY <1>1, FindDoes
<1> QED BY <1>2 DEF JobTyped, PredecessorAt, Early, Installs

(* It finds an installed version, or nothing to do. *)
LEMMA LookKeeps ==
    ASSUME CaskInv, NEW p \in Procs, LookFirst(p) \/ LookForStale(p)
    PROVE  CaskInv'
<1>1. /\ job[p].at = "look" /\ Quietly
      /\ \/ Goes(p, Idle, disk)
         \/ Installed(disk) # None /\ Goes(p, Find(job[p], "lock", Installed(disk)), disk)
  <2>1. CASE LookFirst(p)
    <3>1. job[p].at = "look" /\ Quietly /\ job[p].cmd \in {"upgrade", "uninstall", "zap"}
      BY <2>1 DEF LookFirst, At
    <3>2. CASE job[p].cmd = "upgrade"
      BY <2>1, <3>1, <3>2 DEF LookFirst, Find
    <3>3. CASE job[p].cmd # "upgrade"
      BY <2>1, <3>1, <3>3 DEF LookFirst, Find
    <3> QED BY <3>1, <3>2, <3>3
  <2>2. CASE LookForStale(p)
    BY <2>2 DEF LookForStale, At, Find
  <2> QED BY <2>1, <2>2
<1>2. JobTyped(job[p])
  BY <1>1 DEF CaskInv, TypeInv, Idle
<1>3. Installed(disk) # None => Installed(disk) \in Versions
  BY InstalledIs DEF CaskInv, TypeInv
<1>4. CASE Installed(disk) # None /\ Goes(p, Find(job[p], "lock", Installed(disk)), disk)
  <2> DEFINE k == Find(job[p], "lock", Installed(disk))
  <2>1. JobTyped(k) /\ k.at = "lock"
    BY <1>1, <1>2, <1>3, <1>4, FoundMayLock
  <2>2. Goes(p, k, disk)
    BY <1>4
  <2> HIDE DEF k
  <2> QED BY <1>1, <2>1, <2>2, OutsideKeeps
<1> QED BY <1>1, <1>4, OutsideKeeps

(* It finds the lock taken. *)
LEMMA LockBusyKeeps ==
    ASSUME CaskInv, NEW p \in Procs, LockBusy(p)
    PROVE  CaskInv'
BY OutsideKeeps DEF LockBusy, At

(* What is known of the disk when the lock is taken. *)
LEMMA LockedKnows ==
    ASSUME NEW j, JobTyped(j), j.at = "lock", NEW d \in Disk, NEW h,
           j.inst = None \/ j.inst = Installed(d),
           NEW k, k = Jump(j, AfterLock(j.cmd), j.i, j.rolling, j.failed, j.backed)
    PROVE  /\ AtRest(d, h) => Knows(k, d, h)
           /\ Settled(d) /\ Fits(d, d.receipt) => Recalls(k, d)
<1>1. Comes(k) /\ Keeps(j, k) /\ k.at = AfterLock(j.cmd)
  <2>1. MayBe(j, AfterLock(j.cmd), j.i, j.rolling, j.failed, j.backed)
    BY JobPlaceIs DEF AfterLock, MayBe, JobTyped, Places, PredecessorAt, Early, Installs
  <2> QED BY <2>1, JumpTyped
<1>2. k.before = {} /\ k.cmd = j.cmd /\ k.inst = j.inst
  BY <1>1 DEF Keeps, JobTyped
<1>3. k.at \in {"decide", "fetch", "sweep", "begin"} /\ (k.at = "begin" => Removing(k))
  BY <1>1, <1>2, JobIs DEF AfterLock, AllCommands, Removing
<1>4. k.at # "decide" => Grounded(k, d)
  <2>1. k.at # "decide" => j.inst \in Versions
    BY <1>1 DEF AfterLock, JobTyped, Installs
  <2> QED BY <1>2, <2>1, NamesDiffer, InstalledIs DEF Grounded
<1>5. WasInPlace(k)
  BY <1>2 DEF WasInPlace
<1>6. AtRest(d, h) => Knows(k, d, h)
  BY <1>3, <1>4, <1>5 DEF Knows
<1>7. Settled(d) /\ Fits(d, d.receipt) => Recalls(k, d)
  BY <1>2, <1>3, <1>4 DEF Recalls
<1> QED BY <1>6, <1>7

(* It takes the lock; what it found before may be overtaken, and is then not relied on. *)
LEMMA LockKeeps ==
    ASSUME CaskInv, NEW p \in Procs, Lock(p)
    PROVE  CaskInv'
<1> DEFINE j == job[p]
           k == Jump(j, AfterLock(j.cmd), j.i, j.rolling, j.failed, j.backed)
<1>1. j.at = "lock" /\ holder = Nobody /\ holder' = p /\ TypeInv /\ Nobody \notin Procs
  BY CaskAssumption DEF CaskInv, Lock, At
<1>2. JobTyped(j) /\ j \in JobType
  BY <1>1 DEF TypeInv, Idle, JobTyped
<1>3. Comes(k)
  <2>1. MayBe(j, AfterLock(j.cmd), j.i, j.rolling, j.failed, j.backed)
    BY <1>1, <1>2, JobPlaceIs DEF AfterLock, MayBe, JobTyped, Places, PredecessorAt, Early, Installs
  <2> QED BY <1>2, <2>1, JumpTyped
<1>4. job' = [job EXCEPT ![p] = k] /\ disk' = disk /\ clock' = clock /\ mishaps' = mishaps
  <2>1. [j EXCEPT !.at = AfterLock(j.cmd)] = k
    BY <1>2 DEF Jump, JobType
  <2> HIDE DEF k
  <2> QED BY <2>1 DEF Lock, Goes
<1>5. Unharmed(harm') => Knows(k, disk, harm')
  <2>1. CASE j.inst # None /\ j.inst # Installed(disk)
    BY <2>1 DEF Lock, Unharmed
  <2>2. CASE ~(j.inst # None /\ j.inst # Installed(disk))
    <3>1. harm' = harm
      BY <2>2 DEF Lock
    <3>2. Unharmed(harm) => AtRest(disk, harm)
      BY <1>1 DEF CaskInv
    <3> QED BY <1>1, <1>2, <2>2, <3>1, <3>2, LockedKnows DEF TypeInv
  <2> QED BY <2>1, <2>2
<1>10. Bearable(harm') => Recalls(k, disk)
  <2>1. CASE j.inst # None /\ j.inst # Installed(disk)
    BY <2>1 DEF Lock, Bearable
  <2>2. CASE ~(j.inst # None /\ j.inst # Installed(disk))
    <3>1. harm' = harm
      BY <2>2 DEF Lock
    <3>2. Bearable(harm) => Settled(disk) /\ Fits(disk, disk.receipt)
      BY SMTT(60), <1>1 DEF CaskInv
    <3> QED BY SMTT(60), <1>1, <1>2, <2>2, <3>1, <3>2, LockedKnows DEF TypeInv
  <2> QED BY <2>1, <2>2
<1>6. job \in [Procs -> {Idle} \cup JobType] /\ k \in JobType /\ JobTyped(k) /\ k.at \notin {"idle", "look", "lock"}
  BY <1>1, <1>3 DEF TypeInv, Comes, JobTyped, JobType
<1> HIDE DEF k
<1>7. ASSUME NEW q \in Procs
      PROVE  /\ job'[q] = Idle \/ JobTyped(job'[q])
             /\ Past(q)' <=> q = p
             /\ q = p => job'[q] = k
  <2>1. CASE q = p
    BY <1>4, <1>6, <2>1 DEF Past
  <2>2. CASE q # p
    <3>1. job'[q] = job[q]
      BY <1>4, <1>6, <2>2
    <3>2. ~Past(q) /\ (job[q] = Idle \/ JobTyped(job[q]))
      BY <1>1 DEF TypeInv, Exclusive
    <3> QED BY <2>2, <3>1, <3>2 DEF Past
  <2> QED BY <2>1, <2>2
<1>8. job' \in [Procs -> {Idle} \cup JobType]
  BY <1>4, <1>6
<1>9. TypeInv'
  BY <1>1, <1>4, <1>7, <1>8 DEF TypeInv, Exclusive
<1> QED BY <1>1, <1>4, <1>5, <1>7, <1>9, <1>10 DEF CaskInv

(* A process that ends drops its lock. *)
LEMMA EndsTyped ==
    ASSUME TypeInv, NEW p \in Procs, Past(p), Goes(p, Idle, disk), holder' = Nobody,
           clock' = clock, mishaps' \in Nat, mishaps' <= MaxMishaps
    PROVE  TypeInv' /\ \A q \in Procs : ~Past(q)'
<1>1. /\ holder = p /\ Nobody \notin Procs /\ Idle.at = "idle" /\ disk' = disk
      /\ job' = [job EXCEPT ![p] = Idle] /\ job \in [Procs -> {Idle} \cup JobType]
  BY CaskAssumption DEF TypeInv, Exclusive, Idle, Goes
<1>2. ASSUME NEW q \in Procs PROVE (job'[q] = Idle \/ JobTyped(job'[q])) /\ ~Past(q)'
  <2>1. CASE q = p
    BY <1>1, <2>1 DEF Past
  <2>2. CASE q # p
    <3>1. job'[q] = job[q]
      BY <1>1, <2>2
    <3>2. ~Past(q) /\ (job[q] = Idle \/ JobTyped(job[q]))
      BY <1>1, <2>2 DEF TypeInv, Exclusive
    <3> QED BY <3>1, <3>2 DEF Past
  <2> QED BY <2>1, <2>2
<1>3. job' \in [Procs -> {Idle} \cup JobType]
  BY <1>1
<1> QED BY <1>1, <1>2, <1>3 DEF TypeInv, Exclusive

(* At the end of a command the cask is at rest. *)
LEMMA UnlockKeeps ==
    ASSUME CaskInv, NEW p \in Procs, Unlock(p)
    PROVE  CaskInv'
<1>1. /\ TypeInv /\ Past(p) /\ job[p].at = "unlock" /\ disk' = disk /\ harm' = harm
      /\ Goes(p, Idle, disk) /\ holder' = Nobody /\ clock' = clock
      /\ mishaps' \in Nat /\ mishaps' <= MaxMishaps
  BY DEF CaskInv, TypeInv, Unlock, At, Past, Goes
<1>2. TypeInv' /\ \A q \in Procs : ~Past(q)'
  BY <1>1, EndsTyped
<1>3. Unharmed(harm) => AtRest(disk, harm)
  BY <1>1 DEF CaskInv, Knows
<1>4. Bearable(harm) => Settled(disk) /\ Fits(disk, disk.receipt)
  BY <1>1 DEF CaskInv, Recalls, RecallsUnlock
<1> QED BY <1>1, <1>2, <1>3, <1>4 DEF CaskInv

(* After a kill nothing is claimed. *)
LEMMA KillKeeps ==
    ASSUME CaskInv, NEW p \in Procs, Kill(p)
    PROVE  CaskInv'
<1>1. /\ TypeInv /\ Past(p) /\ Goes(p, Idle, disk) /\ holder' = Nobody /\ clock' = clock
      /\ mishaps' \in Nat /\ mishaps' <= MaxMishaps /\ "killed" \in harm'
  BY CaskAssumption DEF CaskInv, TypeInv, Kill, Mishap, Past
<1>2. TypeInv'
  BY <1>1, EndsTyped
<1> QED BY <1>1, <1>2 DEF CaskInv, Unharmed, Bearable

-------------------------------------------------------------------------------
(* The initial disks: nothing is installed, or the first version. *)
LEMMA CleanIs ==
    ASSUME NEW foreign, NEW tool \in {None, "formula", "other"}
    PROVE  Clean(foreign, tool) \in Disk /\ Nothing(Clean(foreign, tool))
           /\ Fits(Clean(foreign, tool), Clean(foreign, tool).receipt)
<1> DEFINE d == Clean(foreign, tool)
<1>1. /\ d.staged = [v \in Versions |-> Gone] /\ d.aside = [v \in Versions |-> Gone]
      /\ d.meta = [v \in Versions |-> 0] /\ d.asideMeta = [v \in Versions |-> 0]
      /\ d.receipt = <<>> /\ d.config = None /\ d.tool = tool
      /\ d.app = [dir \in AppDirs |-> IF dir \in foreign THEN Foreign ELSE None]
  BY DEF Clean
<1>2. d \in Disk
  <2>1. /\ d.staged \in [Versions -> StagedDir \cup {Gone}] /\ d.aside \in [Versions -> StagedDir \cup {Gone}]
        /\ d.meta \in [Versions -> Nat] /\ d.asideMeta \in [Versions -> Nat]
        /\ d.app \in [AppDirs -> {None, Foreign} \cup Versions]
    BY <1>1
  <2> QED BY <2>1 DEF Clean, Disk
<1>3. Nothing(d)
  <2> HIDE DEF d
  <2> QED BY <1>1, NamesDiffer DEF Nothing, Alone, NoBackup, NoApp, NoTool
<1>4. Fits(d, d.receipt)
  <2> HIDE DEF d
  <2> QED BY <1>1, SpecsAre DEF Fits
<1> QED BY <1>2, <1>3, <1>4

(* The first version, installed with the directory and the tool an option chose. *)
LEMMA HoldingIs ==
    ASSUME NEW d \in Disk, Nothing(d), NEW flag \in {Unset} \cup AppDirs, NEW binaries \in BOOLEAN
    PROVE  Holding(d, flag, binaries) \in Disk /\ Something(Holding(d, flag, binaries), First, {})
           /\ Stood(Holding(d, flag, binaries), First)
           /\ Fits(Holding(d, flag, binaries), Holding(d, flag, binaries).receipt)
<1> DEFINE e == Holding(d, flag, binaries)
           dir == DirOf(flag)
           all == [app |-> dir, tool |-> TRUE]
           tool == IF binaries /\ d.tool # "formula" THEN First ELSE d.tool
<1>1. First \in Versions /\ dir \in AppDirs /\ Specs(binaries) \in SpecLists /\ Specs(binaries) # <<>>
  BY CaskAssumption, DirOfIs, SpecsAre DEF SpecLists
<1>2. e = [d EXCEPT !.staged = [d.staged EXCEPT ![First] = all], !.meta = [d.meta EXCEPT ![First] = 1],
                    !.receipt = Specs(binaries), !.config = flag, !.app = [d.app EXCEPT ![dir] = First],
                    !.tool = tool]
  BY DEF Holding, Disk
<1>3. all \in StagedDir /\ all # Gone /\ all.tool /\ all.app = dir
  <2>1. all \in StagedDir
    BY <1>1 DEF StagedDir
  <2> QED BY <2>1, StagedDirs
<1>4. /\ d.staged \in Dirs /\ d.meta \in Metas /\ d.app \in [AppDirs -> {None, Foreign} \cup Versions]
      /\ d.tool \in {None, "formula", "other"} \cup Versions
  BY DiskIs
<1> HIDE DEF all, dir
<1>5. /\ e.staged = [d.staged EXCEPT ![First] = all] /\ e.meta = [d.meta EXCEPT ![First] = 1]
      /\ e.app = [d.app EXCEPT ![dir] = First] /\ e.receipt = Specs(binaries) /\ e.config = flag
      /\ e.tool = tool /\ e.aside = d.aside /\ e.asideMeta = d.asideMeta
  BY <1>2 DEF Disk
<1>6. e \in Disk
  <2>1. [d.staged EXCEPT ![First] = all] \in [Versions -> StagedDir \cup {Gone}]
    BY <1>1, <1>3, <1>4 DEF Dirs
  <2>2. [d.meta EXCEPT ![First] = 1] \in [Versions -> Nat]
    BY <1>1, <1>4 DEF Metas
  <2>3. [d.app EXCEPT ![dir] = First] \in [AppDirs -> {None, Foreign} \cup Versions]
    BY <1>1, <1>4
  <2>4. tool \in {None, "formula", "other"} \cup Versions
    BY <1>1, <1>4
  <2> HIDE DEF e, tool
  <2>5. e = [d EXCEPT !.staged = [d.staged EXCEPT ![First] = all], !.meta = [d.meta EXCEPT ![First] = 1],
                      !.receipt = Specs(binaries), !.config = flag, !.app = [d.app EXCEPT ![dir] = First],
                      !.tool = tool]
    BY <1>2
  <2> QED BY <1>1, <2>1, <2>2, <2>3, <2>4, <2>5 DEF Disk, SpecLists
<1> HIDE DEF e
<1>7. /\ e.staged[First] = all /\ \A w \in Versions : w # First => e.staged[w] = d.staged[w]
      /\ e.meta[First] = 1 /\ \A w \in Versions : w # First => e.meta[w] = d.meta[w]
      /\ e.app[dir] = First /\ \A f \in AppDirs : f # dir => e.app[f] = d.app[f]
  BY <1>1, <1>4, <1>5 DEF Dirs, Metas
<1>8. Recorded(e, First, e.receipt)
  <2>1. Alone(e, First)
    <3>1. First # None
      BY <1>1, NamesDiffer
    <3>2. \A w \in Versions : d.staged[w] = Gone /\ d.meta[w] = 0
      BY NamesDiffer DEF Nothing, Alone
    <3> QED BY <1>7, <3>2 DEF Alone
  <2>2. NoBackup(e)
    BY <1>5 DEF Nothing, NoBackup
  <2>3. ToolOf(e, First, e.receipt)
    BY <1>5 DEF Nothing, NoTool, ToolOf, Specs
  <2> QED BY <1>1, <1>7, <2>1, <2>2, <2>3 DEF Recorded
<1>9. In(e, First, dir)
  BY <1>3, <1>7 DEF In, Has, Nothing, NoApp
<1>10. e.config # None /\ DirOf(e.config) = dir
  BY <1>5, NamesDiffer DEF dir
<1>11. Stood(e, First)
  <2>1. Stocked(e, First)
    BY <1>1, <1>3, <1>7, NamesDiffer DEF Stocked
  <2> QED BY <1>1, <1>5, <1>8, <2>1 DEF Recorded, Stands, Stood
<1>12. Fits(e, e.receipt)
  <2>1. CASE binaries
    BY <1>1, <1>5, <2>1, NamesDiffer DEF Fits
  <2>2. CASE ~binaries
    BY <1>5, <2>2, SpecsAre DEF Fits, Specs
  <2> QED BY <2>1, <2>2
<1> QED BY <1>1, <1>5, <1>6, <1>8, <1>9, <1>10, <1>11, <1>12 DEF Something, e

(* The invariant holds at first. *)
LEMMA InitIsSound == Init => CaskInv
<1> SUFFICES ASSUME Init PROVE CaskInv
  OBVIOUS
<1>1. /\ holder = Nobody /\ Nobody \notin Procs /\ clock \in Nat /\ mishaps \in Nat /\ mishaps <= MaxMishaps
      /\ job = [p \in Procs |-> Idle] /\ harm = {} /\ Idle.at = "idle"
  BY CaskAssumption DEF Init, Idle
<1>2. disk \in Disk /\ AtRest(disk, {}) /\ Settled(disk) /\ Fits(disk, disk.receipt)
  <2>1. PICK way \in {<<{}, "formula">>, <<{DefaultDir}, None>>, <<AppDirs \ {DefaultDir}, "other">>} :
          LET clean == Clean(way[1], way[2])
          IN disk \in {clean} \cup {Holding(clean, flag, binaries) :
                                     flag \in {Unset} \cup (AppDirs \ way[1]), binaries \in BOOLEAN}
    BY SMTT(60) DEF Init
  <2>2. way[2] \in {None, "formula", "other"}
    OBVIOUS
  <2> DEFINE clean == Clean(way[1], way[2])
  <2>3. clean \in Disk /\ Nothing(clean) /\ Fits(clean, clean.receipt)
    BY <2>2, CleanIs
  <2>4. disk = clean \/ \E flag \in {Unset} \cup AppDirs, binaries \in BOOLEAN : disk = Holding(clean, flag, binaries)
    BY <2>1
  <2> HIDE DEF clean
  <2>5. CASE disk = clean
    BY <2>3, <2>5 DEF AtRest, Nothing, Settled
  <2>6. CASE disk # clean
    <3>1. PICK flag \in {Unset} \cup AppDirs, binaries \in BOOLEAN : disk = Holding(clean, flag, binaries)
      BY <2>4, <2>6
    <3>2. disk \in Disk /\ Something(disk, First, {}) /\ Stood(disk, First) /\ Fits(disk, disk.receipt)
      BY <2>3, <3>1, HoldingIs
    <3> QED BY <3>2, CaskAssumption DEF AtRest, Settled
  <2> QED BY <2>5, <2>6
<1>3. TypeInv
  <2>1. job \in [Procs -> {Idle} \cup JobType] /\ \A p \in Procs : job[p] = Idle
    BY <1>1
  <2> QED BY <1>1, <1>2, <2>1 DEF TypeInv, Exclusive, Past
<1> QED BY <1>1, <1>2, <1>3 DEF CaskInv, Past

(* Every step keeps the invariant. *)
LEMMA StepKeeps == CaskInv /\ [Next]_vars => CaskInv'
<1> SUFFICES ASSUME CaskInv, [Next]_vars PROVE CaskInv'
  OBVIOUS
<1>1. CASE UNCHANGED vars
  <2>1. /\ disk' = disk /\ holder' = holder /\ job' = job /\ clock' = clock /\ mishaps' = mishaps /\ harm' = harm
    BY <1>1 DEF vars
  <2> QED BY <2>1 DEF CaskInv, TypeInv, Exclusive, Past
<1>2. ASSUME NEW p \in Procs,
             \/ Start(p) \/ LookFirst(p) \/ LookForStale(p) \/ Lock(p) \/ LockBusy(p) \/ Unlock(p) \/ Kill(p)
      PROVE  CaskInv'
  BY <1>2, StartKeeps, LookKeeps, LockKeeps, LockBusyKeeps, UnlockKeeps, KillKeeps
<1>3. ASSUME NEW p \in Procs,
             \/ Decide(p) \/ Fetch(p) \/ Begin(p) \/ ReverseNext(p) \/ Reversed(p) \/ Backup(p)
             \/ Stage(p) \/ Caskfile(p) \/ InstallNext(p) \/ AllInstalled(p) \/ UndoNext(p) \/ Records(p)
             \/ UnrecordNext(p) \/ Purge(p) \/ RestoreStaged(p) \/ RestoreRecords(p) \/ Finish(p)
             \/ DropRecords(p) \/ DropVersion(p) \/ SweepNext(p)
      PROVE  CaskInv'
  <2>1. TypeInv
    BY SMTT(60) DEF CaskInv
  <2>2. Past(p)
    BY <1>3 DEF Past, At, Decide, Fetch, Begin, ReverseNext, Reversed, Backup, Stage, Caskfile, InstallNext,
         AllInstalled, UndoNext, Records, UnrecordNext, Purge, RestoreStaged, RestoreRecords, Finish,
         DropRecords, DropVersion, SweepNext
  <2>3. Works(p)
    BY <1>3, <2>1, DecideWorks, FetchWorks, BeginWorks, ReverseNextWorks, ReversedWorks, BackupWorks,
       StageWorks, CaskfileWorks, NewInstallNextWorks, RollBackNextWorks, AllInstalledWorks, UndoNextWorks,
       RecordsWorks, UnrecordNextWorks, PurgeWorks, RestoreStagedWorks, RestoreRecordsWorks, FinishWorks,
       DropRecordsWorks, DropVersionWorks, SweepNextWorks
  <2> QED BY SMTT(60), <2>2, <2>3, WorksKeeps
<1> QED BY <1>1, <1>2, <1>3 DEF Next

(* It always holds. *)
THEOREM CaskInvHolds == Spec => []CaskInv
<1>1. Init => CaskInv
  BY InitIsSound
<1>2. CaskInv /\ [Next]_vars => CaskInv'
  BY StepKeeps
<1> QED BY <1>1, <1>2, PTL DEF Spec

-------------------------------------------------------------------------------
(* What follows. *)

(* Every variable keeps its type, and the lock's holder is the one process past it. *)
THEOREM TypeCorrect == Spec => []TypeOK
<1>1. CaskInv => TypeOK
  <2> SUFFICES ASSUME CaskInv PROVE TypeOK
    OBVIOUS
  <2>1. disk \in Disk /\ mishaps \in 0..MaxMishaps
    BY CaskAssumption DEF CaskInv, TypeInv
  <2>2. ASSUME NEW p \in Procs
        PROVE  job[p].at \in Places /\ (holder = p <=> job[p].at \notin {"idle", "look", "lock"})
    <3>1. job[p].at \in Places
      BY DEF CaskInv, TypeInv, Idle, JobTyped, JobType, Places
    <3>2. holder = p <=> job[p].at \notin {"idle", "look", "lock"}
      BY DEF CaskInv, TypeInv, Exclusive, Past
    <3> QED BY <3>1, <3>2
  <2> QED BY <2>1, <2>2 DEF TypeOK
<1> QED BY <1>1, CaskInvHolds, PTL

(* Between commands what is recorded as installed has its app, and what is not
   recorded has left nothing outside of the Caskroom. *)
THEOREM RecordsTellTheTruth == Spec => []RecordsAreTrue
<1>1. CaskInv => RecordsAreTrue
  <2> SUFFICES ASSUME CaskInv, holder = Nobody, harm = {}
               PROVE  /\ Installed(disk) # None =>
                           \/ Installed(disk) \in {disk.app[dir] : dir \in AppDirs}
                           \/ /\ disk.staged[Installed(disk)] # Gone
                              /\ disk.staged[Installed(disk)].app = Installed(disk)
                      /\ Installed(disk) = None =>
                           (\A dir \in AppDirs : disk.app[dir] \notin Versions) /\ disk.tool \notin Versions
    BY DEF RecordsAreTrue, RecordedIsThere, UnrecordedLeavesNothing
  <2>1. disk \in Disk /\ AtRest(disk, {})
    BY DEF CaskInv, TypeInv, Unharmed
  <2>2. CASE Nothing(disk)
    <3>1. Installed(disk) = None
      BY <2>1, <2>2, InstalledAlone, NamesDiffer DEF Nothing
    <3> QED BY <2>2, <3>1 DEF Nothing, NoApp, NoTool
  <2>3. ASSUME NEW v \in Versions, Something(disk, v, {})
        PROVE  Installed(disk) = v /\ \E dir \in AppDirs : disk.app[dir] = v
    <3>1. Alone(disk, v) /\ disk.meta[v] > 0 /\ In(disk, v, DirOf(disk.config))
      BY <2>3 DEF Something, Recorded
    <3>2. Installed(disk) = v
      BY <2>1, <3>1, InstalledAlone
    <3> QED BY <3>1, <3>2, DirOfIs DEF In
  <2> QED BY <2>1, <2>2, <2>3, NamesDiffer DEF AtRest
<1> QED BY <1>1, CaskInvHolds, PTL

(* The app of the predecessor is in its directory, among its staged files or in the
   backup at every place of a replacement: a kill there loses nothing. *)
LEMMA AppIsSomewhere ==
    ASSUME NEW j, JobTyped(j), NEW d \in Disk, NEW h, Knows(j, d, h), j.before # {}, WasInPlace(j),
           j.at \notin {"finish", "unlock", "records", "version", "look", "lock"}
    PROVE  \/ j.inst \in {d.app[dir] : dir \in AppDirs}
           \/ \E dir \in {d.staged[j.inst], d.aside[j.inst]} : dir # Gone /\ dir.app = j.inst
<1>1. j.inst \in Versions /\ j.inst # None /\ j.old.dir \in AppDirs
  BY JobIs, NamesDiffer DEF JobTyped
<1>2. CASE In(d, j.inst, j.old.dir)
  BY <1>1, <1>2 DEF In
<1>3. CASE TakenOut(j, d)
  BY <1>3 DEF TakenOut, Out, Unpacked, Has, Kept
<1>4. CASE Staged(j, d)
  BY <1>4 DEF Staged, Unpacked, Has, Kept
<1>5. CASE Replacing(j, d) \/ Behind(j, d)
  BY <1>1, <1>4, <1>5 DEF Replacing, Behind
<1>6. \/ In(d, j.inst, j.old.dir) \/ TakenOut(j, d) \/ Staged(j, d) \/ Replacing(j, d) \/ Behind(j, d)
  <2>1. j.at \in {"reverse", "aside", "asideMeta", "stage", "caskfile", "install", "undo", "config", "receipt", "sha",
                  "unrecord", "purge", "restore", "restoreMeta"}
    BY DEF JobTyped, JobType, Places
  <2>2. CASE j.at \in {"reverse", "aside", "asideMeta", "restoreMeta"}
    BY <2>2 DEF Knows, AtReverse, AtAside, AtAsideMeta, AtRestoreMeta
  <2>3. CASE j.at \in {"stage", "caskfile", "config", "receipt", "sha", "unrecord", "purge", "restore"}
    BY <2>3 DEF Knows, AtStage, AtCaskfile, AtConfig, AtReceipt, AtUnrecord, AtPurge, AtRestore
  <2>4. CASE j.at \in {"install", "undo"}
    BY <2>4 DEF Knows, AtRollBack, AtInstall, AtGiveUp, AtUndo
  <2> QED BY <2>1, <2>2, <2>3, <2>4
<1> QED BY <1>2, <1>3, <1>4, <1>5, <1>6

(* A replacement that fails after the predecessor was moved aside leaves it as it was,
   wherever it failed, also when a record was written half. *)
THEOREM FailedReplacementPutsBack == Spec => []FailedReplacementRestores
<1>1. CaskInv => FailedReplacementRestores
  <2> SUFFICES ASSUME CaskInv, NEW p \in Procs, job[p].at = "unlock", job[p].rolling, job[p].backed,
                      job[p].opt.binaries, WasInPlace(job[p]), Bearable(harm), job[p].before # {}
               PROVE  Restored(p)
    BY DEF FailedReplacementRestores, At, Bearable, Restored
  <2> DEFINE j == job[p]
  <2>1. Recalls(j, disk)
    BY DEF CaskInv, Past
  <2>2. Origin(j) /\ RecallsUnlock(j, disk)
    BY <2>1 DEF Recalls
  <2>3. j.before = {Was(j)} /\ InPlace(j)
    BY <2>2 DEF Origin, InPlace, WasInPlace
  <2>4. Back(j, disk)
    BY <2>2, <2>3 DEF RecallsUnlock
  <2>5. \A dir \in AppDirs : disk.app[dir] \in {Was(j).app[dir], None}
    BY <2>4, NamesDiffer DEF Back, AppsWithin
  <2> QED BY <2>3, <2>4, <2>5 DEF Restored, Back, ToolBack
<1> QED BY <1>1, CaskInvHolds, PTL

(* While a replacement is in flight a kill at any point loses nothing. *)
THEOREM PredecessorIsNeverLost == Spec => []PredecessorSomewhere
<1>1. CaskInv => PredecessorSomewhere
  <2> SUFFICES ASSUME CaskInv, NEW p \in Procs,
                      job[p].at # "idle", job[p].before # {}, WasInPlace(job[p]),
                      job[p].at \notin {"finish", "unlock", "records", "version"}, harm \subseteq {"half"}
               PROVE  \/ job[p].inst \in {disk.app[dir] : dir \in AppDirs}
                      \/ \E dir \in {disk.staged[job[p].inst], disk.aside[job[p].inst]} :
                           dir # Gone /\ dir.app = job[p].inst
    BY DEF PredecessorSomewhere, At
  <2>1. JobTyped(job[p]) /\ disk \in Disk
    BY DEF CaskInv, TypeInv, Idle
  <2>2. job[p].at \notin {"look", "lock"}
    BY <2>1 DEF JobTyped
  <2>3. Knows(job[p], disk, harm)
    BY <2>2 DEF CaskInv, Unharmed, Past
  <2> QED BY <2>1, <2>2, <2>3, AppIsSomewhere
<1> QED BY <1>1, CaskInvHolds, PTL

-------------------------------------------------------------------------------
(* An app that the user put there. *)

(* Installing and uninstalling an artifact changes the app in its own directory alone,
   and takes what is there only by --force or --adopt. *)
LEMMA InstallTakes ==
    ASSUME NEW d \in Disk, NEW kind, NEW v \in Versions, NEW dir \in AppDirs, NEW opt,
           NEW e \in InstallOne(d, kind, v, dir, opt) \cup TornInstall(d, kind, v, dir, opt)
    PROVE  AppsBut(d, e, dir) /\ (e.app = d.app \/ d.app[dir] = None \/ opt.force \/ opt.adopt)
<1>1. CASE kind = "app"
  <2>1. \/ MayMoveApp(d, v, dir, opt) /\ e = MoveApp(d, v, dir)
        \/ MayAdoptApp(d, v, dir, opt) /\ e = AdoptApp(d, v, dir)
        \/ MayMoveApp(d, v, dir, opt) /\ e = [MoveApp(d, v, dir) EXCEPT !.staged[v].app = None]
    BY <1>1, InstallOneIs DEF TornInstall
  <2>2. d.staged[v] # Gone
    BY <2>1 DEF MayMoveApp, MayAdoptApp, HasSource
  <2>3. MoveApp(d, v, dir) \in Disk /\ AppsBut(d, MoveApp(d, v, dir), dir) /\ AppsBut(d, AdoptApp(d, v, dir), dir)
    BY <2>2, MoveAppDoes, AdoptAppDoes
  <2>4. [MoveApp(d, v, dir) EXCEPT !.staged[v].app = None].app = MoveApp(d, v, dir).app
    BY <2>3 DEF Disk
  <2> QED BY <2>1, <2>3, <2>4 DEF AppsBut, MayMoveApp, MayAdoptApp
<1>2. CASE kind = "binary"
  <2>1. e = LinkTool(d, v)
    BY <1>2, InstallOneIs DEF TornInstall
  <2> QED BY <2>1, LinkToolDoes DEF AppsBut
<1>3. CASE kind \notin {"app", "binary"}
  BY <1>3, InstallOneIs DEF TornInstall, AppsBut
<1> QED BY <1>1, <1>2, <1>3

(* Uninstalling one changes the app in its own directory alone, too. *)
LEMMA UninstallTakes ==
    ASSUME NEW d \in Disk, NEW kind, NEW v \in Versions, NEW dir \in AppDirs, NEW opt, NEW skip,
           NEW e \in UninstallOne(d, kind, v, dir, opt, skip) \cup TornUninstall(d, kind, v, dir, opt)
    PROVE  AppsBut(d, e, dir) /\ (kind # "app" => e.app = d.app)
<1>1. CASE kind = "app"
  <2>1. \/ e = MoveBack(d, v, dir)
        \/ e = [MoveBack(d, v, dir) EXCEPT !.app[dir] = d.app[dir]]
    <3>1. CASE e \in UninstallOne(d, kind, v, dir, opt, skip)
      BY <1>1, <3>1, UninstallOneIs
    <3>2. CASE e \in TornUninstall(d, kind, v, dir, opt)
      BY <1>1, <3>2 DEF TornUninstall
    <3> QED BY <3>1, <3>2
  <2>2. MoveBack(d, v, dir) \in Disk /\ AppsBut(d, MoveBack(d, v, dir), dir)
    BY MoveBackDoes
  <2>3. AppsBut(d, [MoveBack(d, v, dir) EXCEPT !.app[dir] = d.app[dir]], dir)
    BY <2>2 DEF Disk, AppsBut
  <2> QED BY <1>1, <2>1, <2>2, <2>3
<1>2. CASE kind = "binary"
  <2>1. e = UnlinkTool(d, v)
    BY <1>2, UninstallOneIs DEF TornUninstall
  <2> QED BY <2>1, UnlinkToolDoes DEF AppsBut
<1>3. CASE kind \notin {"app", "binary"}
  <2>1. e = d
    <3>1. TornUninstall(d, kind, v, dir, opt) = {}
      BY <1>3 DEF TornUninstall
    <3> QED BY <1>3, <3>1, UninstallOneIs
  <2> QED BY <2>1 DEF AppsBut
<1> QED BY <1>1, <1>2, <1>3

(* What a step does to the apps of the user. *)
Spares(p) == \A dir \in AppDirs : disk.app[dir] = Foreign /\ disk'.app[dir] # Foreign =>
               job[p].opt.force \/ job[p].opt.adopt

(* A step that changes the app of one directory alone, which is not the user's. *)
LEMMA OneAppSpares ==
    ASSUME NEW p, NEW dir \in AppDirs, AppsBut(disk, disk', dir),
           \/ disk'.app = disk.app \/ disk.app[dir] # Foreign \/ job[p].opt.force \/ job[p].opt.adopt
    PROVE  Spares(p)
BY DEF AppsBut, Spares

(* A reversal knows the app in its directory for the predecessor's. *)
LEMMA ReverseSpares ==
    ASSUME TypeInv, NEW p \in Procs, ReverseNext(p), Knows(job[p], disk, harm)
    PROVE  Spares(p)
<1> DEFINE j == job[p]
<1>1. Past(p) /\ j.at = "reverse"
  BY DEF ReverseNext, At, Past
<1>2. JobTyped(j) /\ disk \in Disk /\ j.inst \in Versions /\ j.old.dir \in AppDirs
  BY SMTT(60), <1>1, HolderIs, JobIs DEF JobTyped, PredecessorAt
<1>3. disk.app[j.old.dir] # Foreign
  BY <1>1, <1>2, NamesDiffer DEF Knows, AtReverse, In, TakenOut, Out
<1>4. \/ disk' = disk
      \/ \E skip : disk' \in UninstallOne(disk, j.old.specs[j.i], j.inst, j.old.dir, ReverseOpt(j), skip)
      \/ disk' \in TornUninstall(disk, j.old.specs[j.i], j.inst, j.old.dir, ReverseOpt(j))
  BY DEF ReverseNext, Goes
<1>5. AppsBut(disk, disk', j.old.dir)
  <2>1. CASE disk' = disk
    BY <2>1 DEF AppsBut
  <2>2. CASE disk' # disk
    BY <1>2, <1>4, <2>2, UninstallTakes
  <2> QED BY <2>1, <2>2
<1> QED BY <1>2, <1>3, <1>5, OneAppSpares

(* An install needs a free directory or an option; a roll back knows its own. *)
LEMMA InstallSpares ==
    ASSUME TypeInv, NEW p \in Procs, InstallNext(p), Knows(job[p], disk, harm)
    PROVE  Spares(p)
<1> DEFINE j == job[p]
           what == Installing(j)
           kind == what.specs[j.i]
<1>1. Past(p) /\ j.at = "install"
  BY DEF InstallNext, At, Past
<1>2. JobTyped(j) /\ disk \in Disk /\ j \in JobType
  BY <1>1, HolderIs
<1>3. what.v \in Versions /\ what.dir \in AppDirs
  BY <1>2, JobIs DEF JobTyped, Installing
<1>4. \/ disk' = disk
      \/ disk' \in InstallOne(disk, kind, what.v, what.dir, what.opt)
                   \cup TornInstall(disk, kind, what.v, what.dir, what.opt)
  BY DEF InstallNext, Goes
<1>5. /\ AppsBut(disk, disk', what.dir)
      /\ disk'.app = disk.app \/ disk.app[what.dir] = None \/ what.opt.force \/ what.opt.adopt
  <2>1. CASE disk' = disk
    BY <2>1 DEF AppsBut
  <2>2. CASE disk' # disk
    <3> HIDE DEF what
    <3> QED BY <1>2, <1>3, <1>4, <2>2, InstallTakes
  <2> QED BY <2>1, <2>2
<1>6. CASE j.rolling
  <2>1. what.dir = j.old.dir /\ j.inst \in Versions
    BY <1>2, <1>6 DEF Installing, JobTyped
  <2>2. disk.app[what.dir] # Foreign
    BY <1>1, <1>6, <2>1, NamesDiffer DEF Knows, AtRollBack, In, TakenOut, Out
  <2> QED BY <1>3, <1>5, <2>2, OneAppSpares
<1>7. CASE ~j.rolling
  <2>1. what.opt = j.opt
    BY <1>7 DEF Installing
  <2>2. disk'.app = disk.app \/ disk.app[what.dir] # Foreign \/ j.opt.force \/ j.opt.adopt
    <3> HIDE DEF what
    <3> QED BY <1>5, <2>1, NamesDiffer
  <2> QED BY <1>3, <1>5, <2>2, OneAppSpares
<1> QED BY <1>6, <1>7

(* What is undone was installed by this command. *)
LEMMA UndoSpares ==
    ASSUME TypeInv, NEW p \in Procs, UndoNext(p), Knows(job[p], disk, harm)
    PROVE  Spares(p)
<1> DEFINE j == job[p]
<1>1. Past(p) /\ j.at = "undo"
  BY DEF UndoNext, At, Past
<1>2. JobTyped(j) /\ disk \in Disk /\ j \in JobType /\ j.new \in Versions /\ j.dir \in AppDirs
  BY <1>1, HolderIs, JobIs
<1>3. CASE disk' = disk
  BY <1>3 DEF Spares
<1>4. CASE disk' # disk
  <2>1. j.i # 0 /\ disk' \in UninstallOne(disk, Installing(j).specs[j.i], Installing(j).v, Installing(j).dir, Installing(j).opt, FALSE)
    BY <1>4 DEF UndoNext, Goes
  <2>2. ~j.rolling
    BY <1>1, <2>1 DEF Knows, AtGiveUp
  <2>3. \E skip : disk' \in UninstallOne(disk, j.specs[j.i], j.new, j.dir, j.opt, skip)
    BY <2>1, <2>2 DEF Installing
  <2>4. AppsBut(disk, disk', j.dir)
    BY <1>2, <2>3, UninstallTakes
  <2>5. disk.app[j.dir] # Foreign
    BY <1>1, <1>2, <2>1, <2>2, NamesDiffer DEF Knows, AtUndo, In
  <2> QED BY <1>2, <2>4, <2>5, OneAppSpares
<1> QED BY <1>3, <1>4

(* And so it was when the records could not be written. *)
LEMMA UnrecordSpares ==
    ASSUME TypeInv, NEW p \in Procs, UnrecordNext(p), Knows(job[p], disk, harm)
    PROVE  Spares(p)
<1> DEFINE j == job[p]
<1>1. Past(p) /\ j.at = "unrecord"
  BY DEF UnrecordNext, At, Past
<1>2. /\ JobTyped(j) /\ disk \in Disk /\ j \in JobType /\ j.new \in Versions /\ j.dir \in AppDirs
      /\ j.i \in Nat /\ j.i > 0 /\ j.specs \in SpecLists
  BY <1>1, HolderIs, JobIs DEF JobTyped
<1>3. CASE disk' = disk
  BY <1>3 DEF Spares
<1>4. CASE disk' # disk
  <2>1. /\ ~(j.i > Len(j.specs))
        /\ \E skip : disk' \in UninstallOne(disk, j.specs[j.i], j.new, j.dir, j.opt, skip)
    BY <1>4 DEF UnrecordNext, Goes
  <2>2. AppsBut(disk, disk', j.dir) /\ (j.specs[j.i] # "app" => disk'.app = disk.app)
    BY <1>2, <2>1, UninstallTakes
  <2>3. CASE j.i = 1
    <3>1. disk.app[j.dir] # Foreign
      BY <1>1, <1>2, <2>3, NamesDiffer DEF Knows, AtUnrecord, In
    <3> QED BY <1>2, <2>2, <3>1, OneAppSpares
  <2>4. CASE j.i # 1
    <3>1. Listed(j.specs)
      BY <1>1, <1>2 DEF Knows, AtUnrecord, Listed, SpecLists
    <3>2. j.i \in {2, 3}
      <4>1. \A n \in {2, 3} : ~(j.i > n) => j.i \in {2, 3}
        BY <1>2, <2>4
      <4> QED BY <2>1, <3>1, <4>1, SpecsAt
    <3>3. j.specs[j.i] # "app"
      <4>1. CASE j.i = 2
        BY <3>1, <4>1, SpecsAt
      <4>2. CASE j.i = 3
        <5>1. Len(j.specs) = 3
          <6>1. \A n \in {2, 3} : ~(3 > n) => n = 3
            BY SMTT(60)
          <6> QED BY <2>1, <3>1, <4>2, <6>1, SpecsAt
        <5> QED BY <3>1, <4>2, <5>1, SpecsAt
      <4> QED BY <3>2, <4>1, <4>2
    <3> QED BY <1>2, <2>2, <3>3, OneAppSpares
  <2> QED BY <2>3, <2>4
<1> QED BY <1>3, <1>4

(* All other steps leave the apps alone. *)
LEMMA AppsStay ==
    ASSUME TypeInv, NEW p \in Procs,
           \/ Start(p) \/ LookFirst(p) \/ LookForStale(p) \/ Lock(p) \/ LockBusy(p)
           \/ Decide(p) \/ Fetch(p) \/ Begin(p) \/ Reversed(p) \/ Backup(p)
           \/ Stage(p) \/ Caskfile(p) \/ AllInstalled(p) \/ Records(p)
           \/ Purge(p) \/ RestoreStaged(p) \/ RestoreRecords(p) \/ Finish(p)
           \/ DropRecords(p) \/ DropVersion(p) \/ SweepNext(p) \/ Unlock(p) \/ Kill(p)
    PROVE  disk'.app = disk.app
<1>0. disk \in Disk
  BY SMTT(60) DEF TypeInv
<1>1. CASE \/ Start(p) \/ LookFirst(p) \/ LookForStale(p) \/ Lock(p) \/ LockBusy(p)
           \/ Decide(p) \/ Fetch(p) \/ Begin(p) \/ Reversed(p) \/ AllInstalled(p) \/ Unlock(p) \/ Kill(p)
  BY <1>1 DEF Start, LookFirst, LookForStale, Lock, LockBusy, Decide, Fetch, Begin, Reversed, AllInstalled,
       Unlock, Kill, Goes
<1>2. \A d \in Disk : \A v : RestoreMeta(d, v).app = d.app /\ Restore(d, v).app = d.app /\ DropStaged(d, v).app = d.app
  BY DEF Restore, RestoreMeta, DropStaged, Disk
<1>3. CASE Backup(p)
  <2>1. Past(p) /\ job[p].at \in {"aside", "asideMeta"}
    BY <1>3 DEF Backup, At, Past
  <2>2. job[p].inst \in Versions
    BY <2>1, HolderIs DEF JobTyped, PredecessorAt
  <2>3. PICK c : /\ c \in Disk /\ c.app = disk.app
                 /\ \/ disk' = c \/ disk' = RestoreMeta(Restore(c, job[p].inst), job[p].inst)
    <3>1. disk' \in {SetAside(disk, job[p].inst), SetAsideMeta(disk, job[p].inst),
                     RestoreMeta(Restore(ClearAside(disk, job[p].inst), job[p].inst), job[p].inst),
                     RestoreMeta(Restore(ClearAsideMeta(disk, job[p].inst), job[p].inst), job[p].inst)}
      <4>1. CASE job[p].at = "aside"
        BY <1>3, <4>1 DEF Backup, At, Goes, ClearAside
      <4>2. CASE job[p].at = "asideMeta"
        BY <1>3, <4>2 DEF Backup, At, Goes, ClearAsideMeta
      <4> QED BY <2>1, <4>1, <4>2
    <3>2. /\ SetAside(disk, job[p].inst) \in Disk /\ SetAside(disk, job[p].inst).app = disk.app
          /\ SetAsideMeta(disk, job[p].inst) \in Disk /\ SetAsideMeta(disk, job[p].inst).app = disk.app
          /\ ClearAside(disk, job[p].inst) \in Disk /\ ClearAside(disk, job[p].inst).app = disk.app
          /\ ClearAsideMeta(disk, job[p].inst) \in Disk /\ ClearAsideMeta(disk, job[p].inst).app = disk.app
      BY <1>0, <2>2, SetAsideDoes, SetAsideMetaDoes, ClearDoes DEF SameOutside
    <3> QED BY <3>1, <3>2
  <2>4. Restore(c, job[p].inst) \in Disk
    BY <2>2, <2>3, RestoreDoes
  <2> QED BY <1>2, <2>3, <2>4
<1>4. CASE Stage(p)
  BY <1>0, <1>4 DEF Stage, Goes, Disk
<1>5. CASE Caskfile(p)
  BY <1>0, <1>5 DEF Caskfile, Goes, Disk
<1>6. CASE Records(p)
  <2> DEFINE configured == [disk EXCEPT !.config = job[p].opt.appdir]
             written == [disk EXCEPT !.receipt = job[p].specs]
  <2>1. disk' = disk \/ disk' = configured \/ disk' = written
    BY <1>6 DEF Records, Goes
  <2>2. Past(p) /\ job[p].at \in {"config", "receipt", "sha"}
    BY <1>6 DEF Records, At, Past
  <2>3. job[p].opt.appdir \in AppDirs \cup {Unset, None} /\ job[p].specs \in SpecLists
    BY <2>2, HolderIs DEF JobType, AllOptions
  <2>4. configured.app = disk.app
    BY <1>0, <2>3, PutRecordsDoes DEF SameFiles
  <2>5. written.app = disk.app
    BY <1>0, <2>3, PutRecordsDoes DEF SameFiles
  <2> HIDE DEF configured, written
  <2> QED BY <2>1, <2>4, <2>5
<1>7. CASE Purge(p) \/ RestoreStaged(p) \/ RestoreRecords(p)
  <2>1. \E v : disk' = DropStaged(disk, v) \/ disk' = Restore(disk, v) \/ disk' = RestoreMeta(disk, v)
    BY <1>7 DEF Purge, RestoreStaged, RestoreRecords, Goes, DropStaged
  <2> QED BY <1>0, <1>2, <2>1
<1>8. CASE Finish(p) \/ DropRecords(p)
  BY <1>0, <1>8 DEF Finish, DropRecords, Goes, Disk
<1>9. CASE DropVersion(p) \/ SweepNext(p)
  BY <1>0, <1>9 DEF DropVersion, SweepNext, Goes, Disk, Emptied
<1> QED BY SMTT(60), <1>1, <1>3, <1>4, <1>5, <1>6, <1>7, <1>8, <1>9

(* An app of the user is only taken by --force or --adopt, also by a roll back, which
   is always forced. *)
THEOREM ForeignAppIsKept == Spec => ForeignAppKept
<1> DEFINE StaysOrTaken == \A dir \in AppDirs : disk.app[dir] = Foreign /\ disk'.app[dir] # Foreign /\ harm = {} =>
                      \E p \in Procs : Holds(p) /\ (job[p].opt.force \/ job[p].opt.adopt)
<1>1. CaskInv /\ [Next]_vars => [StaysOrTaken]_vars
  <2> SUFFICES ASSUME CaskInv, Next, harm = {} PROVE StaysOrTaken
    BY SMTT(60)
  <2>1. TypeInv
    BY SMTT(60) DEF CaskInv
  <2>2. ASSUME NEW p \in Procs, ReverseNext(p) \/ InstallNext(p) \/ UndoNext(p) \/ UnrecordNext(p)
        PROVE  StaysOrTaken
    <3>1. Past(p)
      BY <2>2 DEF Past, At, ReverseNext, InstallNext, UndoNext, UnrecordNext
    <3>2. Holds(p) /\ Knows(job[p], disk, harm)
      BY <3>1 DEF CaskInv, TypeInv, Exclusive, Unharmed, Holds
    <3>3. Spares(p)
      BY <2>1, <2>2, <3>2, ReverseSpares, InstallSpares, UndoSpares, UnrecordSpares
    <3> QED BY SMTT(60), <3>2, <3>3 DEF Spares
  <2>3. ASSUME disk'.app = disk.app PROVE StaysOrTaken
    BY <2>3
  <2> HIDE DEF StaysOrTaken
  <2> QED BY <2>1, <2>2, <2>3, AppsStay DEF Next
<1> QED BY <1>1, CaskInvHolds, PTL DEF Spec, ForeignAppKept

================================================================================
