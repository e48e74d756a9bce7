-------------------------------- MODULE Rack --------------------------------
(***************************************************************************)
(* One rack of the Cellar, `$CELLAR/<name>`, with the records that point   *)
(* into it (`opt/<name>`, `var/homebrew/linked/<name>`, `.../pinned/<name>`*)
(* and the links in the prefix), and the fastbrew processes that work on   *)
(* it: install, reinstall, upgrade, uninstall, cleanup, link, unlink, pin. *)
(*                                                                         *)
(* Every command reads the rack first, without a lock, then takes the      *)
(* rack's lock without waiting (RackLock), then acts on what it read.      *)
(* Between two steps of one process any other process may run, and a       *)
(* process may be killed. A step is one call that changes the file system. *)
(***************************************************************************)
EXTENDS Naturals, FiniteSets, FiniteSetsExt

CONSTANTS
  Proc,          (* the processes                                            *)
  Version,       (* the versions a rack can hold                             *)
  Current,       (* the version the index offers                             *)
  Commands,      (* the commands users run                                   *)
  ShipsReceipt,  (* whether the bottle contains an INSTALL_RECEIPT.json      *)
  MaxDeaths,     (* how many processes may be killed while they hold a lock  *)
  None

(* Versions are ordered, and a rack, being finite, has a newest keg. *)
ASSUME VersionsAreOrdered ==
  /\ Version \subseteq Nat
  /\ \A S \in SUBSET Version : S # {} => \E v \in S : \A w \in S : v >= w
ASSUME CurrentIsAVersion == Current \in Version
ASSUME NoneIsNothing == None \notin Proc /\ None \notin Version
ASSUME ShipsReceiptIsBool == ShipsReceipt \in BOOLEAN
ASSUME DeathsAreCounted == MaxDeaths \in Nat

VARIABLES
  kegs,      (* [Version -> KegState]: `<rack>/<version>`                       *)
  backups,   (* [Version -> KegState]: `<rack>/<version>.reinstall`             *)
  staging,   (* the processes whose `.fastbrew-<uuid>` directory is in the rack *)
  opt,       (* the version `opt/<name>` points at, perhaps gone, or None       *)
  linked,    (* the version of `var/homebrew/linked/<name>`, or None            *)
  links,     (* the versions that have links in the prefix                      *)
  pin,       (* the version of `var/homebrew/pinned/<name>`, or None            *)
  kegOnly,   (* whether the formula is keg-only: never changes                  *)
  holder,    (* the process that holds the rack's lock, or None                 *)
  pc,        (* where each process is                                           *)
  job,       (* what each process remembers of its command                      *)
  deaths     (* processes killed with the lock held so far                      *)

rack == <<kegs, backups, staging>>
records == <<opt, linked, links>>
vars == <<rack, records, pin, kegOnly, holder, pc, job, deaths>>

(* A keg is unfinished from its pour until its receipt is written; a bottle
   may ship a receipt of its own. *)
KegState == {"none", "unfinished", "shipped", "installed"}

Installs == {"install", "reinstall", "upgrade"}
Command == Installs \union {"mark", "uninstall", "force", "cleanup", "link_keg",
                             "unlink_keg", "pin"}

Job == [cmd : Command,
        target : Version,            (* the keg being worked on                      *)
        existing : SUBSET Version,   (* `Item::existing`                             *)
        wasLinked : BOOLEAN,         (* `Item::was_linked`                           *)
        relink : BOOLEAN,            (* `Poured::was_linked`                         *)
        backup : BOOLEAN,            (* `Poured::backup` is Some                     *)
        ok : BOOLEAN,                (* nothing failed so far                        *)
        sweeps : 0..2,               (* `cleanup_formula` calls still to make        *)
        seen : BOOLEAN,              (* `Sweeper::seen` is not empty                 *)
        todo : SUBSET Version,       (* kegs to remove or to unlink                  *)
        junkKegs : SUBSET Version,   (* leftovers to remove: backups                 *)
        junkStaging : SUBSET Proc]   (* leftovers to remove: staging directories     *)

FirstJob == [cmd |-> "pin", target |-> Current, existing |-> {}, wasLinked |-> FALSE,
             relink |-> FALSE, backup |-> FALSE, ok |-> TRUE, sweeps |-> 0,
             seen |-> FALSE, todo |-> {}, junkKegs |-> {}, junkStaging |-> {}]

(* Where a process is when it does not hold the lock, and when it does. *)
FreePC == {"idle", "lock", "sweep", "sweep_lock", "pin", "migrate", "dead"}
PouringPC == {"fetch", "displace", "stage", "unpack", "move_aside", "promote"}
FinishingPC == {"relocate", "poured", "unlink_others", "link", "receipt"}
UndoingPC == {"discard", "discard_rm", "discard_records", "restore"}
OtherPC == {"restore_opt", "restore_link", "mark", "remove", "remove_rm", "remove_records",
            "remove_pin", "junk", "link_keg", "unlink_keg", "drop_backup", "release"}
LockedPC == PouringPC \union FinishingPC \union UndoingPC \union OtherPC

(* Each variable keeps its type: no process remembers, and no record names, what
   is not a version. *)
TypeOK ==
  /\ kegs \in [Version -> KegState]
  /\ backups \in [Version -> KegState]
  /\ staging \subseteq Proc
  /\ opt \in Version \union {None}
  /\ linked \in Version \union {None}
  /\ links \subseteq Version
  /\ pin \in Version \union {None}
  /\ kegOnly \in BOOLEAN
  /\ holder \in Proc \union {None}
  /\ pc \in [Proc -> FreePC \union LockedPC]
  /\ job \in [Proc -> Job]
  /\ deaths \in 0..MaxDeaths

-----------------------------------------------------------------------------
(* Reading the rack *)

(* `installed_kegs`: every directory that is no backup and no staging. *)
Present == {v \in Version : kegs[v] # "none"}

HasReceipt(v) == kegs[v] \in {"shipped", "installed"}

(* `canonicalize`: what a record points at if it is there. *)
Resolve(r) == IF r \in Present THEN r ELSE None

(* `is_linked`, `is_optlinked`: two canonical paths are equal, or neither
   exists. *)
At(r, v) == Resolve(r) = Resolve(v)

LinkedKeg == IF Resolve(linked) # None THEN Resolve(linked) ELSE Resolve(opt)

(* As if only the records counted: a rack without records has no keg. *)
DefaultKegOfRecords == IF Resolve(opt) # None THEN opt ELSE linked

DefaultKeg ==
  IF Resolve(opt) # None THEN opt
  ELSE IF Resolve(linked) # None THEN linked
  ELSE Max(Present)

(* `outdated_kegs_against` with equal version schemes: no keg is both current
   and in use. *)
Outdated ==
  /\ Present # {}
  /\ ~\E v \in Present : v >= Current /\ (At(opt, v) \/ At(linked, v) \/ pin # None)

(* `already_installed` answers NotInstalled or Outdated. *)
NeedsInstall ==
  \/ \A v \in Present : ~HasReceipt(v)
  \/ IF kegOnly /\ opt # None
     THEN Outdated /\ pin = None
     ELSE /\ ~HasReceipt(Current)
          /\ (Outdated /\ pin = None) \/ linked = None

(* `eligible_kegs_for_cleanup` with equal version schemes. *)
EligibleForCleanup ==
  IF Current \notin Present THEN {}
  ELSE {v \in Present : v < Current /\ ~At(linked, v) /\ Resolve(pin) # v}

-----------------------------------------------------------------------------
(* Changing the records *)

Go(p, l) == pc' = [pc EXCEPT ![p] = l]

Remember(p, j) == job' = [job EXCEPT ![p] = j]

Lock == INSTANCE RackLock

(* `unlink`: the links that lead into this keg, and the linked record if it
   is this keg's. `opt/<name>` stays. *)
Unlink(v) ==
  /\ links' = IF v \in Present THEN links \ {v} ELSE links
  /\ linked' = IF At(linked, v) THEN None ELSE linked

(* `link_with_aliases`: refused by another keg's record; done; undone after a
   conflict in the prefix; with every link made and only the linked record not;
   or failed at the very first record. *)
LinkRefused(v) == Resolve(linked) \notin {None, Resolve(v)}

LinkKeg(v, ok) ==
  \/ ~ok /\ UNCHANGED records
  \/ /\ ~LinkRefused(v)
     /\ opt' = v
     /\ \/ ok /\ links' = links \union {v} /\ linked' = v
        \/ ~ok /\ Unlink(v)
        \/ /\ ~ok /\ Resolve(linked) = None
           /\ links' = links \union {v} /\ linked' \in {linked, None}

(* As if `unlink` had already taken care of every record. *)
RemoveRecordsButOpt(v) ==
  /\ linked' = IF At(linked, v) THEN None ELSE linked
  /\ UNCHANGED <<opt, links>>

(* `remove_records` of a keg that is gone. *)
RemoveRecordsOf(v) ==
  /\ opt' = IF At(opt, v) THEN None ELSE opt
  /\ linked' = IF At(linked, v) THEN None ELSE linked
  /\ UNCHANGED links

-----------------------------------------------------------------------------
(* Reading the rack before the lock: what a command decides here may be out of
   date by the time it holds the lock. *)

fixed == <<pin, kegOnly, holder, deaths>>

Goto(p, from, to) == pc[p] = from /\ Go(p, to)

Start(p, cmd, l, j) ==
  /\ cmd \in Commands
  /\ Goto(p, "idle", l)
  /\ Remember(p, j)
  /\ UNCHANGED <<rack, records, fixed>>

(* `make_item` *)
Item(cmd) == [FirstJob EXCEPT !.cmd = cmd, !.existing = Present,
                              !.wasLinked = Resolve(linked) # None]

(* `install`: an installed formula is only marked as requested. *)
PlanInstall(p) ==
  Start(p, "install", "lock", Item(IF NeedsInstall THEN "install" ELSE "mark"))

PlanReinstall(p) == Start(p, "reinstall", "lock", Item("reinstall"))

PlanUpgrade(p) ==
  /\ Outdated
  /\ pin = None
  /\ Start(p, "upgrade", "lock", Item("upgrade"))

PlanCleanup(p) ==
  Start(p, "cleanup", "sweep", [FirstJob EXCEPT !.cmd = "cleanup", !.sweeps = 1])

(* The linked keg, else the only one. *)
PlanUninstall(p) ==
  /\ pin = None
  /\ \E v \in Present :
       /\ v = LinkedKeg \/ (LinkedKeg = None /\ Present = {v})
       /\ Start(p, "uninstall", "lock",
                [FirstJob EXCEPT !.cmd = "uninstall", !.todo = {v}])

(* As if `--force` needed no lock. *)
PlanForceUnlocked(p) ==
  /\ Present # {}
  /\ Start(p, "force", "remove", [FirstJob EXCEPT !.cmd = "force", !.todo = Present])

PlanForceUninstall(p) ==
  /\ Present # {}
  /\ Start(p, "force", "lock", [FirstJob EXCEPT !.cmd = "force", !.todo = Present])

(* As if `link` and `unlink` needed no lock. *)
PlanLinkUnlocked(p) ==
  /\ Present # {}
  /\ Start(p, "link_keg", "link_keg", [FirstJob EXCEPT !.cmd = "link_keg", !.target = Max(Present)])

PlanUnlinkUnlocked(p) ==
  /\ Present # {}
  /\ Start(p, "unlink_keg", "unlink_keg",
           [FirstJob EXCEPT !.cmd = "unlink_keg", !.target = DefaultKeg])

PlanLink(p) ==
  /\ Present # {}
  /\ Start(p, "link_keg", "lock", [FirstJob EXCEPT !.cmd = "link_keg", !.target = Max(Present)])

PlanUnlink(p) ==
  /\ Present # {}
  /\ Start(p, "unlink_keg", "lock",
           [FirstJob EXCEPT !.cmd = "unlink_keg", !.target = DefaultKeg])

Plan(p) ==
  \/ PlanInstall(p) \/ PlanReinstall(p) \/ PlanUpgrade(p) \/ PlanCleanup(p)
  \/ PlanUninstall(p) \/ PlanForceUninstall(p) \/ PlanLink(p) \/ PlanUnlink(p)

-----------------------------------------------------------------------------
(* The pin, which no command locks *)

PinRead(p) ==
  /\ pin = None
  /\ Present # {}
  /\ Start(p, "pin", "pin", [FirstJob EXCEPT !.target = Max(Present)])

(* Fails when a record appeared in the meantime. *)
PinWrite(p) ==
  /\ Goto(p, "pin", "idle")
  /\ pin' = IF pin = None THEN job[p].target ELSE pin
  /\ Remember(p, FirstJob)
  /\ UNCHANGED <<rack, records, kegOnly, holder, deaths>>

Unpin(p) ==
  /\ "pin" \in Commands
  /\ pc[p] = "idle"
  /\ pin # None
  /\ pin' = None
  /\ UNCHANGED <<rack, records, kegOnly, holder, pc, job, deaths>>

(* `migrate_pin`, after an upgrade: a pin whose keg is gone moves to the newest. *)
MigratePin(p) ==
  /\ Goto(p, "migrate", "idle")
  /\ pin' = CASE pin = None \/ Resolve(pin) # None -> pin
              [] Present = {} -> None
              [] OTHER -> Max(Present)
  /\ Remember(p, FirstJob)
  /\ UNCHANGED <<rack, records, kegOnly, holder, deaths>>

-----------------------------------------------------------------------------
(* The lock, and the end of a command *)

(* Nothing is left to do after the lock, but an upgrade that worked looks at
   the pin. *)
Finish(p) ==
  IF job[p].cmd = "upgrade" /\ job[p].ok
  THEN Go(p, "migrate") /\ UNCHANGED job
  ELSE Go(p, "idle") /\ Remember(p, FirstJob)

AfterLock(p) ==
  IF job[p].cmd \in Installs THEN "fetch"
  ELSE IF job[p].cmd \in {"uninstall", "force"} THEN "remove"
  ELSE job[p].cmd

LockOk(p) ==
  /\ \/ Goto(p, "lock", AfterLock(p))
     \/ Goto(p, "sweep_lock", "remove")
  /\ Lock!Acquire(p)
  /\ UNCHANGED <<rack, records, pin, kegOnly, job, deaths>>

(* As if a sweep went on after the warning. *)
LockBusyIgnored(p) ==
  /\ holder # None
  /\ \/ Goto(p, "lock", "idle") /\ Remember(p, FirstJob)
     \/ Goto(p, "sweep_lock", "remove") /\ UNCHANGED job
  /\ UNCHANGED <<rack, records, fixed>>

(* `OperationInProgressError`: a command fails, a sweep is skipped. *)
LockBusy(p) ==
  /\ holder # None
  /\ \/ Goto(p, "lock", "idle") /\ Remember(p, FirstJob)
     \/ pc[p] = "sweep_lock" /\ Finish(p)
  /\ UNCHANGED <<rack, records, fixed>>

(* Letting go of the lock: an install that poured goes on with the cleanup. *)
Release(p) ==
  /\ pc[p] = "release"
  /\ Lock!Release(p)
  /\ IF job[p].cmd \in Installs /\ job[p].sweeps > 0 THEN Go(p, "sweep") /\ UNCHANGED job
     ELSE Finish(p)
  /\ UNCHANGED <<rack, records, pin, kegOnly, deaths>>

(* `mark_installed_on_request` changes one flag of a receipt. *)
MarkOnRequest(p) ==
  /\ Goto(p, "mark", "release")
  /\ UNCHANGED <<rack, records, fixed, job>>

(* `continue` in `pour_all` and after it: this keg failed, the run goes on. *)
Fail(p) == Remember(p, [job[p] EXCEPT !.ok = FALSE])

-----------------------------------------------------------------------------
(* Fetching and pouring *)

(* Once the bottles are there the run ends with a cleanup, whatever happens. *)
Fetch(p) ==
  /\ \/ Goto(p, "fetch", "displace") /\ Remember(p, [job[p] EXCEPT !.sweeps = 2])
     \/ Goto(p, "fetch", "release") /\ Fail(p)
  /\ UNCHANGED <<rack, records, fixed>>

(* The keg to be replaced is unlinked before the pour. *)
Displace(p) ==
  /\ Goto(p, "displace", "stage")
  /\ IF Current \in job[p].existing
     THEN /\ Remember(p, [job[p] EXCEPT !.relink = At(linked, Current)])
          /\ Unlink(Current)
          /\ UNCHANGED opt
     ELSE UNCHANGED <<records, job>>
  /\ UNCHANGED <<rack, fixed>>

Replaces(p) == job[p].cmd = "reinstall" \/ Current \in job[p].existing

(* A keg that was not there when the run was planned is not replaced. *)
Stage(p) ==
  /\ IF Current \in Present /\ ~Replaces(p)
     THEN Goto(p, "stage", "release") /\ Fail(p) /\ UNCHANGED staging
     ELSE Goto(p, "stage", "unpack") /\ staging' = staging \union {p} /\ UNCHANGED job
  /\ UNCHANGED <<kegs, backups, records, fixed>>

(* `unpack` and `check_promotable`; a failure drops the staging directory. *)
Unpack(p) ==
  /\ \/ /\ Goto(p, "unpack", IF Current \in Present THEN "move_aside" ELSE "promote")
        /\ UNCHANGED <<staging, job>>
     \/ /\ Goto(p, "unpack", "release")
        /\ Fail(p)
        /\ staging' = staging \ {p}
  /\ UNCHANGED <<kegs, backups, records, fixed>>

(* A stale backup goes first; then the keg takes its place. *)
DropStaleBackup(p) ==
  /\ pc[p] = "move_aside"
  /\ backups[Current] # "none"
  /\ backups' = [backups EXCEPT ![Current] = "none"]
  /\ UNCHANGED <<kegs, staging, records, fixed, pc, job>>

MoveAside(p) ==
  /\ backups[Current] = "none"
  /\ \/ /\ Goto(p, "move_aside", "promote")
        /\ backups' = [backups EXCEPT ![Current] = kegs[Current]]
        /\ kegs' = [kegs EXCEPT ![Current] = "none"]
        /\ Remember(p, [job[p] EXCEPT !.backup = TRUE])
        /\ UNCHANGED staging
     \/ /\ Goto(p, "move_aside", "release")
        /\ Fail(p)
        /\ staging' = staging \ {p}
        /\ UNCHANGED <<kegs, backups>>
  /\ UNCHANGED <<records, fixed>>

(* The backup, if there is one, comes back. *)
PutBack(p) ==
  IF job[p].backup /\ backups[Current] # "none"
  THEN /\ kegs' = [kegs EXCEPT ![Current] = backups[Current]]
       /\ backups' = [backups EXCEPT ![Current] = "none"]
  ELSE UNCHANGED <<kegs, backups>>

(* The rename into the rack, and the end of the staging directory. *)
Promote(p) ==
  /\ \/ /\ Goto(p, "promote", "relocate")
        /\ kegs' = [kegs EXCEPT ![Current] = IF ShipsReceipt THEN "shipped" ELSE "unfinished"]
        /\ UNCHANGED <<backups, job>>
     \/ Goto(p, "promote", "release") /\ PutBack(p) /\ Fail(p)
  /\ staging' = staging \ {p}
  /\ UNCHANGED <<records, fixed>>

(* As if the keg were only removed, like any other failed pour. *)
RelocateUnrestored(p) ==
  /\ \/ Goto(p, "relocate", "poured") /\ UNCHANGED <<kegs, job>>
     \/ /\ Goto(p, "relocate", "release")
        /\ kegs' = [kegs EXCEPT ![Current] = "none"]
        /\ Fail(p)
  /\ UNCHANGED <<backups, staging, records, fixed>>

(* A keg that cannot be relocated is removed. *)
Relocate(p) ==
  /\ \/ Goto(p, "relocate", "poured") /\ UNCHANGED <<kegs, job>>
     \/ /\ Goto(p, "relocate", "restore")
        /\ kegs' = [kegs EXCEPT ![Current] = "none"]
        /\ Fail(p)
  /\ UNCHANGED <<backups, staging, records, fixed>>

-----------------------------------------------------------------------------
(* Finishing the keg *)

(* A dependency that failed, or `opt/<name>` that cannot be written. *)
GiveUp(p) ==
  /\ \/ Goto(p, "poured", "discard")
     \/ Goto(p, "receipt", "discard")
  /\ Fail(p)
  /\ UNCHANGED <<rack, records, fixed>>

OptLink(p) ==
  /\ Goto(p, "poured", "unlink_others")
  /\ opt' = Current
  /\ Remember(p, [job[p] EXCEPT !.todo = job[p].existing \ {Current}])
  /\ UNCHANGED <<rack, linked, links, fixed>>

UnlinkOther(p) ==
  /\ pc[p] = "unlink_others"
  /\ \E v \in job[p].todo :
       /\ Unlink(v)
       /\ Remember(p, [job[p] EXCEPT !.todo = @ \ {v}])
  /\ UNCHANGED <<rack, opt, fixed, pc>>

(* `should_link`: the first keg of a versioned keg-only formula may be linked. *)
ShouldLink(p) ==
  /\ job[p].todo = {}
  /\ \/ /\ ~kegOnly \/ job[p].wasLinked \/ job[p].existing = {}
        /\ Goto(p, "unlink_others", "link")
     \/ /\ kegOnly /\ ~job[p].wasLinked
        /\ Goto(p, "unlink_others", "receipt")
  /\ UNCHANGED <<rack, records, fixed, job>>

(* A record that leads elsewhere would block the link. *)
DropStaleRecord(p) ==
  /\ pc[p] = "link"
  /\ linked # None /\ ~At(linked, Current)
  /\ linked' = None
  /\ UNCHANGED <<rack, opt, links, fixed, pc, job>>

(* As if a conflict were not remembered. *)
LinkForgiven(p) ==
  /\ Goto(p, "link", "receipt")
  /\ linked = None \/ At(linked, Current)
  /\ \E ok \in BOOLEAN : LinkKeg(Current, ok)
  /\ UNCHANGED <<rack, fixed, job>>

(* A keg that cannot be linked stays installed; the run fails at its end. *)
Link(p) ==
  /\ Goto(p, "link", "receipt")
  /\ linked = None \/ At(linked, Current)
  /\ \/ LinkKeg(Current, TRUE) /\ UNCHANGED job
     \/ LinkKeg(Current, FALSE) /\ Fail(p)
  /\ UNCHANGED <<rack, fixed>>

(* The receipt is the last thing written; `install_etc_var` before it, or the
   write itself, may fail (GiveUp). *)
WriteReceipt(p) ==
  /\ Goto(p, "receipt", "drop_backup")
  /\ kegs' = [kegs EXCEPT ![Current] = "installed"]
  /\ UNCHANGED <<backups, staging, records, fixed, job>>

DropBackup(p) ==
  /\ Goto(p, "drop_backup", "release")
  /\ backups' = [backups EXCEPT ![Current] = IF job[p].backup THEN "none" ELSE @]
  /\ UNCHANGED <<kegs, staging, records, fixed, job>>

-----------------------------------------------------------------------------
(* Undoing a keg that was poured and not finished *)

(* `discard_unfinished_keg`: only a keg without a receipt is unfinished. *)
Discard(p) ==
  /\ IF Current \in Present /\ ~HasReceipt(Current)
     THEN Goto(p, "discard", "discard_rm") /\ Unlink(Current)
     ELSE Goto(p, "discard", "restore") /\ UNCHANGED <<linked, links>>
  /\ UNCHANGED <<rack, opt, fixed, job>>

DiscardKeg(p) ==
  /\ Goto(p, "discard_rm", "discard_records")
  /\ kegs' = [kegs EXCEPT ![Current] = "none"]
  /\ UNCHANGED <<backups, staging, records, fixed, job>>

(* As if `unlink` had removed every record. *)
DiscardRecordsNot(p) ==
  /\ Goto(p, "discard_records", "restore")
  /\ UNCHANGED <<rack, records, fixed, job>>

DiscardRecords(p) ==
  /\ Goto(p, "discard_records", "restore")
  /\ RemoveRecordsOf(Current)
  /\ UNCHANGED <<rack, fixed, job>>

(* `restore_backup`: `Backup::restore` clears the place first. *)
ClearPlace(p) ==
  /\ pc[p] = "restore"
  /\ job[p].backup /\ backups[Current] # "none"
  /\ Current \in Present
  /\ kegs' = [kegs EXCEPT ![Current] = "none"]
  /\ UNCHANGED <<backups, staging, records, fixed, pc, job>>

Restore(p) ==
  /\ IF job[p].backup
     THEN /\ Goto(p, "restore", "restore_opt")
          /\ backups[Current] = "none" \/ Current \notin Present
     ELSE Goto(p, "restore", "release")
  /\ PutBack(p)
  /\ UNCHANGED <<staging, records, fixed, job>>

RestoreOptLink(p) ==
  /\ Goto(p, "restore_opt", IF job[p].relink THEN "restore_link" ELSE "release")
  /\ opt' = Current
  /\ UNCHANGED <<rack, linked, links, fixed, job>>

RestoreLink(p) ==
  /\ Goto(p, "restore_link", "release")
  /\ \E ok \in BOOLEAN : LinkKeg(Current, ok)
  /\ UNCHANGED <<rack, fixed, job>>

-----------------------------------------------------------------------------
(* Removing kegs: `uninstall` and `cleanup_formula` *)

Uninstalls(p) == job[p].cmd \in {"uninstall", "force"}

(* As if leftovers could be removed without the lock. *)
SweepUnlocked(p) ==
  LET junkKegs == {v \in Version : backups[v] # "none"} IN
  /\ pc[p] = "sweep"
  /\ Go(p, "junk")
  /\ Remember(p, [job[p] EXCEPT !.junkKegs = junkKegs, !.junkStaging = staging])
  /\ UNCHANGED <<rack, records, fixed>>

(* What there is to sweep is listed before the lock is taken. *)
SweepList(p) ==
  LET junkKegs == {v \in Version : backups[v] # "none"} IN
  /\ pc[p] = "sweep"
  /\ IF EligibleForCleanup = {} /\ junkKegs = {} /\ staging = {}
     THEN Finish(p)
     ELSE /\ Go(p, "sweep_lock")
          /\ Remember(p, [job[p] EXCEPT !.todo = EligibleForCleanup,
                                        !.junkKegs = junkKegs,
                                        !.junkStaging = staging,
                                        !.seen = FALSE])
  /\ UNCHANGED <<rack, records, fixed>>

(* `Sweeper::remove` skips what is gone; `remove_keg` does not look. *)
RemoveUnlink(p) ==
  /\ Goto(p, "remove", "remove_rm")
  /\ \E v \in job[p].todo :
       /\ Uninstalls(p) \/ v \in Present
       /\ Unlink(v)
       /\ Remember(p, [job[p] EXCEPT !.target = v, !.todo = @ \ {v}, !.seen = TRUE])
  /\ UNCHANGED <<rack, opt, fixed>>

SkipGone(p) ==
  /\ pc[p] = "remove"
  /\ ~Uninstalls(p)
  /\ \E v \in job[p].todo \ Present : Remember(p, [job[p] EXCEPT !.todo = @ \ {v}])
  /\ UNCHANGED <<rack, records, fixed, pc>>

(* As if a keg that cannot be removed were tried again. *)
RemoveDirRetried(p) ==
  /\ pc[p] = "remove_rm"
  /\ IF job[p].target \in Present
     THEN Go(p, "remove_records") /\ kegs' = [kegs EXCEPT ![job[p].target] = "none"]
     ELSE UNCHANGED <<pc, kegs>>
  /\ UNCHANGED <<backups, staging, records, fixed, job>>

(* A keg that is gone cannot be removed: `uninstall` stops there. *)
RemoveDir(p) ==
  /\ IF job[p].target \in Present
     THEN /\ Goto(p, "remove_rm", "remove_records")
          /\ kegs' = [kegs EXCEPT ![job[p].target] = "none"]
     ELSE Goto(p, "remove_rm", "release") /\ UNCHANGED kegs
  /\ UNCHANGED <<backups, staging, records, fixed, job>>

RemoveRecords(p) ==
  /\ Goto(p, "remove_records", "remove")
  /\ RemoveRecordsOf(job[p].target)
  /\ UNCHANGED <<rack, fixed, job>>

NoMoreKegs(p) ==
  /\ job[p].todo = {}
  /\ Goto(p, "remove", IF Uninstalls(p) THEN "remove_pin" ELSE "junk")
  /\ UNCHANGED <<rack, records, fixed, job>>

(* An uninstalled rack is not pinned any more. *)
RemovePin(p) ==
  /\ Goto(p, "remove_pin", "release")
  /\ pin' = None
  /\ UNCHANGED <<rack, records, kegOnly, holder, deaths, job>>

(* The leftovers of the list, and a second sweep when the first one of an
   install found something. *)
SweepJunk(p) ==
  LET junkKegs == {v \in job[p].junkKegs : backups[v] # "none"}
      seen == job[p].seen \/ junkKegs # {} \/ job[p].junkStaging \intersect staging # {}
  IN
  /\ Goto(p, "junk", "release")
  /\ backups' = [v \in Version |-> IF v \in junkKegs THEN "none" ELSE backups[v]]
  /\ staging' = staging \ job[p].junkStaging
  /\ Remember(p, [job[p] EXCEPT !.sweeps = IF @ = 2 /\ seen THEN 1 ELSE 0])
  /\ UNCHANGED <<kegs, records, fixed>>

-----------------------------------------------------------------------------
(* `link` and `unlink` *)

(* Nothing happens to a keg that is linked, or keg-only and not forced. *)
LinkCommand(p) ==
  /\ Goto(p, "link_keg", "release")
  /\ \/ /\ At(linked, job[p].target) \/ kegOnly
        /\ UNCHANGED records
     \/ /\ ~At(linked, job[p].target)
        /\ \E ok \in BOOLEAN : LinkKeg(job[p].target, ok)
  /\ UNCHANGED <<rack, fixed, job>>

UnlinkCommand(p) ==
  /\ Goto(p, "unlink_keg", "release")
  /\ Unlink(job[p].target)
  /\ UNCHANGED <<rack, opt, fixed, job>>

-----------------------------------------------------------------------------
(* A killed process: the kernel drops its lock, its directories stay. *)
Die(p) ==
  /\ deaths < MaxDeaths
  /\ Lock!Release(p)
  /\ Go(p, "dead")
  /\ deaths' = deaths + 1
  /\ Remember(p, FirstJob)
  /\ UNCHANGED <<rack, records, pin, kegOnly>>

Pour(p) ==
  \/ Fetch(p) \/ Displace(p) \/ Stage(p) \/ Unpack(p) \/ DropStaleBackup(p)
  \/ MoveAside(p) \/ Promote(p) \/ Relocate(p)

FinishKeg(p) ==
  \/ GiveUp(p) \/ OptLink(p) \/ UnlinkOther(p) \/ ShouldLink(p) \/ DropStaleRecord(p)
  \/ Link(p) \/ WriteReceipt(p) \/ DropBackup(p)

Undo(p) ==
  \/ Discard(p) \/ DiscardKeg(p) \/ DiscardRecords(p) \/ ClearPlace(p)
  \/ Restore(p) \/ RestoreOptLink(p) \/ RestoreLink(p)

Remove(p) ==
  \/ SweepList(p) \/ RemoveUnlink(p) \/ SkipGone(p) \/ RemoveDir(p) \/ RemoveRecords(p)
  \/ NoMoreKegs(p) \/ RemovePin(p) \/ SweepJunk(p)

(* What a process does once its command has started. *)
Work(p) ==
  \/ PinWrite(p) \/ MigratePin(p) \/ LockOk(p) \/ LockBusy(p) \/ Release(p)
  \/ MarkOnRequest(p) \/ Pour(p) \/ FinishKeg(p) \/ Undo(p) \/ Remove(p)
  \/ LinkCommand(p) \/ UnlinkCommand(p)

(* A rack nobody has interrupted yet: every keg finished, the records in
   place. *)
Whole ==
  /\ kegs \in [Version -> {"none", "installed"}]
  /\ backups = [v \in Version |-> "none"]
  /\ opt \in IF Present = {} THEN {None} ELSE Present
  /\ linked \in {None, opt}
  /\ links = {linked} \ {None}
  /\ deaths = 0

(* A rack where, perhaps when the index was older, a reinstall that had moved
   aside a keg linked since its plan was made was killed. *)
Interrupted ==
  \E v \in Version :
    /\ kegs \in [Version -> {"none", "installed"}]
    /\ kegs[v] = "none"
    /\ backups = [w \in Version |-> IF w = v THEN "installed" ELSE "none"]
    /\ opt = v
    /\ linked = v
    /\ links = {v}
    /\ deaths = 1
    /\ MaxDeaths > 0

Init ==
  /\ Whole \/ Interrupted
  /\ staging = {}
  /\ pin = None
  /\ kegOnly \in BOOLEAN
  /\ holder = None
  /\ pc = [p \in Proc |-> "idle"]
  /\ job = [p \in Proc |-> FirstJob]

Next == \E p \in Proc : Plan(p) \/ PinRead(p) \/ Unpin(p) \/ Work(p) \/ Die(p)

Spec == Init /\ [][Next]_vars

(* A process that was not killed goes on: every call it makes returns. *)
FairSpec == Spec /\ \A p \in Proc : WF_vars(Work(p))

-----------------------------------------------------------------------------
(* Properties *)

(* Nobody touches a keg between its pour and its receipt but the process that
   poured it, and the keg it displaced stays where `Backup::restore` looks for
   it until the receipt is there (`pour_one`, `finish_item`). *)
InFlightIntact ==
  \A p \in Proc :
    /\ pc[p] \in FinishingPC => kegs[Current] \in {"unfinished", "shipped"}
    /\ pc[p] \in FinishingPC \union UndoingPC /\ job[p].backup
         => backups[Current] # "none"

(* When `finish_item` returns, the records it wrote many steps earlier still
   lead to the keg whose receipt it has just written. *)
FinishedIsInstalled ==
  \A p \in Proc : pc[p] = "drop_backup" =>
    /\ kegs[Current] = "installed"
    /\ opt = Current
    /\ job[p].ok /\ ~kegOnly => linked = Current /\ Current \in links

(* As long as no process was killed, a rack that nobody holds has only
   finished kegs, no leftovers, and no record or link that leads nowhere,
   however the commands before failed or overlapped
   (`discard_unfinished_keg`, `restore_backup`, `remove_records`). *)
CleanWhenIdle ==
  holder = None /\ deaths = 0 =>
    /\ \A v \in Version : kegs[v] \in {"none", "installed"} /\ backups[v] = "none"
    /\ staging = {}
    /\ opt \in Present \union {None}
    /\ linked \in Present \union {None}
    /\ links \subseteq Present

(* A run that moved a keg aside ends with an installed keg in its place,
   whether it succeeded or failed at any step (`Backup`: "kept until the
   install finishes"). *)
ReplacedKegSurvives ==
  \A p \in Proc :
    deaths = 0 /\ pc[p] = "release" /\ job[p].backup /\ job[p].sweeps = 2
      => kegs[Current] = "installed"

(* Whatever changes the rack or its records is a step of the process that
   holds the rack's lock, whatever the commands read before they took it
   (`lock_formula`'s callers). *)
RackChangesUnderLock ==
  [][<<rack, records>>' # <<rack, records>>
       => \E p \in Proc : holder = p /\ \A q \in Proc \ {p} : pc'[q] = pc[q] /\ job'[q] = job[q]]_vars

(* What commands that act on stale plans may not do to a rack: disturb a keg
   between its pour and its receipt, take a finished one's records away, or
   leave records that lead nowhere. *)
CommandsKeepRack == InFlightIntact /\ FinishedIsInstalled /\ CleanWhenIdle

(* The lock does not stay with a command: on every path, through every failure,
   its process lets go of it or is killed. *)
LockIsReleased == \A p \in Proc : holder = p ~> holder # p

(* `already_installed`: a keg without a receipt is an install that never
   finished, and a retry does the work. *)
RetryFinishesInstall ==
  [][\A p \in Proc : holder = None /\ kegs[Current] = "unfinished" /\ pc[p] = "idle"
       => job'[p].cmd # "mark"]_vars

(* `pour_all` reads whether the displaced keg was linked "so a restore can put
   the prefix back the way it found it": a reinstall that failed before it
   moved the keg aside leaves the keg linked. *)
FailedPourKeepsLink ==
  \A p \in Proc :
    pc[p] = "release" /\ job[p].sweeps = 2 /\ ~job[p].ok /\ job[p].relink /\ ~job[p].backup
      => At(linked, Current)

(* A sweep removes "every keg older than the newest one": what remains of the
   rack is an installation. *)
SweepLeavesInstallation ==
  [][\A p \in Proc : pc[p] = "remove_rm" /\ pc'[p] = "remove_records" /\ ~Uninstalls(p)
       => \E v \in Version : HasReceipt(v)']_vars
=============================================================================
