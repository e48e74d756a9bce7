----------------------------- MODULE InstallRun -----------------------------
(***************************************************************************)
(* A run of `install` or `reinstall` over several formulae, and of         *)
(* `uninstall`, beside other runs: the plan with the dependencies a run    *)
(* has to install, the locks of all its racks, the pours in parallel, the  *)
(* kegs finished in dependency order, and what a failure in the middle     *)
(* means for the rest (src/ops/install.rs, src/ops/plan.rs, src/deps.rs).  *)
(*                                                                         *)
(* Module Rack has the steps one keg goes through. Here the pour of a keg  *)
(* and its finishing are a step each, every formula has one version, and   *)
(* the cleanup of older versions at the end of a run is left out.          *)
(***************************************************************************)
EXTENDS Integers, SequencesExt

CONSTANTS
  Proc,       (* the processes                                               *)
  Formula,    (* the formulae: numbers, in the order their names sort        *)
  Graphs,     (* the dependency graphs, functions from Formula to its sets   *)
  Commands,   (* the commands users run                                      *)
  MaxRoots,   (* how many formulae a user names at once                      *)
  None

ASSUME FormulaeAreFinite == IsFiniteSet(Formula)
ASSUME NamesAreOrdered == Formula \subseteq Int
ASSUME GraphsAreGraphs == Graphs \subseteq [Formula -> SUBSET Formula]
ASSUME NobodyIsNone == None \notin Proc

VARIABLES
  direct,   (* [Formula -> SUBSET Formula]: `entry_dependency_names`; never changes *)
  keg,      (* [Formula -> KegState]: the rack's one version                  *)
  aside,    (* [Formula -> KegState]: `<version>.reinstall`                   *)
  holder,   (* [Formula -> Proc]: who holds the rack's lock, or None          *)
  pc,       (* where each process is                                          *)
  run       (* what each process remembers of its run                         *)

vars == <<direct, keg, aside, holder, pc, run>>

KegState == {"none", "unfinished", "installed"}

Run == [cmd : {"install", "reinstall", "uninstall"},
        roots : SUBSET Formula,      (* the formulae the user named              *)
        items : Seq(Formula),        (* `Plan::items`                            *)
        wanted : SUBSET Formula,     (* the racks to lock                        *)
        existing : SUBSET Formula,   (* the items whose rack held the keg        *)
        unpoured : SUBSET Formula,   (* the items `pour_all` has not come to     *)
        poured : SUBSET Formula,     (* `poured`: Ok, and not yet taken out      *)
        backed : SUBSET Formula,     (* those with a `Poured::backup`            *)
        left : Seq(Formula),         (* the items the last loop has not come to  *)
        failed : SUBSET Formula,     (* `failed`                                 *)
        done : SUBSET Formula]       (* the items `finish_item` returned Ok for  *)

NoRun == [cmd |-> "install", roots |-> {}, items |-> <<>>, wanted |-> {}, existing |-> {},
          unpoured |-> {}, poured |-> {}, backed |-> {}, left |-> <<>>, failed |-> {},
          done |-> {}]

(* Each variable keeps its type; only an installed keg is ever put aside. *)
TypeOK ==
  /\ direct \in Graphs
  /\ keg \in [Formula -> KegState]
  /\ aside \in [Formula -> {"none", "installed"}]
  /\ holder \in [Formula -> Proc \union {None}]
  /\ pc \in [Proc -> {"idle", "locking", "fetch", "pour", "finish", "remove", "release"}]
  /\ run \in [Proc -> Run]

-----------------------------------------------------------------------------
(* Dependencies *)

(* Everything reachable from S. *)
Closure(S) ==
  {f \in Formula : \A T \in SUBSET Formula :
     S \subseteq T /\ (\A g \in T : direct[g] \subseteq T) => f \in T}

(* `recursive_dependencies` *)
Dependencies(f) == Closure(direct[f])

(* `is_satisfied`: a directory of the wanted version is in the rack. *)
Satisfied(f) == keg[f] # "none"

(* `already_installed`: with its receipt. *)
Installed(f) == keg[f] = "installed"

(* `find_installed_dependents` *)
HasDependents(f) == \E g \in Formula \ {f} : keg[g] # "none" /\ f \in Dependencies(g)

(* What `build_plan` adds for a root: `dependency_closure`, and the root. *)
Brings(r) == {r} \union {f \in Dependencies(r) : ~Satisfied(f)}

(* `add_item` for what each of the roots `wanted` brings, in the user's order:
   the first occurrence fixes the position. What one root brings comes in
   install order, dependencies first; the order in which a formula lists its
   dependencies is left open. *)
ItemLists(roots, wanted) ==
  LET By(f) == {i \in 1..Len(roots) : roots[i] \in wanted /\ f \in Brings(roots[i])}
      Earlier(f, g) == \E i \in By(f) : \A j \in By(g) : i < j
  IN {s \in SetToSeqs(UNION {Brings(r) : r \in wanted}) :
        \A i, j \in 1..Len(s) : i < j =>
          /\ ~Earlier(s[j], s[i])
          /\ Earlier(s[i], s[j]) \/ s[j] \notin Dependencies(s[i])}

-----------------------------------------------------------------------------
(* Planning reads, and takes no lock. *)

Go(p, from, to) == pc[p] = from /\ pc' = [pc EXCEPT ![p] = to]

Remember(p, r) == run' = [run EXCEPT ![p] = r]

racks == <<keg, aside>>

Start(p, r) ==
  /\ r.cmd \in Commands
  /\ Go(p, "idle", "locking")
  /\ Remember(p, r)
  /\ UNCHANGED <<direct, racks, holder>>

Requests == {s \in SeqOf(Formula, MaxRoots) : s # <<>> /\ IsInjective(s)}

(* What a run does about its items, and about the racks it only marks. *)
RunOf(cmd, roots, items) ==
  [NoRun EXCEPT !.cmd = cmd, !.roots = roots, !.items = items, !.left = items,
                !.unpoured = ToSet(items), !.wanted = ToSet(items) \union roots,
                !.existing = {f \in ToSet(items) : keg[f] # "none"}]

(* Roots that are installed are only marked as requested. *)
PlanInstall(p) ==
  \E roots \in Requests :
    \E items \in ItemLists(roots, {r \in ToSet(roots) : ~Installed(r)}) :
      Start(p, RunOf("install", ToSet(roots), items))

PlanReinstall(p) ==
  \E roots \in Requests : \E items \in ItemLists(roots, ToSet(roots)) :
    Start(p, RunOf("reinstall", ToSet(roots), items))

(* Refused while something installed needs the keg. *)
PlanUninstall(p) ==
  \E f \in Formula :
    /\ keg[f] # "none"
    /\ ~HasDependents(f)
    /\ Start(p, [NoRun EXCEPT !.cmd = "uninstall", !.roots = {f}, !.wanted = {f}])

-----------------------------------------------------------------------------
(* `take_locks`: one after the other, in the order of the names; the first one
   that is taken ends the run, and the locks it had are dropped. *)

Held(p) == {f \in Formula : holder[f] = p}

(* As if the names were locked in the order of the plan. *)
IsNextOfAny(p, f) ==
  /\ pc[p] = "locking"
  /\ f \in run[p].wanted \ Held(p)

IsNext(p, f) ==
  /\ pc[p] = "locking"
  /\ f \in run[p].wanted \ Held(p)
  /\ \A g \in run[p].wanted \ Held(p) : f <= g

DropLocks(p) == holder' = [f \in Formula |-> IF holder[f] = p THEN None ELSE holder[f]]

(* The last lock lets the run begin; a plan without items has only receipts to
   mark. *)
AfterLocks(p) ==
  IF run[p].cmd = "uninstall" THEN "remove"
  ELSE IF run[p].items = <<>> THEN "release" ELSE "fetch"

(* As if the run began with its first lock. *)
TakeOneLock(p) ==
  \E f \in Formula :
    /\ IsNext(p, f)
    /\ holder[f] = None
    /\ holder' = [holder EXCEPT ![f] = p]
    /\ Go(p, "locking", AfterLocks(p))
    /\ UNCHANGED <<direct, racks, run>>

TakeLock(p) ==
  \E f \in Formula :
    /\ IsNext(p, f)
    /\ holder[f] = None
    /\ holder' = [holder EXCEPT ![f] = p]
    /\ Go(p, "locking", IF run[p].wanted \subseteq Held(p) \union {f} THEN AfterLocks(p)
                        ELSE "locking")
    /\ UNCHANGED <<direct, racks, run>>

(* As if contention were only reported. *)
LockBusyIgnored(p) ==
  /\ \E f \in Formula : IsNext(p, f) /\ holder[f] # None
  /\ Go(p, "locking", AfterLocks(p))
  /\ UNCHANGED <<direct, racks, holder, run>>

(* As if contention made the run start over. *)
LockRetried(p) ==
  /\ \E f \in Formula : IsNext(p, f) /\ holder[f] # None
  /\ DropLocks(p)
  /\ UNCHANGED <<direct, racks, pc, run>>

LockBusy(p) ==
  /\ \E f \in Formula : IsNext(p, f) /\ holder[f] # None
  /\ Go(p, "locking", "idle")
  /\ DropLocks(p)
  /\ Remember(p, NoRun)
  /\ UNCHANGED <<direct, racks>>

-----------------------------------------------------------------------------
(* `fetch_plan` and `pour_all` *)

(* One bottle that cannot be had, or that does not fit this prefix, ends the
   run before the Cellar is touched. *)
Fetch(p) ==
  /\ \/ Go(p, "fetch", "pour")
     \/ Go(p, "fetch", "release")
  /\ UNCHANGED <<direct, racks, holder, run>>

Replaces(p, f) ==
  \/ run[p].cmd = "reinstall" /\ f \in run[p].roots
  \/ f \in run[p].existing

(* The kegs are poured in any order, and all of them before one is finished. *)
Pouring(p, f) ==
  /\ f \in run[p].unpoured
  /\ Go(p, "pour", IF run[p].unpoured = {f} THEN "finish" ELSE "pour")
  /\ UNCHANGED <<direct, holder>>

(* `pour_one` went well: the keg that was there is kept aside. *)
Pour(p) ==
  \E f \in Formula :
    /\ Pouring(p, f)
    /\ keg[f] # "none" => Replaces(p, f)
    /\ keg' = [keg EXCEPT ![f] = "unfinished"]
    /\ aside' = [aside EXCEPT ![f] = IF keg[f] = "none" THEN @ ELSE keg[f]]
    /\ Remember(p, [run[p] EXCEPT !.unpoured = @ \ {f},
                                  !.poured = @ \union {f},
                                  !.backed = IF keg[f] = "none" THEN @ ELSE @ \union {f}])

(* It failed, and left the keg that was there. *)
PourFails(p) ==
  \E f \in Formula :
    /\ Pouring(p, f)
    /\ Remember(p, [run[p] EXCEPT !.unpoured = @ \ {f}])
    /\ UNCHANGED racks

-----------------------------------------------------------------------------
(* The last loop: every item in the order of the plan. *)

Finishing(p, f) ==
  /\ run[p].left # <<>>
  /\ f = Head(run[p].left)
  /\ Go(p, "finish", IF Tail(run[p].left) = <<>> THEN "release" ELSE "finish")
  /\ UNCHANGED <<direct, holder>>

DependsOnFailed(p, f) == direct[f] \intersect run[p].failed # {}

(* The item joins `failed`, and the loop goes on. *)
Failed(p, f) ==
  Remember(p, [run[p] EXCEPT !.left = Tail(@), !.poured = @ \ {f}, !.failed = @ \union {f}])

(* `discard_unfinished_keg` and `restore_backup` *)
PutBack(p, f) ==
  IF f \in run[p].backed
  THEN keg' = [keg EXCEPT ![f] = aside[f]] /\ aside' = [aside EXCEPT ![f] = "none"]
  ELSE keg' = [keg EXCEPT ![f] = "none"] /\ UNCHANGED aside

NotPoured(p) ==
  \E f \in Formula :
    /\ Finishing(p, f)
    /\ f \notin run[p].poured
    /\ Failed(p, f)
    /\ UNCHANGED racks

(* As if an item that was given up only lost its backup. *)
GiveUpKept(p) ==
  \E f \in Formula :
    /\ Finishing(p, f)
    /\ f \in run[p].poured
    /\ aside' = [aside EXCEPT ![f] = "none"]
    /\ Failed(p, f)
    /\ UNCHANGED keg

(* A dependency failed before it, or finishing it failed. *)
GiveUp(p) ==
  \E f \in Formula :
    /\ Finishing(p, f)
    /\ f \in run[p].poured
    /\ PutBack(p, f)
    /\ Failed(p, f)

(* As if a failed dependency did not matter. *)
FinishRegardless(p) ==
  \E f \in Formula :
    /\ Finishing(p, f)
    /\ f \in run[p].poured
    /\ keg' = [keg EXCEPT ![f] = "installed"]
    /\ aside' = [aside EXCEPT ![f] = IF f \in run[p].backed THEN "none" ELSE @]
    /\ Remember(p, [run[p] EXCEPT !.left = Tail(@), !.poured = @ \ {f},
                                  !.done = @ \union {f}])

FinishItem(p) ==
  \E f \in Formula :
    /\ Finishing(p, f)
    /\ f \in run[p].poured
    /\ ~DependsOnFailed(p, f)
    /\ keg' = [keg EXCEPT ![f] = "installed"]
    /\ aside' = [aside EXCEPT ![f] = IF f \in run[p].backed THEN "none" ELSE @]
    /\ Remember(p, [run[p] EXCEPT !.left = Tail(@), !.poured = @ \ {f},
                                  !.done = @ \union {f}])

-----------------------------------------------------------------------------
(* `remove_keg`; a keg that is gone by now is an error. *)
RemoveKeg(p) ==
  /\ Go(p, "remove", "release")
  /\ keg' = [f \in Formula |-> IF f \in run[p].roots THEN "none" ELSE keg[f]]
  /\ UNCHANGED <<direct, aside, holder, run>>

(* The locks are dropped together. *)
Release(p) ==
  /\ Go(p, "release", "idle")
  /\ DropLocks(p)
  /\ Remember(p, NoRun)
  /\ UNCHANGED <<direct, racks>>

Plan(p) == PlanInstall(p) \/ PlanReinstall(p) \/ PlanUninstall(p)

Work(p) ==
  \/ TakeLock(p) \/ LockBusy(p) \/ Fetch(p) \/ Pour(p) \/ PourFails(p)
  \/ NotPoured(p) \/ GiveUp(p) \/ FinishItem(p) \/ RemoveKeg(p) \/ Release(p)

(* Installed formulae have their dependencies. *)
Init ==
  /\ direct \in Graphs
  /\ keg \in [Formula -> {"none", "installed"}]
  /\ \A f \in Formula : keg[f] = "installed" => \A d \in direct[f] : keg[d] = "installed"
  /\ aside = [f \in Formula |-> "none"]
  /\ holder = [f \in Formula |-> None]
  /\ pc = [p \in Proc |-> "idle"]
  /\ run = [p \in Proc |-> NoRun]

Next == \E p \in Proc : Plan(p) \/ Work(p)

Spec == Init /\ [][Next]_vars

(* A process goes on with its run: every call it makes returns. *)
FairSpec == Spec /\ \A p \in Proc : WF_vars(Work(p))

-----------------------------------------------------------------------------
(* Properties *)

(* Two runs that want the same racks never refuse each other: whoever is about
   to be turned away by a rack of another's is not also what turns that other
   away. One of two colliding runs gets all its locks (`sort_unstable` in
   `take_locks`). *)
NoMutualRefusal ==
  \A p, q \in Proc : p # q =>
    ~ \E f, g \in Formula : IsNext(p, f) /\ holder[f] = q /\ IsNext(q, g) /\ holder[g] = p

(* From its pour to its finish a keg of a run is as the run left it, and so is
   the keg it put aside, although other kegs are finished in between and other
   runs come and go. *)
PouredStaysPoured ==
  \A p \in Proc : \A f \in run[p].poured :
    /\ keg[f] = "unfinished"
    /\ f \in run[p].backed => aside[f] # "none"

(* When a run ends, whatever it finished has the direct dependencies that came
   before it in the plan, whichever item failed (`depends_on_failed`). *)
FinishedHasDependencies ==
  \A p \in Proc : pc[p] = "release" =>
    \A i, j \in 1..Len(run[p].items) :
      LET f == run[p].items[j]
          d == run[p].items[i]
      IN i < j /\ f \in run[p].done /\ d \in direct[f] => keg[d] = "installed"

(* A run leaves every rack it touched finished or without the keg: what it did
   not finish is gone or is what was there before (`discard_unfinished_keg`). *)
RacksAreWhole ==
  \A f \in Formula : holder[f] = None => keg[f] # "unfinished" /\ aside[f] = "none"

(* However runs collide and fail, each one ends: nobody waits for a lock. *)
RunEnds == \A p \in Proc : pc[p] = "locking" ~> pc[p] = "idle"

(* "Checking the direct dependencies propagates transitively": nothing a run
   finished needs, over any chain, an item of that run that failed. *)
FailurePropagates ==
  \A p \in Proc : \A f \in run[p].done : Dependencies(f) \intersect run[p].failed = {}
=============================================================================
