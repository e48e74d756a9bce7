-------------------------------- MODULE CaskDeps --------------------------------
(***************************************************************************)
(* Installing casks with what they depend on (cask/install.rs): the checks *)
(* before an install, the recursion into missing dependencies, each under  *)
(* its own lock, and the search for loops along the chain of casks that    *)
(* are installing each other.  What installing one cask does is in Cask.   *)
(***************************************************************************)
EXTENDS Naturals, Sequences, SequencesExt

CONSTANTS
    Runs,      \* fastbrew processes
    Tokens,
    Casks,     \* the taps: functions from Tokens to
               \* [deps, formulae, conflicts, sha, disabled, runs_here]
    Requests,  \* what may be asked for: sequences of tokens
    Options,   \* with which of "force", "require_sha", "skip_cask_deps"
    Before,    \* what may be installed before
    None,
    MaxTrouble \* bound: downloads, formulae and installs that fail, kills, uninstalls

\* What a theorem about them needs.
Parameters ==
    /\ None \notin Runs
    /\ Casks \subseteq [Tokens -> [deps : Seq(Tokens), formulae : BOOLEAN, conflicts : SUBSET Tokens,
                                  sha : BOOLEAN, disabled : BOOLEAN, runs_here : BOOLEAN]]
    /\ Requests \subseteq Seq(Tokens)
    /\ Before \subseteq [Tokens -> {"no", "old", "new"}]

VARIABLES
    casks,     \* the definitions
    installed, \* [Tokens -> {"no", "old", "new"}]
    lock,      \* [Tokens -> Runs \cup {None}]
    run,       \* [Runs -> [todo, stack, opts, failed, started]]: the casks left, and the
               \* installs under way, each the dependency of the one before it, with
               \* the positions of the dependencies it has still to install
    removed,   \* tokens somebody has uninstalled
    trouble

vars == <<casks, installed, lock, run, removed, trouble>>

Trouble == trouble < MaxTrouble /\ trouble' = trouble + 1
Frame(t) == [token |-> t, pc |-> "prelude", todo |-> {}]
Busy(r) == run[r].stack # <<>>
Top(r) == Last(run[r].stack)
Chain(r) == {run[r].stack[i].token : i \in 1..(Len(run[r].stack) - 1)}
Deps(t) == casks[t].deps
There(t) == installed[t] # "no"
First(frame) == CHOOSE i \in frame.todo : \A j \in frame.todo : i <= j
NextOf(frame) == Deps(frame.token)[First(frame)]

At(r, pc) == Busy(r) /\ Top(r).pc = pc /\ UNCHANGED casks
SetTop(r, frame) == run' = [run EXCEPT ![r].stack = Append(Front(@), frame)]
Goto(r, pc) == SetTop(r, [Top(r) EXCEPT !.pc = pc])
\* An error leaves every install on the way up, and with it its lock; the run
\* says so and goes on with the next cask.
Unlocked(r) == [t \in Tokens |-> IF lock[t] = r THEN None ELSE lock[t]]
Raise(r) == lock' = Unlocked(r) /\ run' = [run EXCEPT ![r].stack = <<>>, ![r].failed = TRUE]
\* An install that is done gives up its own lock only.
Return(r) ==
    /\ lock' = [lock EXCEPT ![Top(r).token] = None]
    /\ run' = [run EXCEPT ![r].stack =
                 IF Len(@) = 1 THEN <<>>
                 ELSE LET up == Front(@) IN Append(Front(up), [Last(up) EXCEPT !.todo = @ \ {First(Last(up))}])]

-------------------------------------------------------------------------------
(* install_casks *)

Start(r) ==
    /\ ~run[r].started
    /\ \E todo \in Requests, opts \in Options :
         run' = [run EXCEPT ![r] = [todo |-> todo, stack |-> <<>>, opts |-> opts, failed |-> FALSE, started |-> TRUE]]
    /\ UNCHANGED <<casks, installed, lock, removed, trouble>>
\* A cask whose lock is taken ends the command, with what is left of the list.
LockNext(r) ==
    /\ ~Busy(r) /\ run[r].todo # <<>>
    /\ LET t == Head(run[r].todo) IN
       IF lock[t] = None
       THEN lock' = [lock EXCEPT ![t] = r] /\ run' = [run EXCEPT ![r].stack = <<Frame(t)>>, ![r].todo = Tail(@)]
       ELSE run' = [run EXCEPT ![r].todo = <<>>, ![r].failed = TRUE] /\ UNCHANGED lock
    /\ UNCHANGED <<casks, installed, removed, trouble>>

-------------------------------------------------------------------------------
(* install_cask_entry *)

Conflicting(t) == {c \in casks[t].conflicts : There(c)}
\* check_deprecate_disable, check_conflicts, check_requirements, verify_has_sha
Prelude(r) ==
    /\ At(r, "prelude")
    /\ LET c == casks[Top(r).token]
           refused == \/ c.disabled
                      \/ Conflicting(Top(r).token) # {}
                      \/ ~c.runs_here
                      \/ "require_sha" \in run[r].opts /\ "force" \notin run[r].opts /\ ~c.sha
       IN IF refused THEN Raise(r) ELSE Goto(r, "look") /\ UNCHANGED lock
    /\ UNCHANGED <<installed, removed, trouble>>
\* What is there and current is left alone; what is outdated is upgraded.
Look(r) ==
    /\ At(r, "look")
    /\ IF installed[Top(r).token] = "new" /\ "force" \notin run[r].opts THEN Return(r) ELSE Goto(r, "fetch") /\ UNCHANGED lock
    /\ UNCHANGED <<installed, removed, trouble>>
Fetch(r) ==
    /\ At(r, "fetch")
    /\ \/ Goto(r, "dependencies") /\ UNCHANGED <<lock, trouble>>
       \/ Trouble /\ Raise(r)
    /\ UNCHANGED <<installed, removed>>

\* check_dependency_cycle: a dependency that is the cask itself, or one whose
\* installation has led to this one.
\* Mutant: the cask itself only.
SelfReference(r, t) == t = Top(r).token
CheckDependencyCycle(r, t) == t = Top(r).token \/ t \in Chain(r)
\* The missing ones are picked here, before any of them is installed.
MissingCasks(t) == {i \in DOMAIN Deps(t) : ~There(Deps(t)[i])}
Dependencies(r) ==
    /\ At(r, "dependencies")
    /\ LET t == Top(r).token IN
       IF \E i \in DOMAIN Deps(t) : CheckDependencyCycle(r, Deps(t)[i]) THEN Raise(r)
       ELSE /\ SetTop(r, [Top(r) EXCEPT !.pc = "dependency",
                          !.todo = IF "skip_cask_deps" \in run[r].opts THEN {} ELSE MissingCasks(t)])
            /\ UNCHANGED lock
    /\ UNCHANGED <<installed, removed, trouble>>
NextDependency(r) ==
    /\ At(r, "dependency") /\ Top(r).todo # {}
    /\ LET d == NextOf(Top(r)) IN
       IF lock[d] = None
       THEN lock' = [lock EXCEPT ![d] = r] /\ run' = [run EXCEPT ![r].stack = Append(@, Frame(d))]
       ELSE Raise(r)
    /\ UNCHANGED <<installed, removed, trouble>>
\* install_formulae (InstallRun) works or fails.
\* Mutant: it does not wait for the casks.
FormulaeAtOnce(r) ==
    /\ At(r, "dependency")
    /\ \/ Goto(r, "install") /\ UNCHANGED <<lock, trouble>>
       \/ casks[Top(r).token].formulae /\ Trouble /\ Raise(r)
    /\ UNCHANGED <<installed, removed>>
Formulae(r) ==
    /\ At(r, "dependency") /\ Top(r).todo = {}
    /\ \/ Goto(r, "install") /\ UNCHANGED <<lock, trouble>>
       \/ casks[Top(r).token].formulae /\ Trouble /\ Raise(r)
    /\ UNCHANGED <<installed, removed>>
\* The cask itself is installed or replaced, or nothing of it is kept.
Install(r) ==
    /\ At(r, "install")
    /\ \/ Return(r) /\ installed' = [installed EXCEPT ![Top(r).token] = "new"] /\ UNCHANGED trouble
       \/ Trouble /\ Raise(r) /\ UNCHANGED installed
    /\ UNCHANGED removed

\* uninstall_casks, under the cask's lock; nobody asks what needs it.
Uninstall ==
    /\ Trouble
    /\ \E t \in Tokens : /\ lock[t] = None /\ There(t)
                         /\ installed' = [installed EXCEPT ![t] = "no"] /\ removed' = removed \cup {t}
    /\ UNCHANGED <<casks, lock, run>>
\* The locks of a killed process are let go by the system.
Kill(r) ==
    /\ run[r].started /\ Trouble /\ lock' = Unlocked(r)
    /\ run' = [run EXCEPT ![r].todo = <<>>, ![r].stack = <<>>]
    /\ UNCHANGED <<casks, installed, removed>>

-------------------------------------------------------------------------------
Init ==
    /\ casks \in Casks /\ installed \in Before /\ lock = [t \in Tokens |-> None]
    /\ run = [r \in Runs |-> [todo |-> <<>>, stack |-> <<>>, opts |-> {}, failed |-> FALSE, started |-> FALSE]]
    /\ removed = {} /\ trouble = 0
Step(r) ==
    \/ LockNext(r) \/ Prelude(r) \/ Look(r) \/ Fetch(r)
    \/ Dependencies(r) \/ NextDependency(r) \/ Formulae(r) \/ Install(r)
Next == Uninstall \/ \E r \in Runs : Start(r) \/ Step(r) \/ Kill(r)
Spec == Init /\ [][Next]_vars

-------------------------------------------------------------------------------
(* Properties *)

\* A run that is refused a lock is refused it by another run: a loop never
\* looks like somebody else's work.  (check_dependency_cycle)
NeverInItsOwnWay ==
    \A r \in Runs : Busy(r) /\ Top(r).pc = "dependency" /\ Top(r).todo # {} => lock[NextOf(Top(r))] # r
\* A run holds the locks of the casks it is installing and no others, each of
\* them once: the recursion ends, and whoever leaves it leaves no lock.
LocksFollowTheRecursion ==
    \A r \in Runs : LET s == run[r].stack IN
        /\ {t \in Tokens : lock[t] = r} = {s[i].token : i \in DOMAIN s}
        /\ \A i, j \in DOMAIN s : s[i].token = s[j].token => i = j
\* A cask is not installed before what it depends on, whatever becomes of the
\* dependencies and of theirs, unless that was asked for or somebody takes one away.
DependenciesComeFirstStep ==
    \A r \in Runs : Busy(r) /\ Install(r) =>
      "skip_cask_deps" \in run[r].opts
      \/ \A i \in DOMAIN Deps(Top(r).token) : There(Deps(Top(r).token)[i]) \/ Deps(Top(r).token)[i] \in removed
DependenciesComeFirst == [][DependenciesComeFirstStep]_vars

\* install.rs: "A loop is an error whether or not the cask it runs through
\* happens to be installed already".
OnALoop(t) == \E d \in ToSet(Deps(t)) : d = t \/ t \in ToSet(Deps(d))
LoopIsAnError ==
    [][\A t \in Tokens : installed[t] = "no" /\ installed'[t] = "new" => ~OnALoop(t)]_vars
====
