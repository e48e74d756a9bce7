------------------------------- MODULE Dependents -------------------------------
(***************************************************************************)
(* What depends on what (deps.rs, and `deps`, `uses`, `leaves`, `missing`,  *)
(* `uninstall` and `autoremove`, which ask it): the walks over the index,   *)
(* what installed kegs and casks recorded when they were poured, and what   *)
(* may be removed, while the index and the Cellar change.                   *)
(***************************************************************************)
EXTENDS Naturals, Sequences, SequencesExt, FiniteSets

CONSTANTS
    Names,     \* formulae
    Graphs,    \* what the index may say: [Names -> sequences of [name, tags, since]];
               \* core names its formulae by their names, not by aliases
    Others,    \* [Names -> the aliases and old names of each]
    Before,    \* what may be installed: [Names -> {None} or [on_request, recorded]]
    Casks,     \* the casks that are installed: sets of [recorded, declared]
    Options,   \* with which of "build", "test", "optional", "implicit", "skip_recommended"
    Host,      \* the release of macOS
    MaxSteps,  \* bound: commands and changes of the index
    None

VARIABLES
    index,     \* one of Graphs
    kegs,      \* the latest keg of each rack
    casks,     \* one of Casks
    steps,
    amiss      \* a user forced it, or the index came to say what no keg knows

vars == <<index, kegs, casks, steps, amiss>>

Tags == {"build", "test", "optional", "recommended", "implicit"}
Installed == {n \in Names : kegs[n] # None}

-------------------------------------------------------------------------------
(* direct_dependencies, direct_dependency_names *)

\* DepOptions::keeps
Keeps(tags, opts, isRoot) ==
    /\ ~("recommended" \in tags /\ "skip_recommended" \in opts)
    /\ \/ tags \cap Tags = {} \/ "recommended" \in tags
       \/ tags \cap opts \cap {"implicit", "build", "optional"} # {}
       \/ "test" \in tags \cap opts /\ isRoot
\* uses_from_macos_is_dependency: a `since` of 0 is none.
Needed(dep) == "uses_from_macos" \notin dep.tags \/ (dep.since # 0 /\ Host < dep.since)
Direct(graph, name, opts, isRoot) ==
    LET kept == SelectSeq(graph[name], LAMBDA d : Needed(d) /\ Keeps(d.tags, opts, isRoot))
    IN [i \in DOMAIN kept |-> kept[i].name]

(* visit, visit_entry, walk_references: each dependency after its own *)

\* Mutant: it is put down before its own.
VisitedBefore(dep, below) == <<dep>> \o SelectSeq(below, LAMBDA n : n # dep)
Visited(dep, below) == IF Contains(below, dep) THEN below ELSE Append(below, dep)

RECURSIVE Visit(_, _, _, _, _, _), VisitAll(_, _, _, _, _)
Visit(graph, name, opts, isRoot, order, stack) ==
    IF name \in stack THEN order
    ELSE VisitAll(graph, Direct(graph, name, opts, isRoot), opts, order, stack \cup {name})
VisitAll(graph, deps, opts, order, stack) ==
    IF deps = <<>> THEN order
    ELSE LET dep == Head(deps)
             below == Visit(graph, dep, opts, FALSE, order, stack)
         IN VisitAll(graph, Tail(deps), opts, Visited(dep, below), stack)
Recursive(graph, root, opts) == Visit(graph, root, opts, TRUE, <<>>, {})
Closure(name) == ToSet(Recursive(index, name, {}))

\* print_tree: what is shown below a name; a name above itself is shown again,
\* and no further.
RECURSIVE Tree(_, _, _, _)
Tree(graph, name, opts, seen) ==
    LET deps == ToSet(Direct(graph, name, opts, seen = {}))
    IN deps \cup UNION {Tree(graph, d, opts, seen \cup {name}) : d \in deps \ (seen \cup {name})}

-------------------------------------------------------------------------------
(* What is installed *)

\* A keg that recorded nothing is asked for in the index.
Needs(name) ==
    IF kegs[name].recorded \in {None, {}} THEN Closure(name) ELSE kegs[name].recorded
\* installed_cask_dependencies
CaskFormulae(c) == IF c.recorded \in {None, {}} THEN c.declared ELSE c.recorded
CaskNeeds == UNION {CaskFormulae(c) : c \in casks}
PossibleNames(name) == {name} \cup Others[name]
InstalledDependencyNames == UNION {Needs(n) : n \in Installed} \cup CaskNeeds
Leaves == {n \in Installed : PossibleNames(n) \cap InstalledDependencyNames = {}}
\* uses: of all formulae, or of those that are installed
Uses(name, recursive, installedOnly, opts) ==
    {c \in (IF installedOnly THEN Installed ELSE Names) \ {name} :
       name \in ToSet(IF recursive THEN Recursive(index, c, opts) ELSE Direct(index, c, opts, TRUE))}
\* What uses each of several
UsesListed(names, recursive, installedOnly, opts) ==
    {c \in Names : \A n \in names : c \in Uses(n, recursive, installedOnly, opts)}
\* runtime_dependencies_mode, collect_deps: what an installed formula recorded,
\* unless the declared graph is asked for
DepsOf(name, recursive, opts) ==
    IF name \in Installed /\ kegs[name].recorded # None /\ recursive /\ opts = {} THEN kegs[name].recorded
    ELSE ToSet(IF recursive THEN Recursive(index, name, opts) ELSE Direct(index, name, opts, TRUE))
\* `deps` of several is what they share, unless their union is asked for.
DepsListed(roots, union, recursive, opts) ==
    IF union THEN UNION {DepsOf(r, recursive, opts) : r \in roots}
    ELSE {d \in UNION {DepsOf(r, recursive, opts) : r \in roots} : \A r \in roots : d \in DepsOf(r, recursive, opts)}
\* missing: what the index says is needed
Missing(name) == Closure(name) \ Installed

\* find_installed_dependents
\* Mutant: among what was asked for.
RequiredByAsked(going) ==
    {n \in going : n \in CaskNeeds \cup UNION {Needs(other) : other \in {o \in Installed \ going : kegs[o].on_request}}}
Required(going) ==
    {n \in going : n \in CaskNeeds \cup UNION {Needs(other) : other \in Installed \ going}}

\* removable: what nobody asked for, less what something that stays needs
\* directly, until nothing more is taken off.
\* Mutant: it is taken off once.
EdgesOf(name) ==
    IF kegs[name].recorded \in {None, {}} THEN ToSet(Direct(index, name, {}, TRUE)) ELSE kegs[name].recorded
StillNeeded(set) == CaskNeeds \cup UNION {EdgesOf(n) : n \in Installed \ set}
Retained(set) == {n \in set : PossibleNames(n) \cap StillNeeded(set) = {}}
ShrunkOnce(set) == Retained(set)

RECURSIVE Shrunk(_)
Shrunk(set) == IF Retained(set) = set THEN set ELSE Shrunk(Retained(set))
Unrequested == {n \in Installed : ~kegs[n].on_request}
Removable == Shrunk(Unrequested)

-------------------------------------------------------------------------------
(* Commands *)

Counted == steps < MaxSteps /\ steps' = steps + 1 /\ UNCHANGED casks
\* Each keg knows what the index says, and has it.
InOrder == \A n \in Installed : Needs(n) = Closure(n) /\ Missing(n) = {}
Publish ==
    /\ Counted /\ index' \in Graphs \ {index} /\ UNCHANGED kegs
    /\ amiss' = (amiss \/ ~InOrder')

\* build_plan: a formula that is there and not outdated is marked, and nothing
\* is looked at that it needs; otherwise what is missing is poured before it, and
\* what is outdated poured anew.  A pour records the closure.
Poured(n, on_request) == [on_request |-> on_request, recorded |-> Closure(n)]
Mark(name) ==
    /\ name \in Installed /\ Counted
    /\ kegs' = [kegs EXCEPT ![name].on_request = TRUE]
    /\ UNCHANGED <<index, amiss>>
Pour(name, outdated, needed, asked) ==
    /\ Counted /\ UNCHANGED index
    /\ kegs' = [n \in Names |->
         CASE n = name /\ asked # {} -> Poured(n, TRUE \in asked)
           [] ~(n = name /\ asked # {}) /\ n \in needed \ Installed -> Poured(n, FALSE)
           [] ~(n = name /\ asked # {}) /\ n \in needed \cap outdated -> Poured(n, kegs[n].on_request)
           [] OTHER -> kegs[n]]
\* `--only-dependencies` pours the others, `--ignore-dependencies` the formula
\* alone; `upgrade` leaves it as it was asked for.
Install(name) ==
    \/ Mark(name)
    \/ \E outdated \in SUBSET Installed :
         \/ Pour(name, outdated, Closure(name), {}) /\ UNCHANGED amiss
         \/ /\ name \notin Installed \ outdated
            /\ \E asked \in {TRUE} \cup {kegs[n].on_request : n \in {name} \cap Installed} :
                 \/ Pour(name, outdated, Closure(name), {asked}) /\ UNCHANGED amiss
                 \/ Pour(name, outdated, {}, {asked}) /\ amiss' = (amiss \/ Missing(name) \ {name} # {})
\* uninstall_formulae, of one or several; `--ignore-dependencies`
Without(set) == kegs' = [n \in Names |-> IF n \in set THEN None ELSE kegs[n]]
Uninstall(set) ==
    /\ Counted /\ UNCHANGED index /\ Without(set)
    /\ \/ Required(set) = {} /\ UNCHANGED amiss
       \/ Required(set) # {} /\ amiss' = TRUE
\* autoremove: what is required after all is left out.
Autoremoved == Removable \ Required(Removable)
Autoremove == Autoremoved # {} /\ Counted /\ UNCHANGED <<index, amiss>> /\ Without(Autoremoved)

Init ==
    /\ index \in Graphs /\ kegs \in Before /\ casks \in Casks /\ steps = 0
    /\ amiss = ~InOrder
Next ==
    \/ Publish \/ Autoremove
    \/ \E n \in Names : Install(n)
    \/ \E set \in (SUBSET Installed) \ {{}} : Uninstall(set)
Spec == Init /\ [][Next]_vars

-------------------------------------------------------------------------------
(* Properties *)

\* What can be reached from a name: from it by what is kept of its own
\* dependencies, from there by what is kept of theirs.
Reached(name, opts) ==
    LET step(set) == set \cup UNION {ToSet(Direct(index, n, opts, FALSE)) : n \in set}
        reach[k \in 0..Cardinality(Names)] ==
            IF k = 0 THEN ToSet(Direct(index, name, opts, TRUE)) ELSE step(reach[k - 1])
    IN reach[Cardinality(Names)]
\* The walk, cut off wherever it meets itself, still comes to all that can be
\* reached, names each once and, where there is no loop, after what it needs;
\* and the tree shows the same.
WalkIsTheClosure ==
    \A root \in Names, opts \in Options :
      LET order == Recursive(index, root, opts)
          before(i) == {order[j] : j \in 1..(i - 1)}
      IN /\ ToSet(order) = Reached(root, opts) /\ Len(order) = Cardinality(ToSet(order))
         /\ \A i \in DOMAIN order :
              LET below == Reached(order[i], opts \ {"test"})
              IN order[i] \in below \/ below \subseteq before(i)
         /\ Tree(index, root, opts, {}) = Reached(root, opts)
\* Where each keg records what the index says, and no cask needs anything, the
\* leaves are what `uses --installed --recursive` finds nothing for.
LeavesAreUnused ==
    casks = {} /\ (\A n \in Installed : Needs(n) = Closure(n)) =>
      \A n \in Installed : n \notin Needs(n) => (n \in Leaves <=> UsesListed({n}, TRUE, TRUE, {}) = {})
\* `leaves` lists what `uninstall` does not refuse, and nothing else, but for
\* what something needs by another name.
LeavesCanGo ==
    \A n \in Installed :
      LET refused == Required({n}) # {}
      IN /\ n \in Leaves => ~refused
         /\ ~refused /\ n \notin Leaves => Others[n] \cap InstalledDependencyNames # {} \/ n \in Needs(n)
\* What autoremove begins with is all it could be: the greatest set of formulae
\* nobody asked for that nothing outside of it needs directly.
RemovableIsGreatest ==
    LET closed(set) == \A n \in set : PossibleNames(n) \cap StillNeeded(set) = {}
    IN Removable = UNION {set \in SUBSET Unrequested : closed(set)}
\* What `deps` lists for formulae that are installed is no leaf.
WhatDepsListsIsNoLeaf ==
    \A roots \in (SUBSET Installed) \ {{}}, union \in BOOLEAN : DepsListed(roots, union, TRUE, {}) \cap Leaves = {}
DependentsAreKnown == WalkIsTheClosure /\ LeavesAreUnused /\ LeavesCanGo /\ WhatDepsListsIsNoLeaf /\ RemovableIsGreatest
\* Whatever is installed has all that it needs, and what that needs, after any
\* installs, upgrades, uninstalls and autoremoves, unless a user left a dependency
\* out or removed one against the refusal, or the index came to ask for more than
\* was poured: what a pour adds, what an uninstall refuses and what autoremove
\* takes are reckoned in three ways, of which two go by what the kegs recorded.
InstalledMissesNothing == ~amiss => \A n \in Installed : Closure(n) \subseteq Installed

\* deps.rs: "autoremove set: installed formulae with `installed_on_request ==
\* false` that no installed formula or cask depends on, computed to a fixed point."
AutoremoveBreaksNothingStep ==
    Autoremove => \A n \in Installed : kegs'[n] # None /\ kegs[n].recorded # None =>
      \A d \in kegs[n].recorded \cap Names : kegs[d] # None => kegs'[d] # None
AutoremoveBreaksNothing == [][AutoremoveBreaksNothingStep]_vars
=================================================================================
