----------------------------- MODULE CaskDirectives -----------------------------
(***************************************************************************)
(* The `uninstall` and `zap` stanzas of a cask (cask/artifacts.rs): what    *)
(* is dispatched in which order, what one failing directive ends, and what  *)
(* each directive does to files, packages, applications and the Trash       *)
(* while the user goes on working.                                          *)
(***************************************************************************)
EXTENDS Naturals, Sequences, SequencesExt, FiniteSets

CONSTANTS
    Paths,     \* sequences of names, with every prefix of each
    LinkTo,    \* where the links among them point
    DsStore,   \* the name of Finder's own files
    Before,    \* what may be there before: [Paths -> {"none", "file", "dir", "link"}]
    Files,     \* [packages -> the paths their receipts list]
    Matches,   \* [package patterns -> sets of packages]
    Plist,     \* [launchd services -> paths of their plists]
    Apps,      \* applications, by bundle id
    Things,    \* login items and kernel extensions
    Stanzas,   \* what a receipt may hold: sequences of [kind, does]
    MaxSuffix, \* bound: the Trash tries a name with 0..MaxSuffix (1000 in the code)
    Deadline,  \* bound: how often an application is told to quit (10 s in the code)
    MaxTrouble,\* bound: what fails by itself or is done by somebody else
    None

Packages == DOMAIN Files
Services == DOMAIN Plist
\* A directive holds paths as [paths, refused]: a path or a pattern, refused if
\* it is relative or has `.` or `..` in it.

VARIABLES
    fs, trash, \* files; what lies in the Trash under each name and suffix
    registered,\* packages, services, login items and kernel extensions
    running,   \* applications that run
    run,       \* [specs, opts, gui, todo, items, files, slot, ticks, failed, turns]
    trouble

world == <<fs, trash, registered, running>>
vars == <<world, run, trouble>>

Trouble == trouble < MaxTrouble /\ trouble' = trouble + 1
Slots == {Last(p) : p \in Paths} \X (0..MaxSuffix)
Kids(f, p) == {q \in Paths : f[q] # "none" /\ Len(q) = Len(p) + 1 /\ IsPrefix(p, q)}
Without(f, p) == [q \in Paths |-> IF IsPrefix(p, q) THEN "none" ELSE f[q]]

-------------------------------------------------------------------------------
(* ordered_directives, dispatch_uninstall *)

\* Mutant: directories are removed before what they hold.
OrderedRmdirFirst == <<"early_script", "launchctl", "quit", "signal", "login_item", "kext", "script",
                       "rmdir", "pkgutil", "delete", "trash">>
Ordered == <<"early_script", "launchctl", "quit", "signal", "login_item", "kext", "script",
             "pkgutil", "delete", "trash", "rmdir">>
Directives(stanza, wanted) == SelectSeq(Ordered, LAMBDA d : d \in DOMAIN stanza.does /\ d \in wanted)
Tagged(i, names) == [k \in DOMAIN names |-> <<i, names[k]>>]
OfKind(specs, kind, list(_)) ==
    FlattenSeq([i \in DOMAIN specs |-> IF specs[i].kind = kind THEN Tagged(i, list(specs[i])) ELSE <<>>])
\* uninstall_specs: the uninstall stanzas one by one, `rmdir` last in each; then
\* what is to be zapped.
UninstallOne(s) == Directives(s, ToSet(Ordered) \ {"rmdir"}) \o Directives(s, {"rmdir"})
Zap(s) == Directives(s, ToSet(Ordered))
Dispatched(specs, zap) ==
    OfKind(specs, "uninstall", UninstallOne) \o IF zap THEN OfKind(specs, "zap", Zap) ELSE <<>>
Idle == [specs |-> <<>>, opts |-> {}, gui |-> FALSE, todo |-> <<>>, items |-> <<>>, files |-> <<>>,
         slot |-> None, ticks |-> None, begun |-> FALSE, failed |-> FALSE, turns |-> {}]
Start ==
    /\ run.specs = <<>>
    /\ \E specs \in Stanzas, opts \in SUBSET {"force", "dry", "zap"}, gui \in BOOLEAN :
         run' = [Idle EXCEPT !.specs = specs, !.opts = opts, !.gui = gui,
                             !.todo = Dispatched(specs, "zap" \in opts)]
    /\ UNCHANGED <<world, trouble>>

Dry == "dry" \in run.opts
Now == Head(run.todo)
Value == run.specs[Now[1]].does[Now[2]]
\* The error of one directive ends its stanza; the others have their turn.
\* Mutant: it ends the command.
FailAtOnce == run' = [run EXCEPT !.todo = <<>>, !.items = <<>>, !.files = <<>>, !.begun = FALSE, !.failed = TRUE]
Fail ==
    run' = [run EXCEPT !.todo = SelectSeq(@, LAMBDA e : e[1] # Now[1]), !.items = <<>>, !.files = <<>>,
                       !.begun = FALSE, !.failed = TRUE]

\* resolve_directive_paths: all of a directive's paths, before the first goes.
\* Mutant: whatever it points to.
ResolvedAnyway(f, specs) ==
    FlattenSeq([i \in DOMAIN specs |-> SetToSeq({p \in specs[i].paths : f[p] # "none"})])
Resolved(f, specs) ==
    FlattenSeq([i \in DOMAIN specs |-> SetToSeq({p \in specs[i].paths : ~specs[i].refused /\ f[p] # "none"})])
Begin ==
    /\ run.todo # <<>> /\ ~run.begun
    /\ run' = [run EXCEPT !.begun = TRUE, !.turns = @ \cup {Now[1]},
                          !.items = IF Now[2] \in {"delete", "trash", "rmdir"} THEN Resolved(fs, Value) ELSE Value]
    /\ UNCHANGED <<world, trouble>>
Finish ==
    /\ run.begun /\ run.items = <<>>
    /\ run' = [run EXCEPT !.begun = FALSE, !.todo = Tail(@)]
    /\ UNCHANGED <<world, trouble>>

Doing(names) == run.begun /\ run.items # <<>> /\ run.files = <<>> /\ run.slot = None /\ run.ticks = None /\ Now[2] \in names
Item == Head(run.items)
\* automation_allowed, gui_session
AutomationAllowed == run.gui
Passed == run' = [run EXCEPT !.items = Tail(@)]

-------------------------------------------------------------------------------
(* run_directive *)

\* run_uninstall_script
Script ==
    /\ Doing({"early_script", "script"})
    /\ \/ fs[Item] = "none" /\ (IF "force" \in run.opts THEN Passed ELSE Fail) /\ UNCHANGED trouble
       \/ fs[Item] # "none" /\ Passed /\ UNCHANGED trouble
       \/ fs[Item] # "none" /\ ~Dry /\ Trouble /\ Fail
    /\ UNCHANGED world
\* What the tools answer is not looked at.
Launchctl ==
    /\ Doing({"launchctl"}) /\ Passed
    /\ IF Dry THEN UNCHANGED <<world, trouble>>
       ELSE /\ fs' = [p \in Paths |-> IF p \in Plist[Item] THEN "none" ELSE fs[p]]
            /\ \/ registered' = registered \ {Item} /\ UNCHANGED trouble
               \/ Trouble /\ UNCHANGED registered
            /\ UNCHANGED <<trash, running>>
LetGo ==
    /\ Doing({"login_item", "kext"}) /\ Passed
    /\ IF Dry \/ (Now[2] = "login_item" /\ ~AutomationAllowed) THEN UNCHANGED <<registered, trouble>>
       ELSE \/ registered' = registered \ {Item} /\ UNCHANGED trouble
            \/ Trouble /\ UNCHANGED registered
    /\ UNCHANGED <<fs, trash, running>>
\* running_pids, send_signal
Processes(bundle) == {bundle} \cap running
Signal ==
    /\ Doing({"signal"}) /\ Passed
    /\ \/ running' = (IF Dry \/ ~AutomationAllowed THEN running ELSE running \ Processes(Item)) /\ UNCHANGED trouble
       \/ Trouble /\ UNCHANGED running
    /\ UNCHANGED <<fs, trash, registered>>

\* quit_application
Quit ==
    /\ Doing({"quit"})
    /\ IF Dry \/ ~AutomationAllowed \/ Item \notin running THEN Passed ELSE run' = [run EXCEPT !.ticks = Deadline]
    /\ UNCHANGED <<world, trouble>>
\* To be told to quit starts an application that does not run.
Tell ==
    /\ run.ticks # None
    /\ LET gaveUp == [run EXCEPT !.ticks = None, !.items = Tail(@)]
           again == IF run.ticks = 0 THEN gaveUp ELSE [run EXCEPT !.ticks = @ - 1]
       IN \/ running' = running \ {Item} /\ run' = gaveUp /\ UNCHANGED trouble
          \/ running' = running \cup {Item} /\ run' = again /\ Trouble
          \/ running' = running /\ run' = again /\ Trouble
    /\ UNCHANGED <<fs, trash, registered>>

\* pkgutil_packages: what matches when its turn comes
Pattern ==
    /\ Doing({"pkgutil"}) /\ Item \in DOMAIN Matches
    /\ run' = [run EXCEPT !.items = SetToSeq(Matches[Item] \cap registered) \o Tail(@)]
    /\ UNCHANGED <<world, trouble>>
\* forget_package: the files of the receipt, the deepest first, then the receipt
\* Mutant: in the receipt's own order.
InOrderOfReceipt(paths) == SetToSortSeq(paths, LAMBDA p, q : Len(p) < Len(q))
InOrder(paths) == SetToSortSeq(paths, LAMBDA p, q : Len(p) > Len(q))
Package ==
    /\ Doing({"pkgutil"}) /\ Item \in Packages
    /\ run' = IF Dry THEN [run EXCEPT !.items = Tail(@)]
              ELSE [run EXCEPT !.files = Append(InOrder(Files[Item]), "forget")]
    /\ UNCHANGED <<world, trouble>>
\* `rm -d` takes an empty directory only; what it cannot take is passed over.
\* Mutant: `rm -r`.
RemovableTree(p) == TRUE
Removable(p) == fs[p] # "dir" \/ Kids(fs, p) = {}
PackageFile ==
    /\ Len(run.files) > 1
    /\ LET p == Head(run.files) IN
       \/ fs' = (IF Removable(p) THEN Without(fs, p) ELSE fs) /\ UNCHANGED trouble
       \/ Trouble /\ UNCHANGED fs
    /\ run' = [run EXCEPT !.files = Tail(@)]
    /\ UNCHANGED <<trash, registered, running>>
Forget ==
    /\ Len(run.files) = 1
    /\ \/ /\ Item \in registered /\ registered' = registered \ {Item}
          /\ run' = [run EXCEPT !.files = <<>>, !.items = Tail(@)] /\ UNCHANGED trouble
       \/ Fail /\ UNCHANGED registered /\ IF Item \in registered THEN Trouble ELSE UNCHANGED trouble
    /\ UNCHANGED <<fs, trash, running>>

\* remove_path: a link goes, and not what it points to.
Delete ==
    /\ Doing({"delete"}) /\ Passed
    /\ \/ fs' = (IF Dry THEN fs ELSE Without(fs, Item)) /\ UNCHANGED trouble
       \/ ~Dry /\ Trouble /\ UNCHANGED fs
    /\ UNCHANGED <<trash, registered, running>>

\* trash_paths: a free name, or the last that is tried
\* Mutant: the name itself.
FreeSlotAsIs(p) == <<Last(p), 0>>
FreeSlot(p) ==
    LET free == {k \in 0..MaxSuffix : trash[<<Last(p), k>>] = None \/ k = MaxSuffix}
    IN <<Last(p), CHOOSE k \in free : \A j \in free : k <= j>>
Trash ==
    /\ Doing({"trash"})
    /\ \/ run' = (IF Dry THEN [run EXCEPT !.items = Tail(@)] ELSE [run EXCEPT !.slot = FreeSlot(Item)]) /\ UNCHANGED trouble
       \/ ~Dry /\ Trouble /\ Passed
    /\ UNCHANGED world
\* move_path: what has come to lie there goes; a path that went before with a
\* directory above it cannot be moved.
MoveToTrash ==
    /\ run.slot # None
    /\ \/ /\ trash' = [trash EXCEPT ![run.slot] = IF fs[Item] = "none" THEN None ELSE Item]
          /\ fs' = Without(fs, Item) /\ UNCHANGED trouble
       \/ Trouble /\ UNCHANGED <<fs, trash>>
    /\ run' = [run EXCEPT !.slot = None, !.items = Tail(@)]
    /\ UNCHANGED <<registered, running>>

\* recursive_rmdir, the set of <<files, removed>> it may come to: what a
\* directory holds is read in any order.
\* Mutant: it follows links.
HereFollowed(f, p) == IF p \in DOMAIN LinkTo /\ f[p] = "link" THEN LinkTo[p] ELSE p
Here(f, p) == p

RECURSIVE RecursiveRmdir(_, _), RmdirAll(_, _)
RecursiveRmdir(f, path) ==
    LET p == Here(f, path)
        kids == Kids(f, p)
        dirs == {q \in kids : f[q] = "dir"}
        stores == {q \in kids \ dirs : Last(q) = DsStore}
        Emptied(r) == IF r[2] /\ Kids(r[1], p) = {} THEN <<Without(r[1], p), TRUE>> ELSE <<r[1], FALSE>>
    IN IF f[p] # "dir" \/ \E q \in kids \ stores : f[Here(f, q)] # "dir" THEN {<<f, FALSE>>}
       ELSE {Emptied(r) : r \in RmdirAll(f, kids)}
RmdirAll(f, paths) ==
    IF paths = {} THEN {<<f, TRUE>>}
    ELSE UNION {IF Last(q) = DsStore
                THEN RmdirAll(IF f[q] = "dir" THEN f ELSE Without(f, q), paths \ {q})
                ELSE UNION {IF r[2] THEN RmdirAll(r[1], paths \ {q}) ELSE {r} : r \in RecursiveRmdir(f, q)} : q \in paths}
Rmdir ==
    /\ Doing({"rmdir"}) /\ Passed
    /\ \/ \E r \in IF Dry THEN {<<fs, TRUE>>} ELSE RecursiveRmdir(fs, Item) : fs' = r[1] /\ UNCHANGED trouble
       \/ ~Dry /\ Trouble /\ UNCHANGED fs
    /\ UNCHANGED <<trash, registered, running>>

-------------------------------------------------------------------------------
(* Somebody else *)

Saves ==
    /\ \E p \in Paths : /\ fs[p] = "none" /\ (Len(p) > 1 => fs[Front(p)] = "dir")
                        /\ fs' = [fs EXCEPT ![p] = "file"]
    /\ UNCHANGED <<trash, registered, running>>
ThrowsAway == (\E s \in Slots : trash[s] = None /\ trash' = [trash EXCEPT ![s] = IF run.slot = s THEN "late" ELSE "users"]) /\ UNCHANGED <<fs, registered, running>>
StartsOrQuits == (\E a \in Apps : running' = (running \ {a}) \cup ({a} \ running)) /\ UNCHANGED <<fs, trash, registered>>
User == Trouble /\ UNCHANGED run /\ (Saves \/ ThrowsAway \/ StartsOrQuits)

Init ==
    /\ fs \in Before /\ trash \in [Slots -> {None}] /\ running = Apps
    /\ registered = Packages \cup Services \cup Things
    /\ run = Idle /\ trouble = 0
Next ==
    \/ Start \/ Begin \/ Finish \/ Script \/ Launchctl \/ LetGo \/ Signal \/ Quit \/ Tell
    \/ Pattern \/ Package \/ PackageFile \/ Forget \/ Delete \/ Trash \/ MoveToTrash \/ Rmdir \/ User
Spec == Init /\ [][Next]_vars

-------------------------------------------------------------------------------
(* Properties *)

Ended == run.specs # <<>> /\ run.todo = <<>>
Mine(i) == run.specs[i].kind = "uninstall" \/ "zap" \in run.opts
Specs(d) == {i \in DOMAIN run.specs : Mine(i) /\ d \in DOMAIN run.specs[i].does}
Named(d) == UNION {{p \in v.paths : ~v.refused} : v \in UNION {ToSet(run.specs[i].does[d]) : i \in Specs(d)}}
Receipts == UNION {Files[k] : k \in Packages}
\* Files go only where a directive names them, a directory above them or a
\* receipt that lists them; `rmdir` takes nothing but directories and Finder's
\* files, never through a link; and a dry run takes nothing.
OnlyWhatIsNamedGoesStep ==
    \A p \in Paths : fs[p] # "none" /\ fs'[p] = "none" =>
      /\ ~Dry
      /\ \/ \E q \in Named("delete") \cup Named("trash") : IsPrefix(q, p)
         \/ (fs[p] = "dir" \/ Last(p) = DsStore) /\ \E q \in Named("rmdir") : IsPrefix(q, p)
         \/ "pkgutil" \in {Now[2]} /\ p \in Receipts
         \/ \E s \in Services : p \in Plist[s]
OnlyWhatIsNamedGoes == [][OnlyWhatIsNamedGoesStep]_vars
\* Nothing in the Trash is lost but what came there after the name was chosen,
\* or what has the last name there is.
TrashIsKeptStep ==
    \A s \in Slots : trash[s] # None /\ trash'[s] # trash[s] => trash[s] = "late" \/ s[2] = MaxSuffix
TrashIsKept == [][TrashIsKeptStep]_vars
\* A stanza that fails takes no turn from the others: when the command ends,
\* each of those it was to run has begun.
EveryStanzaHasItsTurn ==
    Ended => \A i \in DOMAIN run.specs :
        DOMAIN run.specs[i].does # {} /\ Mine(i) => i \in run.turns
\* When nothing went wrong and nobody meddled, what was to be deleted or
\* trashed is gone, a forgotten package has left nothing but what is not its
\* own, and of the last stanza's directories only those stay that hold a file.
Holds(p) == \E q \in Paths : IsStrictPrefix(p, q) /\ fs[q] \in {"file", "link"} /\ Last(q) # DsStore
EndedWell == Ended /\ trouble = 0 /\ ~run.failed /\ ~Dry
QuietMeansDone ==
    EndedWell =>
    LET last == IF "zap" \in run.opts THEN Len(run.specs) ELSE 1
        dirs == IF "rmdir" \in DOMAIN run.specs[last].does THEN ToSet(run.specs[last].does["rmdir"]) ELSE {}
    IN /\ \A i \in DOMAIN run.specs : i \in run.turns =>
            \A d \in DOMAIN run.specs[i].does \cap {"delete", "trash"} : \A v \in ToSet(run.specs[i].does[d]) :
              v.refused \/ \A p \in v.paths : fs[p] = "none"
       /\ \A v \in dirs : v.refused \/ \A p \in v.paths : fs[p] # "dir" \/ Holds(p)
       /\ \A k \in Packages \ registered : \A p \in Files[k] :
            fs[p] = "none" \/ (fs[p] = "dir" /\ \E q \in Paths \ Receipts : IsPrefix(p, q) /\ fs[q] # "none")
StanzasAreSound == EveryStanzaHasItsTurn /\ QuietMeansDone
=================================================================================
