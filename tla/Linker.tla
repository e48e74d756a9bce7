--------------------------------- MODULE Linker ---------------------------------
(***************************************************************************)
(* Mirroring kegs into the prefix (keg/link.rs): the walk of a keg's tree  *)
(* with the rule of each directory, what is done with what is in the way,  *)
(* the unlinking, the roll back of a link that fails.                      *)
(*                                                                         *)
(* A process holds the lock of its own rack only, so kegs of different     *)
(* racks may be linked beside each other, item by item.                    *)
(***************************************************************************)
EXTENDS Naturals, Sequences, SequencesExt

CONSTANTS
    Kegs,         \* one keg of each rack
    Names,
    Files, Dirs,  \* paths below one of the linked directories: sequences of Names
    Sorted,       \* [SUBSET Paths -> sequences of them]: the order the walk takes siblings in
    None, UserFile, RealDir,  \* nothing, a file that is no keg's, a directory
    Rules,        \* the rules of the directories: a set of [Dirs -> {"link", "mkpath", "skip"}]
    UserFiles,    \* files that the user may have
    MaxFailures   \* bound: symlinks and records that cannot be made or removed

Paths == Files \cup Dirs
Root == <<>>
\* The directories a path is in.
Above(path) == {d \in Dirs : IsStrictPrefix(d, path)}
Links == [keg : Kegs, path : Paths]
\* What theorems need: a tree of paths that Sorted takes each once, and told apart
\* what may be at one.
Parameters ==
    /\ Paths \subseteq Seq(Names) \ {Root} /\ Files \cap Dirs = {} /\ UserFiles \subseteq Files
    /\ \A p \in Paths : \A n \in 1..(Len(p) - 1) : SubSeq(p, 1, n) \in Dirs
    /\ \A set \in SUBSET Paths : /\ Sorted[set] \in Seq(set) /\ set = {Sorted[set][i] : i \in DOMAIN Sorted[set]}
                                 /\ \A i, j \in DOMAIN Sorted[set] : Sorted[set][i] = Sorted[set][j] => i = j
    /\ None # RealDir /\ None # UserFile /\ RealDir # UserFile
    /\ {None, RealDir, UserFile} \cap Links = {} /\ None \notin Kegs

VARIABLES
    tree,     \* [Kegs -> the paths in the keg: what its directories, when they are read, list]
    rule,     \* one of Rules
    node,     \* [Paths -> None, RealDir, UserFile or [keg, path]]: the prefix
    inside,   \* [Kegs -> the paths of links made inside a keg's directories]
    user,     \* files of the user's that were in the prefix
    linked,   \* kegs of which every link was made, and none was removed
    half,     \* kegs that a failure left in between
    recorded, \* kegs with a record in var/homebrew/linked
    replaced, \* <<keg, path>>: links that --overwrite took from a keg
    backup,   \* $CACHE/Backup
    proc,     \* [Kegs -> [pc, overwrite, globs, todo, dirs, moved]]
    beside,   \* two kegs have been at work at once
    failures

vars == <<tree, rule, node, inside, user, linked, half, recorded, replaced, backup, proc, beside, failures>>

-------------------------------------------------------------------------------
Item(keg, path, other) == [keg |-> keg, path |-> path, other |-> other]
\* read_dir, sorted: what a keg has in a directory.
Children(keg, dir, other) ==
    LET paths == Sorted[{p \in tree[keg] : Front(p) = dir}]
    IN [i \in DOMAIN paths |-> Item(keg, paths[i], other)]

IsLink(n) == n \notin {None, RealDir, UserFile}
\* The keg whose directory a path is reached through.
Via(path) == {node[d].keg : d \in {e \in Above(path) : IsLink(node[e])}}
\* What the prefix shows at a path.
Shown(path) ==
    IF Via(path) = {} THEN node[path]
    ELSE LET keg == CHOOSE k \in Via(path) : TRUE
         IN IF path \in tree[keg] THEN [keg |-> keg, path |-> path] ELSE None

Idle == [pc |-> "idle", overwrite |-> FALSE, globs |-> {}, todo |-> <<>>, dirs |-> {}, moved |-> {}]
Quiet == \A k \in Kegs : proc[k].pc = "idle"
\* Beside another keg at work.
Begin ==
    IF Quiet THEN UNCHANGED <<beside, failures>>
    ELSE failures < MaxFailures /\ failures' = failures + 1 /\ beside' = TRUE
First(k) == Head(proc[k].todo)
Rest(k) == Tail(proc[k].todo)
Working(k, pc) == proc[k].pc = pc /\ proc[k].todo # <<>>
Todo(k, todo) == proc' = [proc EXCEPT ![k].todo = todo]

-------------------------------------------------------------------------------
(* link *)

\* Another version being linked blocks; the keg's own record does not.
StartLink(k, overwrite, globs) ==
    /\ proc[k].pc = "idle" /\ Begin
    /\ proc' = [proc EXCEPT ![k] = [Idle EXCEPT !.pc = "link", !.overwrite = overwrite, !.globs = globs,
                                                !.todo = Children(k, Root, FALSE)]]
    /\ replaced' = {r \in replaced : r[1] # k}
    /\ UNCHANGED <<tree, rule, node, inside, user, linked, half, recorded, backup>>

\* overwrite_allowed: a file of link_overwrite_paths, and of no keg.
OverwriteAllowed(k, path) == path \in proc[k].globs /\ ~IsLink(Shown(path))

\* Through a linked directory a keg is changed.
InKeg(path) == inside' = [k \in Kegs |-> IF k \in Via(path) THEN inside[k] \cup {path} ELSE inside[k]]
\* The link is made, with the directories above it.
Place(path, target) ==
    IF Via(path) = {}
    THEN /\ node' = [p \in Paths |-> IF p = path THEN target
                                     ELSE IF p \in Above(path) /\ node[p] = None THEN RealDir ELSE node[p]]
         /\ UNCHANGED inside
    ELSE InKeg(path) /\ UNCHANGED node
\* What is at a path is removed, or moved away.
Clear(path) ==
    IF Via(path) = {} THEN node' = [node EXCEPT ![path] = None] /\ UNCHANGED inside
    ELSE InKeg(path) /\ UNCHANGED node

Fail(k) == proc' = [proc EXCEPT ![k].pc = "undo", ![k].todo = Children(k, Root, FALSE)]

\* Linker::symlink, for the first item.
Symlink(k) ==
    LET path == First(k).path
        target == [keg |-> First(k).keg, path |-> path]
        there == Shown(path)
        own == ~First(k).other
    IN IF there = target THEN Todo(k, Rest(k)) /\ UNCHANGED <<node, inside, replaced, backup>>
       ELSE IF there = None
       THEN Place(path, target) /\ Todo(k, Rest(k)) /\ UNCHANGED <<replaced, backup>>
       ELSE IF own /\ proc[k].overwrite
       THEN /\ Place(path, target) /\ Todo(k, Rest(k)) /\ UNCHANGED backup
            /\ replaced' = replaced \cup {<<IF IsLink(there) THEN there.keg ELSE None, path>>}
       ELSE IF own /\ OverwriteAllowed(k, path)
       THEN /\ Place(path, target) /\ UNCHANGED replaced
            /\ proc' = [proc EXCEPT ![k].todo = Rest(k), ![k].moved = @ \cup {path}]
            /\ backup' = backup \cup {path}
       ELSE Fail(k) /\ UNCHANGED <<node, inside, replaced, backup>>

\* A keg's directory is expanded with the rule "mkpath" for everything in it.
RuleOf(item) == IF item.other THEN "mkpath" ELSE rule[item.path]

LinkFile(k) ==
    /\ Working(k, "link") /\ First(k).path \in Files
    /\ Symlink(k)
    /\ UNCHANGED <<tree, rule, user, linked, half, recorded, beside, failures>>

\* The directory or the symlink cannot be made, or not after what was in the way is
\* gone; of a keg whose directory is expanded the other links are then missing.
LinkFails(k) ==
    LET path == First(k).path
        there == Shown(path)
        cut == IF First(k).other THEN {First(k).keg} ELSE {}
    IN /\ Working(k, "link") /\ there \notin {RealDir, [keg |-> First(k).keg, path |-> path]}
       /\ path \in Dirs => RuleOf(First(k)) # "skip"
       /\ failures < MaxFailures /\ failures' = failures + 1
       /\ linked' = linked \ cut /\ half' = half \cup cut
       /\ \/ Fail(k) /\ UNCHANGED <<node, inside, replaced, backup>>
          \/ /\ path \in Files /\ there # None /\ ~First(k).other /\ proc[k].overwrite
             /\ Clear(path) /\ Fail(k) /\ UNCHANGED backup
             /\ replaced' = replaced \cup {<<IF IsLink(there) THEN there.keg ELSE None, path>>}
          \/ /\ path \in Files /\ there # None /\ ~First(k).other /\ ~proc[k].overwrite /\ OverwriteAllowed(k, path)
             /\ Clear(path) /\ UNCHANGED replaced
             /\ proc' = [proc EXCEPT ![k].pc = "undo", ![k].todo = Children(k, Root, FALSE), ![k].moved = @ \cup {path}]
             /\ backup' = backup \cup {path}
       /\ UNCHANGED <<tree, rule, user, recorded, beside>>

ExpandForgets(k) ==
    /\ node' = [node EXCEPT ![First(k).path] = None]
    /\ Todo(k, Children(First(k).keg, First(k).path, First(k).other) \o Rest(k))
    /\ UNCHANGED <<inside, replaced, backup>>
\* resolve_any_conflicts: a link to a keg's directory gives way to a real directory
\* with that keg's links, made when the first of them is placed.
Expand(k) ==
    LET path == First(k).path
        there == Shown(path)
    IN /\ node' = [node EXCEPT ![path] = None]
       /\ Todo(k, Children(there.keg, path, TRUE) \o Children(First(k).keg, path, First(k).other) \o Rest(k))
       /\ UNCHANGED <<inside, replaced, backup>>

LinkDir(k) ==
    LET path == First(k).path
        inner == Children(First(k).keg, path, First(k).other)
    IN /\ Working(k, "link") /\ path \in Dirs
       /\ IF Shown(path) = RealDir \/ (Via(path) # {} /\ Shown(path) # None)
          THEN Todo(k, inner \o Rest(k)) /\ UNCHANGED <<node, inside, replaced, backup>>
          ELSE IF RuleOf(First(k)) = "skip"
          THEN Todo(k, Rest(k)) /\ UNCHANGED <<node, inside, replaced, backup>>
          ELSE IF IsLink(Shown(path)) THEN Expand(k)
          ELSE IF RuleOf(First(k)) = "mkpath" /\ Shown(path) = None
          THEN Place(path, RealDir) /\ Todo(k, inner \o Rest(k)) /\ UNCHANGED <<replaced, backup>>
          ELSE IF RuleOf(First(k)) = "mkpath"
          THEN Todo(k, inner \o Rest(k)) /\ UNCHANGED <<node, inside, replaced, backup>>
          ELSE Symlink(k)
       /\ UNCHANGED <<tree, rule, user, linked, half, recorded, beside, failures>>

\* The record; the backups of a link that succeeded stay.  If only the record cannot be
\* written the link fails, and nothing is undone.
FinishLink(k) ==
    /\ proc[k].pc = "link" /\ proc[k].todo = <<>>
    /\ linked' = linked \cup {k} /\ half' = half \ {k} /\ proc' = [proc EXCEPT ![k] = Idle]
    /\ \/ recorded' = recorded \cup {k} /\ UNCHANGED failures
       \/ k \notin recorded /\ failures < MaxFailures /\ failures' = failures + 1 /\ UNCHANGED recorded
    /\ UNCHANGED <<tree, rule, node, inside, user, replaced, backup, beside>>

-------------------------------------------------------------------------------
(* unlink, also to undo a link that failed *)

StartUnlink(k) ==
    /\ proc[k].pc = "idle" /\ Begin
    /\ proc' = [proc EXCEPT ![k] = [Idle EXCEPT !.pc = "unlink", !.todo = Children(k, Root, FALSE)]]
    /\ UNCHANGED <<tree, rule, node, inside, user, linked, half, recorded, replaced, backup>>

Unlinking(k) == proc[k].pc \in {"unlink", "undo"}
Unlinks(k) == Unlinking(k) /\ proc[k].todo # <<>>
Ours(k, path) == Via(path) = {} /\ node[path] = [keg |-> k, path |-> path]
\* Only the links in the top directories are looked at.
UnlinkItemFlat(k) ==
    LET path == First(k).path
        ours == Ours(k, path)
    IN /\ Unlinks(k)
       /\ IF ours THEN node' = [node EXCEPT ![path] = None] ELSE UNCHANGED node
       /\ Todo(k, Rest(k))
       /\ UNCHANGED <<tree, rule, inside, user, linked, half, recorded, replaced, backup, beside, failures>>
\* A link of the keg's goes, and hides what is below it; otherwise a directory is entered.
UnlinkItem(k) ==
    LET path == First(k).path
        ours == Ours(k, path)
    IN /\ Unlinks(k)
       /\ IF ours THEN node' = [node EXCEPT ![path] = None] ELSE UNCHANGED node
       /\ proc' = [proc EXCEPT ![k].todo = IF path \in Dirs /\ ~ours THEN Children(k, path, FALSE) \o Rest(k) ELSE Rest(k),
                               ![k].dirs = IF Via(path) = {} /\ node[path] = RealDir THEN @ \cup {path} ELSE @]
       /\ UNCHANGED <<tree, rule, inside, user, linked, half, recorded, replaced, backup, beside, failures>>

\* The directories it met are removed if nothing is in them any more, the inner ones first.
\* A directory is empty when below it are only such directories.
Pruned(tr, dirs) ==
    LET goes(p) == p \in dirs /\ tr[p] = RealDir
        empty == {d \in dirs : goes(d) /\ \A p \in Paths : d \in Above(p) => tr[p] = None \/ goes(p)}
    IN [p \in Paths |-> IF p \in empty THEN None ELSE tr[p]]
NotRestored(k, tr) == tr
\* restore_backups: what the keg's link moved away goes back, through a linked
\* directory into that keg.
Back(k) == {p \in proc[k].moved : Via(p) = {}}
Restored(k, tr) == [p \in Paths |-> IF p \in Back(k) THEN UserFile
                                    ELSE IF \E q \in Back(k) : p \in Above(q) THEN RealDir ELSE tr[p]]
Restore(k, tr) ==
    IF proc[k].pc = "undo"
    THEN /\ node' = Restored(k, tr) /\ backup' = backup \ proc[k].moved
         /\ inside' = [j \in Kegs |-> inside[j] \cup {p \in proc[k].moved : j \in Via(p)}]
    ELSE node' = tr /\ UNCHANGED <<inside, backup>>

\* The record goes with the links; nothing is said if it does not.
FinishUnlink(k) ==
    /\ Unlinking(k) /\ proc[k].todo = <<>>
    /\ Restore(k, Pruned(node, proc[k].dirs))
    /\ linked' = linked \ {k} /\ proc' = [proc EXCEPT ![k] = Idle]
    /\ \/ recorded' = recorded \ {k} /\ half' = half \ {k} /\ UNCHANGED failures
       \/ /\ k \in recorded /\ half' = half \cup {k} /\ UNCHANGED recorded
          /\ failures < MaxFailures /\ failures' = failures + 1
    /\ UNCHANGED <<tree, rule, user, replaced, beside>>

\* A link that cannot be removed ends the unlinking; the backups are put back all the same.
UnlinkFails(k) ==
    /\ Unlinks(k) /\ Ours(k, First(k).path)
    /\ failures < MaxFailures /\ failures' = failures + 1
    /\ Restore(k, node)
    /\ linked' = linked \ {k} /\ half' = half \cup {k} /\ proc' = [proc EXCEPT ![k] = Idle]
    /\ UNCHANGED <<tree, rule, user, recorded, replaced, beside>>

-------------------------------------------------------------------------------
Closed(paths) == paths \cup UNION {Above(p) : p \in paths}

Init ==
    /\ tree \in [Kegs -> {Closed(files) : files \in (SUBSET Files) \ {{}}}]
    /\ rule \in Rules
    /\ user \in SUBSET UserFiles
    /\ node = [p \in Paths |-> IF p \in user THEN UserFile ELSE IF p \in Closed(user) THEN RealDir ELSE None]
    /\ inside = [k \in Kegs |-> {}] /\ linked = {} /\ half = {} /\ recorded = {}
    /\ replaced = {} /\ backup = {} /\ proc = [k \in Kegs |-> Idle] /\ beside = FALSE /\ failures = 0

Next ==
    \E k \in Kegs :
      \/ \E overwrite \in BOOLEAN, globs \in {{}, UserFiles} : (overwrite => globs = {}) /\ StartLink(k, overwrite, globs)
      \/ LinkFile(k) \/ LinkFails(k) \/ LinkDir(k) \/ FinishLink(k)
      \/ StartUnlink(k) \/ UnlinkItem(k) \/ UnlinkFails(k) \/ FinishUnlink(k)

Spec == Init /\ [][Next]_vars

-------------------------------------------------------------------------------
Linkable(k) == {f \in Files \cap tree[k] : \A d \in Above(f) : rule[d] # "skip"}

\* What a keg is recorded to have linked is there unless a failure was reported for
\* it, and every file of a linked keg is reached through the prefix, whatever was
\* linked and unlinked since: expanding a directory for another keg loses none of
\* them.  Only --overwrite takes a file from a keg.  This needs kegs that were linked
\* one at a time: while one expands a directory, another finds nothing there.
LinkedFilesAreThere ==
    ~beside => /\ recorded \subseteq linked \cup half
               /\ Quiet => \A k \in linked : \A f \in Linkable(k) :
                             Shown(f) = [keg |-> k, path |-> f] \/ <<k, f>> \in replaced

\* "`unlink` removes every prefix symlink resolving into the keg", and so does a
\* link that fails; only when a link or record cannot be removed is anything left.
UnlinkedLeavesNothing ==
    ~beside => \A k \in Kegs \ (linked \cup half) :
        proc[k].pc = "idle" => k \notin recorded /\ \A p \in Paths : ~(IsLink(node[p]) /\ node[p].keg = k)

\* A file of the user's is at its place, or --overwrite removed it, or it is in the
\* backups, also while kegs are linked beside each other; then alone it may be put
\* back into a keg, through a directory that has been linked meanwhile.
UserFilesAreKept ==
    \A f \in user : \/ node[f] = UserFile \/ <<None, f>> \in replaced \/ f \in backup
                    \/ beside /\ \E k \in Kegs : f \in inside[k]

\* Without --overwrite and link_overwrite_paths nothing is written into a keg.
KegsAreNotWritten == ~beside => \A k \in Kegs : inside[k] = {}
================================================================================
