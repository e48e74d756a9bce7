---------------------------------- MODULE Taps ----------------------------------
(***************************************************************************)
(* One third-party tap (tap.rs, cli/taps.rs) and the cache of what the     *)
(* Ruby reader made of a file in it (api/taps.rs).  Nothing here takes a   *)
(* lock: processes clone, untap, update, read and pour beside each other.  *)
(*                                                                         *)
(* git writes a file in two steps, so that it can be read half written;    *)
(* each write gives it a new mtime, which with the size is its stamp.      *)
(***************************************************************************)
EXTENDS Naturals, FiniteSets

CONSTANTS Proc, None, MaxPush, MaxClock    \* bounds: commits pushed, writes to files

VARIABLES
    remote,   \* the commit the server has
    dir,      \* None or [owner: who cloned it, file: None or [stamp, content], git: who merges]
    cache,    \* None or [stamp, content]: $CACHE/fastbrew/taps/<user>-<repo>.json
    keg,      \* a keg whose receipt names the tap is installed
    clock,    \* the last mtime
    proc      \* [Proc -> [pc, force, since, stamp, record]]

vars == <<remote, dir, cache, keg, clock, proc>>

Half == 0    \* the content of a file half written; a commit otherwise
Idle == [pc |-> "idle", force |-> FALSE, since |-> FALSE, stamp |-> 0, record |-> None, pours |-> FALSE]
At(p, pc) == proc[p].pc = pc
Goto(p, pc) == proc' = [proc EXCEPT ![p].pc = pc]
Stop(p) == proc' = [proc EXCEPT ![p] = Idle]
IsDir == dir # None
HasFile == IsDir /\ dir.file # None
Write(content) ==
    /\ clock < MaxClock /\ clock' = clock + 1
    /\ dir' = [dir EXCEPT !.file = [stamp |-> clock + 1, content |-> content]]

-------------------------------------------------------------------------------
(* tap *)

TapStart(p) ==
    /\ At(p, "idle") /\ IF IsDir THEN UNCHANGED proc ELSE Goto(p, "clone")
    /\ UNCHANGED <<remote, dir, cache, keg, clock>>

\* git clone refuses a directory that is there and not empty.
CloneBegin(p) ==
    /\ At(p, "clone")
    /\ IF IsDir THEN Goto(p, "failed") /\ UNCHANGED dir
       ELSE Goto(p, "checkout") /\ dir' = [owner |-> p, file |-> None, git |-> p]
    /\ UNCHANGED <<remote, cache, keg, clock>>
Owns(p) == IsDir /\ dir.owner = p
Checkout(p) ==
    /\ At(p, "checkout") /\ Owns(p) /\ Write(Half) /\ Goto(p, "checked out")
    /\ UNCHANGED <<remote, cache, keg>>
CloneEnd(p) ==
    /\ At(p, "checked out") /\ Owns(p) /\ clock < MaxClock /\ clock' = clock + 1
    /\ dir' = [dir EXCEPT !.file = [stamp |-> clock + 1, content |-> remote], !.git = None]
    /\ Stop(p) /\ UNCHANGED <<remote, cache, keg>>
\* git breaks off, or somebody removed the directory under it.
CloneBreaks(p) ==
    /\ proc[p].pc \in {"checkout", "checked out"} /\ Goto(p, "failed")
    /\ UNCHANGED <<remote, dir, cache, keg, clock>>
\* The directory is removed, whoever made it.
CloneFailed(p) ==
    /\ At(p, "failed") /\ dir' = None /\ Stop(p)
    /\ UNCHANGED <<remote, cache, keg, clock>>

-------------------------------------------------------------------------------
(* untap *)

\* The cache goes first, before anything is refused.
UntapStart(p) ==
    /\ At(p, "idle") /\ cache' = None
    /\ \E force \in BOOLEAN :
         IF IsDir THEN proc' = [proc EXCEPT ![p].pc = "untap", ![p].force = force] ELSE UNCHANGED proc
    /\ UNCHANGED <<remote, dir, keg, clock>>
\* The tap removed without a look at the kegs.
UntapUnchecked(p) ==
    /\ At(p, "untap") /\ proc' = [proc EXCEPT ![p].pc = "remove", ![p].since = FALSE]
    /\ UNCHANGED <<remote, dir, cache, keg, clock>>
\* installed_from_tap.
UntapCheck(p) ==
    /\ At(p, "untap")
    /\ IF keg /\ ~proc[p].force THEN Stop(p) ELSE proc' = [proc EXCEPT ![p].pc = "remove", ![p].since = FALSE]
    /\ UNCHANGED <<remote, dir, cache, keg, clock>>
UntapRemove(p) ==
    /\ At(p, "remove") /\ dir' = None /\ Stop(p)
    /\ UNCHANGED <<remote, cache, keg, clock>>

-------------------------------------------------------------------------------
(* update: fetch, then a fast-forward; git's index lock keeps two merges apart. *)

Push == remote < MaxPush /\ remote' = remote + 1 /\ UNCHANGED <<dir, cache, keg, clock, proc>>
UpdateStart(p) ==
    /\ At(p, "idle") /\ IsDir /\ Goto(p, "fetched")
    /\ UNCHANGED <<remote, dir, cache, keg, clock>>
MergeBegin(p) ==
    /\ At(p, "fetched")
    /\ IF HasFile /\ dir.git = None /\ dir.file.content # remote
       THEN /\ Goto(p, "merging") /\ clock < MaxClock /\ clock' = clock + 1
            /\ dir' = [dir EXCEPT !.file = [stamp |-> clock + 1, content |-> Half], !.git = p]
       ELSE Stop(p) /\ UNCHANGED <<dir, clock>>
    /\ UNCHANGED <<remote, cache, keg>>
Merges(p) == IsDir /\ dir.git = p
MergeEnd(p) ==
    /\ At(p, "merging") /\ Stop(p)
    /\ IF Merges(p) THEN /\ clock < MaxClock /\ clock' = clock + 1
                         /\ dir' = [dir EXCEPT !.file = [stamp |-> clock + 1, content |-> remote], !.git = None]
       ELSE UNCHANGED <<dir, clock>>
    /\ UNCHANGED <<remote, cache, keg>>

-------------------------------------------------------------------------------
(* load_tap, on its own or for the pour of a bottle of the tap's *)

\* The cache is read and the file's stamp taken; a record of that stamp is kept.
LoadStart(p) ==
    /\ At(p, "idle") /\ HasFile
    /\ \E pours \in BOOLEAN :
         proc' = [proc EXCEPT ![p] =
                    IF cache # None /\ cache.stamp = dir.file.stamp
                    THEN [@ EXCEPT !.pc = "loaded", !.record = cache, !.pours = pours]
                    ELSE [@ EXCEPT !.pc = "parse", !.stamp = dir.file.stamp, !.pours = pours]]
    /\ UNCHANGED <<remote, dir, cache, keg, clock>>
\* The file is read after its stamp; what cannot be read is recorded as such.
Parse(p) ==
    /\ At(p, "parse")
    /\ proc' = [proc EXCEPT ![p].pc = "store",
                            ![p].record = [stamp |-> proc[p].stamp,
                                           content |-> IF HasFile THEN dir.file.content ELSE Half]]
    /\ UNCHANGED <<remote, dir, cache, keg, clock>>
\* The file's stamp taken again when the record is stored.
StoreRestamped(p) ==
    /\ At(p, "store") /\ Goto(p, "loaded")
    /\ cache' = IF HasFile THEN [proc[p].record EXCEPT !.stamp = dir.file.stamp] ELSE proc[p].record
    /\ UNCHANGED <<remote, dir, keg, clock>>
Store(p) ==
    /\ At(p, "store") /\ cache' = proc[p].record /\ Goto(p, "loaded")
    /\ UNCHANGED <<remote, dir, keg, clock>>
\* Every process that is about to remove the tap learns that a keg came after its look.
Pour(p) ==
    /\ At(p, "loaded")
    /\ IF proc[p].pours /\ proc[p].record.content # Half
       THEN keg' = TRUE /\ proc' = [q \in Proc |-> IF q = p THEN Idle ELSE [proc[q] EXCEPT !.since = TRUE]]
       ELSE Stop(p) /\ UNCHANGED keg
    /\ UNCHANGED <<remote, dir, cache, clock>>
Uninstall == keg /\ keg' = FALSE /\ UNCHANGED <<remote, dir, cache, clock, proc>>

-------------------------------------------------------------------------------
Init ==
    /\ remote = 1 /\ dir = None /\ cache = None /\ keg = FALSE /\ clock = 0
    /\ proc = [p \in Proc |-> Idle]

Next ==
    \/ Push \/ Uninstall
    \/ \E p \in Proc :
         \/ TapStart(p) \/ CloneBegin(p) \/ Checkout(p) \/ CloneEnd(p) \/ CloneBreaks(p) \/ CloneFailed(p)
         \/ UntapStart(p) \/ UntapCheck(p) \/ UntapRemove(p)
         \/ UpdateStart(p) \/ MergeBegin(p) \/ MergeEnd(p)
         \/ LoadStart(p) \/ Parse(p) \/ Store(p) \/ Pour(p)

Spec == Init /\ [][Next]_vars

-------------------------------------------------------------------------------
\* A record that answers for a file (its stamp is the file's) holds what is in
\* the file, also when it was read in the middle of an update: "an unchanged
\* tap costs one `stat` per file" must never keep serving what a merge replaced.
CacheIsOfItsFile ==
    (HasFile /\ cache # None /\ cache.stamp = dir.file.stamp) => cache.content = dir.file.content

\* `untap` without --force removes the tap of an installed keg only when the
\* keg was poured after it had looked; the look is not repeated.
UntapSawNoKegStep ==
    \A p \in Proc : (At(p, "remove") /\ At(p, "idle")' /\ keg /\ ~proc[p].force) => proc[p].since
UntapSawNoKeg == [][UntapSawNoKegStep]_vars
================================================================================
