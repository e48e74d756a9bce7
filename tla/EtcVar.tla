--------------------------------- MODULE EtcVar ---------------------------------
(***************************************************************************)
(* Seeding a configuration file from a keg's .bottle/etc into the prefix   *)
(* (ops/postinstall.rs, install_etc_var), over the pours, reinstalls,      *)
(* clean-ups and uninstalls of one formula and the edits of the user.      *)
(* There is one file; the kegs of different versions may ship the same.    *)
(***************************************************************************)
EXTENDS Naturals, FiniteSets

CONSTANTS
    Versions,   \* of the formula, \in Nat
    Defaults,   \* what a keg may ship as the file
    Edited,       \* what the user makes of it
    None,
    MaxPours    \* bound

Contents == Defaults \cup {Edited}

\* What a theorem about them needs.
Parameters ==
    /\ Versions \subseteq Nat
    /\ None \notin Contents \cup [v : Versions, ships : Defaults] /\ Edited \notin Defaults

VARIABLES
    keg,      \* [Versions -> Defaults \cup {None}]: what the rack's kegs ship
    aside,    \* [v, ships] or None: the <keg>.reinstall of a reinstall
    live,     \* the file in the prefix, or None
    default,  \* the `.default` beside it, or None
    run,      \* [pc, v, to]: the install under way
    touched,  \* the user has changed the file since it was first seeded
    lost,     \* a keg that seeded the file has left the rack
    pours

vars == <<keg, aside, live, default, run, touched, lost, pours>>

Idle == [pc |-> "idle", v |-> 0, to |-> None]
At(pc) == run.pc = pc
Goto(pc) == run' = [run EXCEPT !.pc = pc]

-------------------------------------------------------------------------------
(* An install of one keg, as far as the file sees it *)

\* The keg is poured; the one it replaces is moved aside, into the same rack,
\* where an earlier one goes.
Pour(v, ships) ==
    /\ At("idle") /\ pours < MaxPours /\ pours' = pours + 1
    /\ aside' = IF keg[v] # None THEN [v |-> v, ships |-> keg[v]] ELSE aside
    /\ keg' = [keg EXCEPT ![v] = ships]
    /\ run' = [pc |-> "seed", v |-> v, to |-> None]
    /\ UNCHANGED <<live, default, touched, lost>>

Ships == keg[run.v]
\* Mutant: backups are no kegs.
SiblingsInstalled == {keg[w] : w \in Versions \ {run.v}}
\* matches_a_sibling_kegs_default: the other entries of the rack, the one moved
\* aside included.
Siblings == {keg[w] : w \in Versions \ {run.v}} \cup IF aside = None THEN {} ELSE {aside.ships}
MatchesASiblingsDefault == live # None /\ live \in Siblings
Identical == live = Ships
\* destination_for
\* Mutant: what was there before goes.
DestinationAlwaysLive == "live"
DestinationFor == IF live = None \/ Identical \/ MatchesASiblingsDefault THEN "live" ELSE "default"

\* copy_file removes what is there and copies.
Removed ==
    /\ At("seed") /\ Ships # None
    /\ run' = [run EXCEPT !.pc = "copy", !.to = DestinationFor]
    /\ live' = IF DestinationFor = "live" THEN None ELSE live
    /\ default' = IF DestinationFor = "default" THEN None ELSE default
    /\ UNCHANGED <<keg, aside, touched, lost, pours>>
Copied ==
    /\ At("copy") /\ Goto("finish")
    /\ live' = IF run.to = "live" THEN Ships ELSE live
    /\ default' = IF run.to = "default" THEN Ships ELSE default
    /\ UNCHANGED <<keg, aside, touched, lost, pours>>
\* The rest of finishing is done; the keg moved aside goes.
Finish ==
    /\ At("finish") /\ run' = Idle /\ aside' = None
    /\ UNCHANGED <<keg, live, default, touched, lost, pours>>
\* Or it fails, at any time, the copy included: the keg is discarded, the one it replaced put back.
Discarded == [keg EXCEPT ![run.v] = IF aside # None /\ aside.v = run.v THEN aside.ships ELSE None]
Fail ==
    /\ ~At("idle") /\ run' = Idle /\ keg' = Discarded
    /\ aside' = IF aside # None /\ aside.v = run.v THEN None ELSE aside
    /\ lost' = (lost \/ At("copy") \/ At("finish"))
    /\ UNCHANGED <<live, default, touched, pours>>

-------------------------------------------------------------------------------
(* Between installs *)

\* cleanup removes all but the newest keg; what is in the prefix stays.
Cleanup ==
    /\ At("idle")
    /\ \E v \in Versions :
         /\ keg[v] # None
         /\ keg' = [w \in Versions |-> IF w < v THEN None ELSE keg[w]]
         /\ \A w \in Versions : w > v => keg[w] = None
         /\ lost' = (lost \/ \E w \in Versions : w < v /\ keg[w] = live)
    /\ UNCHANGED <<aside, live, default, run, touched, pours>>
\* An uninstall leaves the user's configuration.
Uninstall ==
    /\ At("idle") /\ keg' = [v \in Versions |-> None] /\ aside' = None /\ lost' = TRUE
    /\ UNCHANGED <<live, default, run, touched, pours>>
UserEdits ==
    /\ At("idle")
    /\ live' \in (Contents \cup {None}) \ {live} /\ touched' = TRUE
    /\ default' \in {default, None}
    /\ UNCHANGED <<keg, aside, run, lost, pours>>

-------------------------------------------------------------------------------
Init ==
    /\ keg = [v \in Versions |-> None] /\ aside = None
    /\ live \in {None, Edited} /\ default = None
    /\ run = Idle /\ touched = (live # None) /\ lost = FALSE /\ pours = 0
Next ==
    \/ \E v \in Versions, ships \in Defaults : Pour(v, ships)
    \/ Removed \/ Copied \/ Finish \/ Fail
    \/ Cleanup \/ Uninstall \/ UserEdits
Spec == Init /\ [][Next]_vars

-------------------------------------------------------------------------------
(* Properties *)

\* No install, also one that fails between the two, takes the user's own configuration.
UserConfigKeptStep == live = Edited /\ live' # Edited => UserEdits
UserConfigKept == [][UserConfigKeptStep]_vars

\* What was installed last can be found: as the file, or beside it.
DefaultIsThere == At("finish") => Ships \in {live, default}

\* A file the user has not touched follows the defaults of the kegs over
\* upgrades, downgrades, reinstalls and clean-ups, as long as no keg that
\* seeded it has been taken away.
UntouchedFollows == At("finish") /\ ~touched /\ ~lost => live = Ships
====
