---------------------------------- MODULE Host ----------------------------------
(***************************************************************************)
(* What fastbrew does to the host of which a fault is seen only later: the *)
(* relocation of a poured keg, the links to kegs in the prefix, the        *)
(* configuration file that a formula's kegs seed and the service that they *)
(* bring.  Each is a module of its own and they share no file; a behaviour *)
(* is one of the parts that are active in it, and the variables of the     *)
(* others stay None.                                                       *)
(***************************************************************************)
EXTENDS Naturals

CONSTANTS
    None,
    Together,                                     \* which parts are active at once: a set of sets of parts
    FormulaVersions, Defaults, Edited, MaxPours,    \* of EtcVar
    PouredKegs, MaxTrouble,                       \* of Relocation
    Canonical, Legacy, KegLabels,                 \* of Services
    LinkedKegs, PathNames, LinkFiles, LinkDirs,   \* of Linker
    Sorted, UserFile, RealDir, Rules, UserFiles, MaxFailures

VARIABLES
    active,
    rack, aside, live, default, run, touched, lost, pours,
    keg, poured, bottle, symlink, pc, todo, dirty, failed, reported, unread, apart, trouble,
    service, plists, loaded, cmd, said,
    tree, rule, node, inside, user, linked, half, recorded, replaced, backup, proc, beside, failures

Config == INSTANCE EtcVar WITH Versions <- FormulaVersions, keg <- rack
Reloc == INSTANCE Relocation WITH Kegs <- PouredKegs
Serve == INSTANCE Services WITH keg <- service, files <- plists
Prefix == INSTANCE Linker WITH
    Kegs <- LinkedKegs, Names <- PathNames, Files <- LinkFiles, Dirs <- LinkDirs

ASSUME HostParameters ==
    Config!Parameters /\ Reloc!Parameters /\ Serve!Parameters /\ Prefix!Parameters

-------------------------------------------------------------------------------
ConfigVars == <<rack, aside, live, default, run, touched, lost, pours>>
RelocVars == <<keg, poured, bottle, symlink, pc, todo, dirty, failed, reported, unread, apart, trouble>>
ServeVars == <<service, plists, loaded, cmd, said>>
PrefixVars == <<tree, rule, node, inside, user, linked, half, recorded, replaced, backup, proc, beside, failures>>
vars == <<active, ConfigVars, RelocVars, ServeVars, PrefixVars>>

(* What a part that is not active has. *)
ConfigOff == rack = None /\ aside = None /\ live = None /\ default = None /\ run = None /\
    touched = None /\ lost = None /\ pours = None
RelocOff == keg = None /\ poured = None /\ bottle = None /\ symlink = None /\ pc = None /\
    todo = None /\ dirty = None /\ failed = None /\ reported = None /\ unread = None /\ apart = None /\ trouble = None
ServeOff == service = None /\ plists = None /\ loaded = None /\ cmd = None /\ said = None
PrefixOff == tree = None /\ rule = None /\ node = None /\ inside = None /\ user = None /\
    linked = None /\ half = None /\ recorded = None /\ replaced = None /\ backup = None /\
    proc = None /\ beside = None /\ failures = None

Init ==
    /\ active \in Together
    /\ IF "etc_var" \in active THEN Config!Init ELSE ConfigOff
    /\ IF "relocation" \in active THEN Reloc!Init ELSE RelocOff
    /\ IF "services" \in active THEN Serve!Init ELSE ServeOff
    /\ IF "linker" \in active THEN Prefix!Init ELSE PrefixOff

SeedConfig == "etc_var" \in active /\ Config!Next /\ UNCHANGED <<active, RelocVars, ServeVars, PrefixVars>>
Relocate == "relocation" \in active /\ Reloc!Next /\ UNCHANGED <<active, ConfigVars, ServeVars, PrefixVars>>
ServeUser == "services" \in active /\ Serve!Next /\ UNCHANGED <<active, ConfigVars, RelocVars, PrefixVars>>
LinkKegs == "linker" \in active /\ Prefix!Next /\ UNCHANGED <<active, ConfigVars, RelocVars, ServeVars>>

Next == SeedConfig \/ Relocate \/ ServeUser \/ LinkKegs
Spec == Init /\ [][Next]_vars

-------------------------------------------------------------------------------
(* The properties of the parts; each is stated and explained in its module. *)

\* bottle/relocate.rs, bottle/codesign.rs: after a relocation nothing of the
\* build prefix is left where it is looked for, hard links stay, and what was
\* changed is signed or reported.
KegIsRelocated == "relocation" \in active => Reloc!RelocationIsWhole

\* ops/postinstall.rs, bottle/extract.rs: the default config of the last
\* install is there, and follows the kegs until the user makes it his own.
DefaultsAreFollowed == "etc_var" \in active => Config!DefaultIsThere /\ Config!UntouchedFollows

\* services/mod.rs: whatever label a keg brings, one job of a formula runs in a
\* domain, and a directory has one file of it.
OneInstanceRuns == "services" \in active => Serve!OneInstance

\* keg/link.rs: over failures, --overwrite and merged directories, links lead to
\* files, unlinking leaves nothing, and neither users' files nor kegs are changed.
LinksAreWhole ==
    "linker" \in active => /\ Prefix!LinkedFilesAreThere /\ Prefix!UnlinkedLeavesNothing
                           /\ Prefix!UserFilesAreKept /\ Prefix!KegsAreNotWritten

\* services/mod.rs, ops/postinstall.rs: what `stop` removed is not loaded under any
\* label, `restart` leaves a service registered or not as it was, and no install
\* takes a config the user has changed.
CommandsDoWhatTheySay ==
    [][/\ "services" \in active => Serve!StoppedIsStoppedStep /\ Serve!RestartKeepsRegistrationStep
       /\ "etc_var" \in active => Config!UserConfigKeptStep]_vars
=================================================================================
