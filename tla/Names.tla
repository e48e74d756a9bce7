--------------------------------- MODULE Names ---------------------------------
(***************************************************************************)
(* What a name means (resolve.rs), while the API and the taps change it:   *)
(* the core formulae with their aliases, renames, oldnames and tap         *)
(* migrations, the installed third-party taps with what the Ruby reader    *)
(* made of their files, the racks with the tap each keg's receipt records. *)
(* The commands that act on a name are atomic here; their steps are in     *)
(* Rack and InstallRun.                                                    *)
(***************************************************************************)
EXTENDS Naturals, Sequences, FiniteSets

CONSTANTS
    Name,       \* names of formulae (model values)
    Taps,       \* third-party taps
    Core,       \* homebrew/core
    None,
    Rank,       \* [Taps \cup {Core} -> Nat]: the version each of them carries
    Contents,   \* what a tap may hold: [Taps -> a set of [Name -> File]]
    MaxChanges  \* bound: changes that the servers make

Sources == Taps \cup {Core}
Pointers == <<"alias", "rename", "oldname">>
\* A file the reader read, one that it could not read, none, or an alias of another name.
File == {"read", "unread", "none"} \cup Name

\* What a theorem about them needs.
Parameters ==
    /\ IsFiniteSet(Taps) /\ Core \notin Taps /\ None \notin Sources
    /\ Rank \in [Sources -> Nat]
    /\ Name \cap {"read", "unread", "none"} = {}
    /\ \A t \in Taps : Contents[t] \subseteq [Name -> File]

VARIABLES
    core,       \* names the API carries
    pointer,    \* [pointer -> [Name -> Name or None]]
    migration,  \* [Name -> <<tap, name>> or None]
    tap,        \* [Taps -> None or [Name -> File]]
    rack,       \* [Name -> the sources of its kegs]
    opt,        \* [Name -> the source of the keg opt points at, or None]
    changes,    \* what the servers changed so far
    last        \* the last step: what it did to a rack, and the tap that it named

world == <<core, pointer, migration, tap>>
vars == <<core, pointer, migration, tap, rack, opt, changes, last>>

Entry(source, name) == [source |-> source, name |-> name]
Fails(why) == [error |-> why]
Found(answer) == "source" \in DOMAIN answer
Bare(name) == [tap |-> None, name |-> name]
Full(entry) == [tap |-> entry.source, name |-> entry.name]

-------------------------------------------------------------------------------
(* The racks *)

Greatest(sources) == CHOOSE s \in sources : \A o \in sources : Rank[o] <= Rank[s]
DefaultKeg(name) == IF opt[name] # None THEN opt[name]
                    ELSE IF rack[name] = {} THEN None ELSE Greatest(rack[name])
InstalledTap(name) ==
    IF rack[name] = {} \/ Greatest(rack[name]) = Core THEN None ELSE Greatest(rack[name])
FromInstalledKeg(name) == Entry(Greatest(rack[name]), name)

-------------------------------------------------------------------------------
(* Resolution *)

Has(t, name) == tap[t] # None /\ tap[t][name] # "none"

\* TapMetadata::formula: the file of that name, else the alias.
FromTap(t, name) ==
    LET canonical == IF tap[t][name] \in Name THEN tap[t][name] ELSE name
    IN IF tap[t][canonical] = "read" THEN Entry(t, canonical) ELSE Fails("delegate")

TapFormula(t, name) ==
    IF tap[t] = None THEN Fails("needs tap")
    ELSE IF Has(t, name) THEN FromTap(t, name) ELSE Fails("unavailable")

\* The exact name, then the first pointer that leads to a formula.
FromCore(name) ==
    LET leading == {i \in DOMAIN Pointers : pointer[Pointers[i]][name] \in core}
        first == CHOOSE i \in leading : \A j \in leading : i <= j
    IN IF name \in core THEN Entry(Core, name)
       ELSE IF leading # {} THEN Entry(Core, pointer[Pointers[first]][name]) ELSE Fails("unavailable")

MigrationTap(name) == IF migration[name] = None THEN None ELSE migration[name][1]

\* FromNameLoader: the migration's tap, then whichever installed tap has the name.
FromTaps(name) ==
    LET hits == {t \in Taps : Has(t, name)} IN
    IF migration[name] # None /\ MigrationTap(name) \in Taps /\ Has(MigrationTap(name), migration[name][2])
    THEN FromTap(MigrationTap(name), migration[name][2])
    ELSE IF hits = {} THEN Fails("unavailable")
    ELSE IF Cardinality(hits) > 1 THEN Fails("ambiguous")
    ELSE FromTap(CHOOSE t \in hits : TRUE, name)

IsCoreTap(source) == source = Core
\* A qualified name that core answers first.
ResolveCoreFirst(ref) ==
    IF Found(FromCore(ref.name)) THEN FromCore(ref.name)
    ELSE IF ref.tap # None /\ ~IsCoreTap(ref.tap) THEN TapFormula(ref.tap, ref.name)
    ELSE FromTaps(ref.name)
Resolve(ref) ==
    IF ref.tap # None /\ ~IsCoreTap(ref.tap) THEN TapFormula(ref.tap, ref.name)
    ELSE IF Found(FromCore(ref.name)) THEN FromCore(ref.name)
    ELSE IF FromTaps(ref.name) # Fails("unavailable") THEN FromTaps(ref.name)
    ELSE IF migration[ref.name] # None THEN Fails("migrated")
    ELSE IF rack[ref.name] # {} THEN FromInstalledKeg(ref.name)
    ELSE Fails("unavailable")

\* The receipt's tap not asked.
ResolveInstalledBare(name) == Resolve(Bare(name))
ResolveInstalled(name) ==
    LET own == Resolve([tap |-> InstalledTap(name), name |-> name])
    IN IF InstalledTap(name) # None /\ Found(own) THEN own ELSE Resolve(Bare(name))

\* The dependent's tap not asked first.
ResolveDependencyBare(ref, dependent) == Resolve(ref)
\* A bare name: core, then the tap of the dependent, then as ever.
ResolveDependency(ref, dependent) ==
    IF ref.tap = None /\ ref.name \notin core /\ ~IsCoreTap(dependent.source) /\ Has(dependent.source, ref.name)
    THEN FromTap(dependent.source, ref.name)
    ELSE Resolve(ref)

\* Only a rack of core's is compared.
CheckInstalledTapOfCore(ref, entry) ==
    ref.tap = None \/ DefaultKeg(entry.name) \in {None, ref.tap} \/ DefaultKeg(entry.name) \in Taps
CheckInstalledTap(ref, entry) ==
    ref.tap = None \/ DefaultKeg(entry.name) = None \/ DefaultKeg(entry.name) = ref.tap

\* warn_if_cask_conflicts, resolve: a name that a formula does not answer to may be a cask's.
ResolveAny(ref, casks) ==
    IF Found(Resolve(ref)) THEN Resolve(ref)
    ELSE IF ref.name \in casks THEN [cask |-> ref.name] ELSE Resolve(ref)

-------------------------------------------------------------------------------
(* Outdated formulae.  A keg's rank stands for its scheme and version. *)

\* The formula a rack is compared with.
ComparedWith(name) ==
    IF InstalledTap(name) # None THEN Resolve([tap |-> InstalledTap(name), name |-> name])
    ELSE IF name \in core THEN Entry(Core, name) ELSE Fails("unavailable")
Outdated(name, entry) ==
    /\ rack[name] # {}
    /\ ~\E keg \in rack[name] : Rank[keg] >= Rank[entry.source] /\ opt[name] = keg
ReportedOutdated == {n \in Name : Found(ComparedWith(n)) /\ Outdated(ComparedWith(n).name, ComparedWith(n))}

-------------------------------------------------------------------------------
(* The servers *)

By(command, t) == [command |-> command, tap |-> t]
Change(change) == changes < MaxChanges /\ changes' = changes + 1 /\ change /\ last' = By("none", None) /\ UNCHANGED <<rack, opt>>

AddFormula == \E n \in Name : core' = core \cup {n} /\ core' # core /\ UNCHANGED <<pointer, migration, tap>>
RemoveFormula == \E n \in core : core' = core \ {n} /\ UNCHANGED <<pointer, migration, tap>>
RenameFormula ==
    \E n \in core, new \in Name \ core :
      /\ core' = (core \ {n}) \cup {new}
      /\ pointer' = [pointer EXCEPT !["rename"][n] = new, !["oldname"][n] = new]
      /\ UNCHANGED <<migration, tap>>
AliasFormula ==
    \E n \in core, other \in Name : other # n /\ pointer' = [pointer EXCEPT !["alias"][other] = n] /\ pointer' # pointer
                                    /\ UNCHANGED <<core, migration, tap>>
MigrateFormula ==
    \E n \in core, t \in Taps, new \in Name :
      /\ core' = core \ {n}
      /\ migration' = [migration EXCEPT ![n] = <<t, new>>]
      /\ UNCHANGED <<pointer, tap>>
\* `update` fetches what a tap's authors pushed.
UpdateTap == \E t \in Taps : \E c \in Contents[t] : tap[t] # None /\ tap[t] # c /\ tap' = [tap EXCEPT ![t] = c]
                                             /\ UNCHANGED <<core, pointer, migration>>

-------------------------------------------------------------------------------
(* The commands *)

Refs == [tap : Sources \cup {None}, name : Name]

Tap == \E t \in Taps : \E c \in Contents[t] :
         /\ tap[t] = None /\ tap' = [tap EXCEPT ![t] = c]
         /\ last' = By("none", None) /\ UNCHANGED <<core, pointer, migration, rack, opt, changes>>

\* installed_from_tap: any keg whose receipt names the tap.
InstalledFromTap(t) == {n \in Name : t \in rack[n]}
Untap == \E t \in Taps, force \in BOOLEAN :
           /\ tap[t] # None /\ (force \/ InstalledFromTap(t) = {})
           /\ tap' = [tap EXCEPT ![t] = None]
           /\ last' = By("none", None) /\ UNCHANGED <<core, pointer, migration, rack, opt, changes>>

Pour(entry) ==
    /\ rack' = [rack EXCEPT ![entry.name] = @ \cup {entry.source}]
    /\ opt' = [opt EXCEPT ![entry.name] = entry.source]

\* What partition lets through.
Partition(ref, entry) == Found(entry) /\ CheckInstalledTap(ref, entry)

Install(ref, entry) ==
    /\ entry.source \notin rack[entry.name]
    /\ Pour(entry) /\ last' = By("install", ref.tap)
    /\ UNCHANGED <<core, pointer, migration, tap, changes>>

\* upgrade: each outdated rack, to the formula its receipt leads to.
Upgrade ==
    \E n \in ReportedOutdated :
      LET entry == ResolveInstalled(n)
      IN /\ Found(entry) /\ entry.source \notin rack[entry.name]
         /\ Pour(entry) /\ last' = By("upgrade", None) /\ UNCHANGED <<core, pointer, migration, tap, changes>>
\* upgrade NAME: to the formula the name leads to.
UpgradeNamed(ref, entry) ==
    /\ entry.source \notin rack[entry.name] /\ entry.name \in ReportedOutdated
    /\ Pour(entry) /\ last' = By("upgrade named", ref.tap)
    /\ UNCHANGED <<core, pointer, migration, tap, changes>>

\* canonical_installed_name: its own name, else an oldname, alias or rename that has a rack.
RackOf(entry) ==
    LET old == {n \in Name : entry.source = Core /\ pointer["oldname"][n] = entry.name /\ rack[n] # {}}
        to(p) == pointer[p][entry.name]
    IN IF rack[entry.name] # {} THEN entry.name
       ELSE IF old # {} THEN CHOOSE n \in old : TRUE
       ELSE IF to("alias") \in Name /\ rack[to("alias")] # {} THEN to("alias")
       ELSE IF to("rename") \in Name /\ rack[to("rename")] # {} THEN to("rename")
       ELSE entry.name
\* The kegs that uninstall selects: all with --force, else the linked keg or the
\* only one; of several kegs none of which is linked it removes none.
Selected(name, force) ==
    IF force \/ Cardinality(rack[name]) = 1 THEN rack[name] ELSE rack[name] \cap {opt[name]}
Uninstall(ref, entry, force) ==
    LET name == RackOf(entry)
        gone == Selected(name, force)
    IN /\ gone # {}
       /\ rack' = [rack EXCEPT ![name] = @ \ gone]
       /\ opt' = [opt EXCEPT ![name] = IF @ \in gone THEN None ELSE @]
       /\ last' = By("uninstall", ref.tap) /\ UNCHANGED <<core, pointer, migration, tap, changes>>

Command ==
    \E ref \in Refs : \E entry \in {Resolve(ref)} :
      /\ Partition(ref, entry)
      /\ Install(ref, entry) \/ UpgradeNamed(ref, entry) \/ \E force \in BOOLEAN : Uninstall(ref, entry, force)

-------------------------------------------------------------------------------
Init ==
    /\ core \in SUBSET Name
    /\ pointer = [p \in {Pointers[i] : i \in DOMAIN Pointers} |-> [n \in Name |-> None]]
    /\ migration = [n \in Name |-> None]
    /\ tap = [t \in Taps |-> None]
    /\ rack = [n \in Name |-> {}] /\ opt = [n \in Name |-> None]
    /\ changes = 0 /\ last = By("none", None)

Next ==
    \/ Change(AddFormula) \/ Change(RemoveFormula) \/ Change(RenameFormula)
    \/ Change(AliasFormula) \/ Change(MigrateFormula) \/ Change(UpdateTap)
    \/ Tap \/ Untap \/ Upgrade \/ Command

Spec == Init /\ [][Next]_vars

-------------------------------------------------------------------------------
\* What a name resolves to resolves to itself by its full name: a command may
\* hand on the full name of an entry, or key a plan by it, and mean the same
\* formula (install's plan, outdated, the receipts' runtime dependencies).
FullNamesStand ==
    \A n \in Name :
      LET answer == Resolve(Bare(n))
          carried == IF IsCoreTap(answer.source) THEN answer.name \in core ELSE Has(answer.source, answer.name)
      IN (Found(answer) /\ carried) => Resolve(Full(answer)) = answer

\* `upgrade` installs the very formula `outdated` compared the rack with, also
\* where core, the rack's tap and other taps carry different formulae of its name.
OutdatedIsUpgraded ==
    \A n \in ReportedOutdated : ResolveInstalled(n) = ComparedWith(n)

\* A formula's dependency on a neighbour in its tap means that neighbour,
\* whichever other tap carries the name: it is never ambiguous.
DependencyStaysInItsTap ==
    \A t \in Taps, n, d \in Name :
      (Has(t, n) /\ tap[t] # None /\ tap[t][d] = "read" /\ d \notin core)
        => ResolveDependency(Bare(d), Entry(t, n)) = Entry(t, d)

\* A rack whose default keg is one tap's goes over to another tap only when the
\* user gives a bare name or core's (which falls through to the taps): neither a
\* third-party tap's name nor `upgrade` without names does it, unless a tap made
\* another rack's name an alias of this one's.
RenamedTo(n) == \E m \in Name \ {n} : Found(ComparedWith(m)) /\ ComparedWith(m).name = n
TapChangesByBareNameStep ==
    \A n \in Name : (rack[n] # {} /\ rack'[n] \ rack[n] # {} /\ DefaultKeg(n)' # DefaultKeg(n))
       => last'.tap \notin Taps /\ (last'.command = "upgrade" => InstalledTap(n) \in {None, DefaultKeg(n)'} \/ RenamedTo(n))
TapChangesByBareName == [][TapChangesByBareNameStep]_vars

\* check_installed_tap: "fastbrew compares them in every command that unlinks,
\* removes or rewrites a rack, because deleting another tap's package cannot be undone".
QualifiedSparesOthers ==
    [][(last'.command = "uninstall" /\ last'.tap # None) => \A n \in Name : rack[n] \ rack'[n] \subseteq {last'.tap}]_vars
================================================================================
