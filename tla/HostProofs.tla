------------------------------- MODULE HostProofs -------------------------------
(***************************************************************************)
(* What holds of the parts of Host, for any versions, defaults, kegs and   *)
(* labels: the configuration file that a formula seeds, the relocation of  *)
(* a keg, the service of a formula and the links in the prefix.  At the    *)
(* end they are put together.                                              *)
(***************************************************************************)
EXTENDS Host, Sequences, FiniteSetTheorems, WellFoundedInduction, TLAPS

(* The instance's finite sets are those of the library. *)
LEMMA FiniteSetsAreThose == \A S : Reloc!IsFiniteSet(S) <=> IsFiniteSet(S)
BY DEF Reloc!IsFiniteSet, IsFiniteSet

-------------------------------------------------------------------------------
(* The configuration file *)
Installs == [pc : {"idle", "seed", "copy", "finish"}, v : Nat, to : {None, "live", "default"}]
Asides == [v : FormulaVersions, ships : Defaults]

EtcTyped ==
  /\ rack \in [FormulaVersions -> Defaults \cup {None}]
  /\ aside \in Asides \cup {None}
  /\ live \in Config!Contents \cup {None}
  /\ run \in Installs

(* A keg is aside while the one that takes its place is under way. *)
AsideOk ==
  /\ Config!At("idle") => aside = None
  /\ ~Config!At("idle") => run.v \in FormulaVersions /\ (aside # None => aside.v = run.v)
  /\ Config!At("copy") \/ Config!At("finish") => Config!Ships # None
CopyOk ==
  /\ Config!At("copy") => run.to \in {"live", "default"} /\ (run.to = "live" => live = None)
  /\ Config!At("finish") => Config!Ships \in {live, default}
(* The file of a user who has not touched it is one of the kegs', or is being replaced. *)
FollowsOk ==
  ~touched /\ ~lost =>
    /\ Config!At("idle") => live = None \/ \E w \in FormulaVersions : live = rack[w]
    /\ Config!At("seed") => live = None \/ live \in Config!Siblings
    /\ Config!At("copy") => run.to = "live"
    /\ Config!At("finish") => live = Config!Ships

EtcInv == EtcTyped /\ AsideOk /\ CopyOk /\ FollowsOk

(* Nothing has been poured at first. *)
LEMMA EtcInit == Config!Parameters /\ Config!Init => EtcInv
<1> SUFFICES ASSUME Config!Parameters, Config!Init PROVE EtcInv
  OBVIOUS
<1>1. run \in Installs /\ run.pc = "idle"
  BY DEF Config!Init, Config!Idle, Installs
<1>2. EtcTyped
  BY <1>1 DEF Config!Init, EtcTyped, Config!Contents
<1>3. AsideOk /\ CopyOk
  BY <1>1 DEF Config!Init, AsideOk, CopyOk, Config!At
<1>4. ~touched => live = None
  BY DEF Config!Init
<1>5. FollowsOk
  BY <1>1, <1>4 DEF FollowsOk, Config!At
<1> QED BY <1>2, <1>3, <1>5 DEF EtcInv

(* A keg is poured beside what is there, or in the place of what goes aside. *)
LEMMA PourKeeps ==
  ASSUME Config!Parameters, EtcInv, NEW v \in FormulaVersions, NEW ships \in Defaults, Config!Pour(v, ships)
  PROVE  EtcInv'
<1>1. EtcTyped'
  <2>1. run' \in Installs
    BY DEF Config!Pour, Installs, Config!Parameters
  <2>2. aside' \in Asides \cup {None}
    BY DEF Config!Pour, EtcInv, EtcTyped, Asides
  <2> QED BY <2>1, <2>2 DEF Config!Pour, EtcInv, EtcTyped
<1>2. Config!At("seed")' /\ run'.v = v
  BY DEF Config!Pour, Config!At
<1>3. aside = None
  BY DEF Config!Pour, EtcInv, AsideOk
<1>4. AsideOk'
  BY <1>2, <1>3 DEF Config!Pour, AsideOk, Config!At
<1>5. CopyOk'
  BY <1>2 DEF CopyOk, Config!At
<1>6. ASSUME ~touched', ~lost' PROVE live' = None \/ live' \in Config!Siblings'
  <2>1. live' = live /\ (live = None \/ \E w \in FormulaVersions : live = rack[w])
    BY <1>6 DEF Config!Pour, EtcInv, FollowsOk
  <2>2. ASSUME NEW w \in FormulaVersions, live = rack[w], live # None PROVE live' \in Config!Siblings'
    <3>1. CASE w = v
      <4>1. rack[v] # None /\ rack[v] \in Defaults
        BY <2>2, <3>1 DEF EtcInv, EtcTyped
      <4>2. aside' = [v |-> v, ships |-> rack[v]] /\ aside' \in Asides
        BY <4>1 DEF Config!Pour, Asides
      <4>3. aside' # None
        BY <4>2 DEF Config!Parameters, Asides
      <4> QED BY <2>1, <2>2, <3>1, <4>2, <4>3 DEF Config!Siblings
    <3>2. CASE w # v
      <4>1. rack'[w] = rack[w]
        BY <3>2 DEF Config!Pour, EtcInv, EtcTyped
      <4> QED BY <1>2, <2>1, <2>2, <3>2, <4>1 DEF Config!Siblings
    <3> QED BY <3>1, <3>2
  <2> QED BY <2>1, <2>2
<1>7. FollowsOk'
  BY <1>2, <1>6 DEF FollowsOk, Config!At
<1> QED BY <1>1, <1>4, <1>5, <1>7 DEF EtcInv

(* What was moved aside is a default, or nothing. *)
LEMMA SiblingsAre ==
  ASSUME Config!Parameters, EtcInv, run.v \in FormulaVersions
  PROVE  Config!Siblings \subseteq Defaults \cup {None}
BY DEF EtcInv, EtcTyped, Config!Siblings, Asides

LEMMA SeedKeeps ==
  ASSUME Config!Parameters, EtcInv, Config!Removed \/ Config!Copied
  PROVE  EtcInv'
<1>1. UNCHANGED <<rack, aside, touched, lost>> /\ run'.v = run.v /\ Config!Ships' = Config!Ships
  BY DEF Config!Removed, Config!Copied, Config!Goto, EtcInv, EtcTyped, Installs, Config!Ships
<1>2. CASE Config!Removed
  <2>1. run' = [run EXCEPT !.pc = "copy", !.to = Config!DestinationFor] /\ Config!DestinationFor \in {"live", "default"}
    BY <1>2 DEF Config!Removed, Config!DestinationFor
  <2>2. run' \in Installs /\ run'.pc = "copy" /\ run'.to = Config!DestinationFor
    BY <2>1 DEF EtcInv, EtcTyped, Installs
  <2>3. EtcTyped'
    BY <1>1, <1>2, <2>2 DEF EtcInv, EtcTyped, Config!Removed
  <2>4. AsideOk'
    BY <1>1, <1>2, <2>2 DEF EtcInv, AsideOk, Config!Removed, Config!At
  <2>5. CopyOk'
    BY <1>1, <1>2, <2>2, <2>1 DEF CopyOk, Config!Removed, Config!At
  <2>6. ~touched /\ ~lost => Config!DestinationFor = "live"
    BY <1>2 DEF EtcInv, FollowsOk, Config!Removed, Config!DestinationFor, Config!MatchesASiblingsDefault
  <2>7. FollowsOk'
    BY <1>1, <2>2, <2>6 DEF FollowsOk, Config!At
  <2> QED BY <2>3, <2>4, <2>5, <2>7 DEF EtcInv
<1>3. CASE Config!Copied
  <2>1. run' \in Installs /\ run'.pc = "finish" /\ Config!At("copy")
    BY <1>3 DEF Config!Copied, Config!Goto, EtcInv, EtcTyped, Installs
  <2>2. Config!Ships \in Defaults
    BY <2>1 DEF EtcInv, EtcTyped, AsideOk, Config!Ships, Config!At
  <2>3. EtcTyped'
    BY <1>1, <1>3, <2>1, <2>2 DEF EtcInv, EtcTyped, Config!Copied, Config!Contents
  <2>4. AsideOk'
    BY <1>1, <2>1 DEF EtcInv, AsideOk, Config!At
  <2>5. CopyOk'
    BY <1>1, <1>3, <2>1 DEF EtcInv, CopyOk, Config!Copied, Config!At
  <2>6. FollowsOk'
    BY <1>1, <1>3, <2>1 DEF EtcInv, FollowsOk, Config!Copied, Config!At
  <2> QED BY <2>3, <2>4, <2>5, <2>6 DEF EtcInv
<1> QED BY <1>2, <1>3

(* The keg stays, or what it replaced comes back. *)
LEMMA EndKeeps ==
  ASSUME Config!Parameters, EtcInv, Config!Finish \/ Config!Fail
  PROVE  EtcInv'
<1>1. run' = Config!Idle /\ run' \in Installs /\ Config!At("idle")' /\ UNCHANGED <<live, default, touched>>
  BY DEF Config!Finish, Config!Fail, Config!Idle, Installs, Config!At
<1>2. aside' = None
  BY DEF Config!Finish, Config!Fail, EtcInv, AsideOk
<1>3. ~Config!At("idle") /\ run.v \in FormulaVersions
  BY DEF Config!Finish, Config!Fail, EtcInv, AsideOk, Config!At
<1>4. CASE Config!Finish
  <2>1. rack' = rack /\ lost' = lost
    BY <1>4 DEF Config!Finish
  <2>2. EtcTyped'
    BY <1>1, <1>2, <2>1 DEF EtcInv, EtcTyped
  <2>3. FollowsOk'
    BY <1>1, <1>3, <1>4, <2>1 DEF EtcInv, FollowsOk, Config!Finish, Config!At, Config!Ships
  <2> QED BY <1>1, <1>2, <2>2, <2>3 DEF EtcInv, AsideOk, CopyOk, Config!At
<1>5. CASE Config!Fail
  <2>1. rack' = Config!Discarded /\ lost' = (lost \/ Config!At("copy") \/ Config!At("finish"))
    BY <1>5 DEF Config!Fail
  <2>2. rack' = [rack EXCEPT ![run.v] = IF aside # None THEN aside.ships ELSE None]
    BY <1>3, <2>1 DEF Config!Discarded, EtcInv, AsideOk
  <2>3. aside # None => aside.ships \in Defaults
    BY DEF EtcInv, EtcTyped, Asides
  <2>4. EtcTyped'
    BY <1>1, <1>2, <2>2, <2>3 DEF EtcInv, EtcTyped
  <2>5. ASSUME ~touched, ~lost' PROVE live = None \/ \E w \in FormulaVersions : live = rack'[w]
    <3>1. Config!At("seed") /\ ~lost
      BY <1>3, <2>1, <2>5 DEF EtcInv, EtcTyped, Installs, Config!At
    <3>2. live = None \/ live \in Config!Siblings
      BY <2>5, <3>1 DEF EtcInv, FollowsOk
    <3>3. \A w \in FormulaVersions \ {run.v} : rack'[w] = rack[w]
      BY <2>2 DEF EtcInv, EtcTyped
    <3>4. aside # None => rack'[run.v] = aside.ships
      BY <1>3, <2>2 DEF EtcInv, EtcTyped
    <3> QED BY <1>3, <3>2, <3>3, <3>4 DEF Config!Siblings
  <2>6. FollowsOk'
    BY <1>1, <2>5 DEF FollowsOk, Config!At
  <2> QED BY <1>1, <1>2, <2>4, <2>6 DEF EtcInv, AsideOk, CopyOk, Config!At
<1> QED BY <1>4, <1>5

(* Between installs kegs go, and the user does what he likes. *)
LEMMA BetweenKeeps ==
  ASSUME Config!Parameters, EtcInv, Config!Cleanup \/ Config!Uninstall \/ Config!UserEdits
  PROVE  EtcInv'
<1>1. run' = run /\ Config!At("idle") /\ Config!At("idle")' /\ aside' = None
  BY DEF Config!Cleanup, Config!Uninstall, Config!UserEdits, EtcInv, AsideOk, Config!At
<1>2. EtcTyped'
  <2>1. rack' \in [FormulaVersions -> Defaults \cup {None}]
    BY DEF Config!Cleanup, Config!Uninstall, Config!UserEdits, EtcInv, EtcTyped
  <2>2. live' \in Config!Contents \cup {None}
    BY DEF Config!Cleanup, Config!Uninstall, Config!UserEdits, EtcInv, EtcTyped
  <2> QED BY <1>1, <2>1, <2>2 DEF EtcInv, EtcTyped
<1>3. AsideOk' /\ CopyOk'
  BY <1>1 DEF AsideOk, CopyOk, Config!At
<1>4. CASE Config!Cleanup
  <2>1. PICK v \in FormulaVersions :
          /\ rack' = [w \in FormulaVersions |-> IF w < v THEN None ELSE rack[w]]
          /\ lost' = (lost \/ \E w \in FormulaVersions : w < v /\ rack[w] = live)
    BY <1>4 DEF Config!Cleanup
  <2>2. ASSUME NEW w \in FormulaVersions, live = rack[w], ~lost' PROVE live = rack'[w]
    BY <2>1, <2>2
  <2>3. live' = live /\ touched' = touched /\ (lost => lost')
    BY <1>4, <2>1 DEF Config!Cleanup
  <2> QED BY <1>1, <1>2, <1>3, <2>2, <2>3 DEF EtcInv, FollowsOk, Config!At
<1>5. CASE Config!Uninstall \/ Config!UserEdits
  BY <1>1, <1>2, <1>3, <1>5 DEF Config!Uninstall, Config!UserEdits, EtcInv, FollowsOk
<1> QED BY <1>4, <1>5

(* All that happens to the file keeps the invariant. *)
LEMMA EtcKeeps == Config!Parameters /\ EtcInv /\ [Config!Next]_ConfigVars => EtcInv'
<1> SUFFICES ASSUME Config!Parameters, EtcInv, [Config!Next]_ConfigVars PROVE EtcInv'
  OBVIOUS
<1>1. CASE UNCHANGED ConfigVars
  BY <1>1 DEF ConfigVars, EtcInv, EtcTyped, AsideOk, CopyOk, FollowsOk, Config!At, Config!Ships, Config!Siblings
<1> QED BY <1>1, PourKeeps, SeedKeeps, EndKeeps, BetweenKeeps DEF Config!Next

(* The defaults are where they should be. *)
LEMMA DefaultsFollow == EtcInv => Config!DefaultIsThere /\ Config!UntouchedFollows
BY DEF EtcInv, CopyOk, FollowsOk, Config!DefaultIsThere, Config!UntouchedFollows

(* An install touches what the user made of the file neither before its copy nor with it. *)
LEMMA ConfigIsKept == Config!Parameters /\ EtcInv /\ [Config!Next]_ConfigVars => Config!UserConfigKeptStep
<1> SUFFICES ASSUME Config!Parameters, EtcInv, [Config!Next]_ConfigVars, live = Edited, live' # Edited PROVE Config!UserEdits
  BY DEF Config!UserConfigKeptStep
<1>1. CASE Config!Removed
  <2>1. Config!Siblings \subseteq Defaults \cup {None} /\ Config!Ships \in Defaults
    BY <1>1, SiblingsAre DEF Config!Removed, EtcInv, EtcTyped, AsideOk, Config!Ships, Config!At
  <2>2. Config!DestinationFor # "live"
    BY <2>1 DEF Config!DestinationFor, Config!Identical, Config!MatchesASiblingsDefault, Config!Parameters, Config!Contents
  <2> QED BY <1>1, <2>2 DEF Config!Removed
<1>2. CASE Config!Copied
  BY <1>2 DEF Config!Copied, EtcInv, CopyOk, Config!Parameters, Config!Contents
<1>3. CASE UNCHANGED ConfigVars \/ Config!Finish \/ Config!Fail \/ Config!Cleanup \/ Config!Uninstall \/ \E v \in FormulaVersions, ships \in Defaults : Config!Pour(v, ships)
  BY <1>3 DEF ConfigVars, Config!Finish, Config!Fail, Config!Cleanup, Config!Uninstall, Config!Pour
<1> QED BY <1>1, <1>2, <1>3 DEF Config!Next

-------------------------------------------------------------------------------
(* The keg *)
All == DOMAIN poured
One(m, n) == poured[m].ino = poured[n].ino
Mates(n) == {m \in All : One(m, n)}
Spread(S) == {n \in All : \E d \in S : One(d, n)}

KegTyped ==
  /\ poured \in PouredKegs /\ keg \in [All -> Reloc!Files] /\ todo \subseteq All /\ dirty \subseteq All
  /\ \A n \in All : keg[n].kind = poured[n].kind /\ keg[n].holds \subseteq poured[n].holds

(* Names of one inode are one file and were one; those outside of S that were still are. *)
Disjoint == \A m, n \in All : keg[m].ino = keg[n].ino => One(m, n) /\ keg[m] = keg[n]
Alike(S) == \A m, n \in All \ S : One(m, n) => keg[m] = keg[n]
Closed(S) == \A m, n \in All : m \in S /\ One(m, n) => n \in S
(* Outside of S what is there may stay, and what was changed is signed. *)
Clean(what, S) == \A n \in All \ S : what \in keg[n].holds => Reloc!MayHold(n, what)
SignedBut(S) == \A n \in All \ S : keg[n].kind = "macho" => keg[n].signed \/ n \in reported

TextInv ==
  /\ Closed(todo) /\ Closed(dirty) /\ dirty \subseteq todo
  /\ Alike(dirty) /\ Clean("text", todo) /\ SignedBut({})
  /\ \A m, n \in dirty : One(m, n)
  /\ dirty # {} => "text" \notin keg[Reloc!Head(dirty)].holds
LinkageInv ==
  Alike({}) /\ Clean("text", {}) /\ (failed \/ Clean("linkage", Spread(todo))) /\ SignedBut(Spread(dirty))
SignInv ==
  Alike({}) /\ Clean("text", {}) /\ (failed \/ Clean("linkage", {})) /\ SignedBut(Spread(todo))
BuiltInv ==
  dirty = {} /\ Alike({}) /\ Clean("text", {}) /\ Clean("linkage", {}) /\ SignedBut({})
PatchInv ==
  /\ Closed(dirty) /\ Alike(dirty) /\ Clean("text", {}) /\ Clean("linkage", {})
  /\ Clean("built", todo \cup dirty) /\ SignedBut(dirty)
  /\ \A d \in dirty : "built" \notin keg[Reloc!Head(Mates(d))].holds
LastSigned ==
  \A d \in dirty : LET f == Reloc!Head(Mates(d)) IN
    keg[f].kind = "macho" => keg[f].signed \/ f \in reported \/ f \in todo
DoneInv == BuiltInv /\ Clean("built", {})

(* The names of a file are passed over together. *)
Passed == \A what \in {"text", "linkage", "built"} : \A m, n \in All :
  <<m, what>> \in unread /\ One(m, n) => <<n, what>> \in unread

(* What is known of the keg at each step, as long as no link was lost. *)
Places == {"start", "text", "linkage", "sign", "built", "patch", "sign built", "symlinks", "done", "discard", "gone"}
KegInv ==
  /\ pc \in Places
  /\ pc # "gone" => KegTyped /\ Disjoint /\ Closed(reported)
  /\ pc = "start" => todo = {} /\ dirty = {} /\ Alike({}) /\ SignedBut({})
  /\ pc = "text" => TextInv
  /\ pc = "linkage" => LinkageInv
  /\ pc = "sign" => SignInv
  /\ pc = "built" => BuiltInv
  /\ pc = "patch" => PatchInv /\ Closed(todo) /\ todo \cap dirty = {}
  /\ pc = "sign built" => PatchInv /\ LastSigned /\ todo \subseteq Reloc!Firsts(dirty)
  /\ pc \in {"symlinks", "done"} => DoneInv
  /\ pc = "discard" /\ dirty = {} => SignedBut({})
SymlinkInv ==
  pc = "done" /\ ~(bottle.prefix /\ bottle.cellarpath) =>
    symlink \notin {"build cellar", "build prefix"} \/ <<None, "symlink">> \in unread
RelocInv == (~apart => KegInv /\ Passed) /\ SymlinkInv

-------------------------------------------------------------------------------
(* Finite sets of numbers have a least and a greatest one. *)
LEMMA ExtremesExist ==
  ASSUME NEW S \in SUBSET Nat, IsFiniteSet(S), S # {}
  PROVE  /\ \E i \in S : \A k \in S : i <= k
         /\ \E i \in S : \A k \in S : i >= k
<1> DEFINE Below(i) == {k \in S : k < i}
           Above(i) == {k \in S : k > i}
           B == {Below(i) : i \in S}
           A == {Above(i) : i \in S}
<1>1. IsWellFoundedOn(StrictSubsetOrdering(S), SUBSET S)
  BY FS_StrictSubsetOrderingWellFounded, FS_FiniteSubsetsOfFinite
<1>0. \A i \in S : i \in Nat
  OBVIOUS
<1>2. \E i \in S : \A k \in S : i <= k
  <2>1. \E x \in B : \A y \in B : <<y, x>> \notin StrictSubsetOrdering(S)
    <3>1. B \subseteq SUBSET S /\ B # {}
      OBVIOUS
    <3> HIDE DEF B
    <3> QED BY <1>1, <3>1, WFMin
  <2>2. PICK i \in S : \A k \in S : <<Below(k), Below(i)>> \notin StrictSubsetOrdering(S)
    BY <2>1
  <2>3. ASSUME NEW k \in S, k < i PROVE FALSE
    <3>1. Below(k) \subseteq Below(i) /\ k \in Below(i) /\ k \notin Below(k)
      <4>1. \A j \in S : j < k => j < i
        BY <1>0, <2>3
      <4>2. ~(k < k)
        BY <1>0
      <4> QED BY <4>1, <4>2, <2>3
    <3>2. Below(k) # Below(i) /\ Below(k) \in SUBSET S /\ Below(i) \in SUBSET S
      BY <3>1
    <3>3. <<Below(k), Below(i)>> \in StrictSubsetOrdering(S)
      <4> HIDE DEF Below
      <4> QED BY <3>1, <3>2 DEF StrictSubsetOrdering
    <3> QED BY <2>2, <3>3
  <2>4. \A k \in S : i <= k
    <3> SUFFICES ASSUME NEW k \in S PROVE i <= k
      OBVIOUS
    <3> QED BY <1>0, <2>3
  <2> QED BY <2>4
<1>3. \E i \in S : \A k \in S : i >= k
  <2>1. \E x \in A : \A y \in A : <<y, x>> \notin StrictSubsetOrdering(S)
    <3>1. A \subseteq SUBSET S /\ A # {}
      OBVIOUS
    <3> HIDE DEF A
    <3> QED BY <1>1, <3>1, WFMin
  <2>2. PICK i \in S : \A k \in S : <<Above(k), Above(i)>> \notin StrictSubsetOrdering(S)
    BY <2>1
  <2>3. ASSUME NEW k \in S, k > i PROVE FALSE
    <3>1. Above(k) \subseteq Above(i) /\ k \in Above(i) /\ k \notin Above(k)
      <4>1. \A j \in S : j > k => j > i
        BY <1>0, <2>3
      <4>2. ~(k > k)
        BY <1>0
      <4> QED BY <4>1, <4>2, <2>3
    <3>2. Above(k) # Above(i) /\ Above(k) \in SUBSET S /\ Above(i) \in SUBSET S
      BY <3>1
    <3>3. <<Above(k), Above(i)>> \in StrictSubsetOrdering(S)
      <4> HIDE DEF Above
      <4> QED BY <3>1, <3>2 DEF StrictSubsetOrdering
    <3> QED BY <2>2, <3>3
  <2>4. \A k \in S : i >= k
    <3> SUFFICES ASSUME NEW k \in S PROVE i >= k
      OBVIOUS
    <3> QED BY <1>0, <2>3
  <2> QED BY <2>4
<1> QED BY <1>2, <1>3

(* The files of a bottle. *)
LEMMA PouredIs ==
  ASSUME Reloc!Parameters, poured \in PouredKegs
  PROVE  /\ None \notin Reloc!Files
         /\ IsFiniteSet(All) /\ All \subseteq Nat /\ poured \in [All -> Reloc!Files]
         /\ \A n \in All : "linkage" \in poured[n].holds => poured[n].kind = "macho"
         /\ \A n \in All : poured[n].kind = "macho" => poured[n].signed
         /\ \A m, n \in All : One(m, n) => poured[m] = poured[n]
BY FiniteSetsAreThose DEF Reloc!Parameters, All, One

(* The first of some names is one of them. *)
LEMMA HeadIs ==
  ASSUME Reloc!Parameters, poured \in PouredKegs, NEW S \in SUBSET All, S # {}
  PROVE  Reloc!Head(S) \in S
<1>1. IsFiniteSet(S) /\ S \in SUBSET Nat
  BY PouredIs, FS_Subset
<1>2. \E i \in S : \A k \in S : i <= k
  BY <1>1, ExtremesExist
<1> QED BY <1>2 DEF Reloc!Head, Reloc!Min

LEMMA MatesAre ==
  ASSUME NEW n \in All
  PROVE  /\ n \in Mates(n) /\ Mates(n) \subseteq All
         /\ \A m \in Mates(n) : One(m, n) /\ Mates(m) = Mates(n)
BY DEF Mates, One
LEMMA FirstMate ==
  ASSUME Reloc!Parameters, poured \in PouredKegs, NEW n \in All
  PROVE  LET f == Reloc!Head(Mates(n)) IN f \in All /\ One(f, n) /\ Mates(f) = Mates(n)
BY MatesAre, HeadIs

(* Nothing is missing, so that an inode is all its names. *)
LEMMA AllThere ==
  ASSUME Reloc!Parameters, KegTyped
  PROVE  Reloc!There = All /\ DOMAIN keg = All /\ \A n \in All : Reloc!SameInode(n) = {m \in All : keg[m].ino = keg[n].ino}
<1>1. DOMAIN keg = All /\ \A n \in All : keg[n] # None
  BY PouredIs DEF KegTyped, All
<1> QED BY <1>1 DEF Reloc!There, Reloc!SameInode
LEMMA InodeIs ==
  ASSUME Reloc!Parameters, KegTyped, Disjoint, NEW S, Alike(S), Closed(S), NEW n \in All \ S
  PROVE  Reloc!SameInode(n) = Mates(n)
BY AllThere DEF Disjoint, Alike, Closed, Mates, One, KegTyped

(* A new inode is nobody's. *)
LEMMA FreshIs ==
  ASSUME Reloc!Parameters, KegTyped
  PROVE  Reloc!Fresh \in Nat /\ \A n \in All : keg[n].ino # Reloc!Fresh
<1> DEFINE S == {0} \cup {keg[n].ino : n \in Reloc!There}
<1>1. S \in SUBSET Nat /\ S # {} /\ \A n \in All : keg[n].ino \in S
  BY AllThere DEF KegTyped, Reloc!Files
<1>2. IsFiniteSet(S)
  <2> DEFINE T == {keg[n].ino : n \in Reloc!There}
             f == [n \in All |-> keg[n].ino]
  <2>1. f \in Surjection(All, T)
    BY AllThere DEF Surjection
  <2>2. IsFiniteSet(T)
    <3> HIDE DEF f, T
    <3> QED BY <2>1, PouredIs, FS_Surjection DEF KegTyped
  <2> QED BY <2>2, FS_Singleton, FS_Union
<1>3. PICK i \in S : \A k \in S : i >= k
  BY <1>1, <1>2, ExtremesExist
<1> HIDE DEF S
<1>4. Reloc!Max(S) \in S /\ \A k \in S : Reloc!Max(S) >= k
  BY <1>3 DEF Reloc!Max
<1>5. Reloc!Fresh = 1 + Reloc!Max(S)
  BY DEF Reloc!Fresh, S
<1>6. \A k \in S : k \in Nat /\ k # Reloc!Fresh
  <2> SUFFICES ASSUME NEW k \in S PROVE k \in Nat /\ k # Reloc!Fresh
    OBVIOUS
  <2>1. k \in Nat /\ Reloc!Max(S) \in Nat /\ Reloc!Max(S) >= k
    BY <1>1, <1>4
  <2> QED BY <2>1, <1>5
<1> QED BY <1>1, <1>4, <1>5, <1>6

(* What the edits make of a file. *)
LEMMA EditIs ==
  ASSUME NEW f \in Reloc!Files
  PROVE  /\ \A what : LET g == Reloc!Without(f, what) IN
                      g \in Reloc!Files /\ g.ino = f.ino /\ g.kind = f.kind /\ g.signed = f.signed
                      /\ g.holds = f.holds \ {what}
         /\ LET g == Reloc!Unsigned(f) IN
            g \in Reloc!Files /\ g.ino = f.ino /\ g.kind = f.kind /\ ~g.signed /\ g.holds = f.holds
         /\ LET g == [f EXCEPT !.signed = TRUE] IN
            g \in Reloc!Files /\ g.ino = f.ino /\ g.kind = f.kind /\ g.signed /\ g.holds = f.holds
         /\ \A i \in Nat : LET g == [f EXCEPT !.ino = i] IN
                           g \in Reloc!Files /\ g.ino = i /\ g.kind = f.kind /\ g.signed = f.signed
                           /\ g.holds = f.holds
BY DEF Reloc!Files, Reloc!Without, Reloc!Unsigned

(* What a write does to the names of a keg: atomic_write changes one of them,
   a write in place all that are the same file. *)
LEMMA AtomicIs ==
  ASSUME Reloc!Parameters, KegTyped, Disjoint, poured' = poured,
         NEW n \in All, NEW f \in Reloc!Files, f.kind = keg[n].kind, f.holds \subseteq keg[n].holds,
         keg' = Reloc!Atomic(n, f)
  PROVE  /\ keg' \in [All -> Reloc!Files] /\ \A m \in All : m # n => keg'[m] = keg[m]
         /\ keg'[n].kind = f.kind /\ keg'[n].holds = f.holds /\ keg'[n].signed = f.signed
         /\ \A m \in All : keg'[m].kind = poured[m].kind /\ keg'[m].holds \subseteq poured[m].holds
         /\ Disjoint'
<1> DEFINE g == [f EXCEPT !.ino = Reloc!Fresh]
<1>1. g \in Reloc!Files /\ g.ino = Reloc!Fresh /\ g.kind = f.kind /\ g.holds = f.holds /\ g.signed = f.signed
  <2>1. Reloc!Fresh \in Nat
    BY FreshIs
  <2> QED BY <2>1 DEF Reloc!Files
<1>2. keg' = [keg EXCEPT ![n] = g] /\ keg \in [All -> Reloc!Files]
  BY DEF Reloc!Atomic, KegTyped
<1> HIDE DEF g
<1>3. keg' \in [All -> Reloc!Files] /\ keg'[n] = g /\ \A m \in All : m # n => keg'[m] = keg[m]
  BY <1>1, <1>2
<1>4. \A m \in All : keg'[m].kind = poured[m].kind /\ keg'[m].holds \subseteq poured[m].holds
  BY <1>1, <1>3 DEF KegTyped
<1>5. Disjoint'
  <2> SUFFICES ASSUME NEW i \in All, NEW k \in All, keg'[i].ino = keg'[k].ino
               PROVE  poured[i].ino = poured[k].ino /\ keg'[i] = keg'[k]
    BY DEF Disjoint, All, One
  <2>1. \A m \in All : keg[m].ino # Reloc!Fresh
    BY FreshIs
  <2> QED BY <1>1, <1>3, <2>1 DEF Disjoint, One
<1> QED BY <1>1, <1>3, <1>4, <1>5

LEMMA InPlaceIs ==
  ASSUME Reloc!Parameters, KegTyped, Disjoint, poured' = poured,
         NEW n \in All, NEW f \in Reloc!Files, f.ino = keg[n].ino, f.kind = keg[n].kind, f.holds \subseteq keg[n].holds,
         keg' = Reloc!InPlace(n, f)
  PROVE  /\ keg' \in [All -> Reloc!Files] /\ n \in Reloc!SameInode(n) /\ Reloc!SameInode(n) \subseteq Mates(n)
         /\ \A m \in All : keg'[m] = IF m \in Reloc!SameInode(n) THEN f ELSE keg[m]
         /\ \A m \in All : keg'[m].kind = poured[m].kind /\ keg'[m].holds \subseteq poured[m].holds
         /\ Disjoint'
<1>1. DOMAIN keg = All /\ keg \in [All -> Reloc!Files] /\ Reloc!SameInode(n) = {m \in All : keg[m].ino = keg[n].ino}
  BY AllThere DEF KegTyped
<1>2. keg' \in [All -> Reloc!Files] /\ \A m \in All : keg'[m] = IF m \in Reloc!SameInode(n) THEN f ELSE keg[m]
  BY <1>1 DEF Reloc!InPlace
<1>3. n \in Reloc!SameInode(n) /\ Reloc!SameInode(n) \subseteq Mates(n)
  BY <1>1 DEF Disjoint, Mates, One
<1>4. ASSUME NEW m \in Reloc!SameInode(n) PROVE m \in All /\ poured[m] = poured[n] /\ keg[m].ino = keg[n].ino
  BY <1>1, <1>3, PouredIs, MatesAre, <1>4 DEF Mates, One, KegTyped
<1>5. \A m \in All : keg'[m].kind = poured[m].kind /\ keg'[m].holds \subseteq poured[m].holds
  <2> SUFFICES ASSUME NEW m \in All PROVE keg'[m].kind = poured[m].kind /\ keg'[m].holds \subseteq poured[m].holds
    OBVIOUS
  <2> QED BY <1>2, <1>4 DEF KegTyped
<1>6. \A m \in All : keg'[m].ino = keg[m].ino
  BY <1>2, <1>4
<1>7. Disjoint'
  <2> SUFFICES ASSUME NEW i \in All, NEW k \in All, keg[i].ino = keg[k].ino
               PROVE  poured[i].ino = poured[k].ino /\ keg'[i] = keg'[k]
    BY <1>6 DEF Disjoint, All, One
  <2> QED BY <1>1, <1>2 DEF Disjoint, One
<1> QED BY <1>2, <1>3, <1>5, <1>7

(* What may stay is a matter of the bottle. *)
LEMMA MayHoldSame ==
  ASSUME poured' = poured, bottle' = bottle, unread \subseteq unread', NEW n, NEW what, Reloc!MayHold(n, what)
  PROVE  Reloc!MayHold(n, what)'
BY DEF Reloc!MayHold, Reloc!Exempt, Reloc!NeedsBuildPrefix, Reloc!IsText
LEMMA MayHoldIs ==
  ASSUME Passed, NEW n \in All, NEW m \in All, One(m, n), poured[m] = poured[n],
         NEW what \in {"text", "linkage", "built"}, Reloc!MayHold(m, what)
  PROVE  Reloc!MayHold(n, what)
BY DEF Passed, Reloc!MayHold, Reloc!Exempt, Reloc!NeedsBuildPrefix, Reloc!IsText

(* What is clean stays clean when files come to hold less. *)
LEMMA CleanStays ==
  ASSUME KegTyped, poured' = poured, bottle' = bottle, unread \subseteq unread',
         \A n \in All : keg'[n].holds \subseteq keg[n].holds, NEW what, NEW S, Clean(what, S), NEW T, T' = T, S \subseteq T
  PROVE  Clean(what, T)'
<1> SUFFICES ASSUME NEW n \in All \ T, what \in keg'[n].holds PROVE Reloc!MayHold(n, what)'
  BY DEF Clean, All
<1> QED BY MayHoldSame DEF Clean

(* The names of a file that was recorded are found by the first of them. *)
LEMMA FirstIsRecorded ==
  ASSUME Reloc!Parameters, poured \in PouredKegs, NEW n \in All, NEW what, what \in poured[n].holds, ~Reloc!IsText(poured[n]),
         what \in {"linkage", "built"}
  PROVE  Reloc!Head(Mates(n)) \in Reloc!OneName(Reloc!Recorded(what))
<1> DEFINE f == Reloc!Head(Mates(n))
<1>1. f \in All /\ One(f, n) /\ Mates(f) = Mates(n)
  BY FirstMate
<1>2. Mates(n) \subseteq Reloc!Recorded(what)
  <2> SUFFICES ASSUME NEW m \in Mates(n) PROVE m \in Reloc!Recorded(what)
    OBVIOUS
  <2>1. m \in All /\ One(m, n)
    BY MatesAre
  <2>2. poured[m] = poured[n]
    BY <2>1, PouredIs
  <2> QED BY <2>1, <2>2 DEF Reloc!Recorded, All
<1>3. {m \in Reloc!Recorded(what) : poured[m].ino = poured[f].ino} = Mates(n)
  BY <1>1, <1>2 DEF Mates, One, Reloc!Recorded, All
<1>4. f \in Reloc!Recorded(what)
  BY <1>1, <1>2 DEF Mates
<1> HIDE DEF f
<1> QED
  <2>1. Reloc!Head({m \in Reloc!Recorded(what) : poured[m].ino = poured[f].ino}) = f
    BY <1>3 DEF f
  <2>2. f \in Reloc!OneName(Reloc!Recorded(what))
    BY <2>1, <1>4 DEF Reloc!OneName
  <2> QED BY <2>2 DEF f

LEMMA WhatAFileHolds ==
  ASSUME Reloc!Parameters, KegTyped, NEW n \in All
  PROVE  /\ "linkage" \in keg[n].holds => poured[n].kind = "macho" /\ ~Reloc!IsText(poured[n])
         /\ \A what \in keg[n].holds : what \in {"text", "linkage", "built"} /\ what \in poured[n].holds
         /\ Reloc!IsText(keg[n]) = Reloc!IsText(poured[n])
BY PouredIs DEF KegTyped, Reloc!Files, Reloc!IsText

(* Where each step looks: what is not among its names holds nothing it is to change. *)
LEMMA TextTargetsAre ==
  ASSUME Reloc!Parameters, KegTyped, Disjoint, Alike({})
  PROVE  Reloc!TextTargets \subseteq All /\ Closed(Reloc!TextTargets) /\ Clean("text", Reloc!TextTargets)
<1>0. Reloc!There = All /\ \A m, n \in All : One(m, n) => keg[m] = keg[n] /\ poured[m] = poured[n]
  BY AllThere, PouredIs DEF Alike, KegTyped
<1>1. CASE bottle.changed
  <2>1. Reloc!TextTargets = {n \in All : "text" \in poured[n].holds /\ Reloc!IsText(poured[n])}
    BY <1>0, <1>1 DEF Reloc!TextTargets, Reloc!KegFiles, Reloc!Recorded, All
  <2>2. Closed(Reloc!TextTargets)
    BY <1>0, <2>1 DEF Closed
  <2>3. Clean("text", Reloc!TextTargets)
    BY <2>1, WhatAFileHolds DEF Clean, Reloc!MayHold, Reloc!Exempt
  <2> QED BY <2>1, <2>2, <2>3
<1>2. CASE ~bottle.changed
  <2>1. Reloc!TextTargets = {n \in All : Reloc!IsText(keg[n]) /\ keg[n].kind # "metafile"}
    BY <1>0, <1>2 DEF Reloc!TextTargets, Reloc!ScanTextFiles
  <2>2. Closed(Reloc!TextTargets)
    BY <1>0, <2>1 DEF Closed
  <2>3. Clean("text", Reloc!TextTargets)
    BY <2>1, <1>2, WhatAFileHolds DEF Clean, Reloc!MayHold, Reloc!Exempt, KegTyped
  <2> QED BY <2>1, <2>2, <2>3
<1> QED BY <1>1, <1>2

LEMMA LinkageTargetsAre ==
  ASSUME Reloc!Parameters, KegTyped, Disjoint, Alike({})
  PROVE  Reloc!LinkageTargets \subseteq All /\ Clean("linkage", Spread(Reloc!LinkageTargets))
<1>0. Reloc!There = All /\ poured \in PouredKegs
  BY AllThere DEF KegTyped
<1>1. Reloc!LinkageTargets \subseteq All
  BY <1>0 DEF Reloc!LinkageTargets, Reloc!KegFiles, Reloc!MachOFiles
<1>2. ASSUME NEW n \in All, "linkage" \in keg[n].holds PROVE n \in Spread(Reloc!LinkageTargets)
  <2> DEFINE f == Reloc!Head(Mates(n))
  <2>1. f \in All /\ One(f, n) /\ Mates(f) = Mates(n)
    BY <1>0, FirstMate
  <2>2. CASE bottle.linkage
    <3>1. f \in Reloc!OneName(Reloc!Recorded("linkage"))
      BY <1>0, <1>2, WhatAFileHolds, FirstIsRecorded
    <3> QED BY <3>1, <1>0, <2>1, <2>2 DEF Reloc!LinkageTargets, Reloc!KegFiles, Spread
  <2>3. CASE ~bottle.linkage
    <3>1. Reloc!SameInode(f) = Mates(n)
      <4>1. Closed({}) /\ f \in All \ {}
        BY <2>1 DEF Closed
      <4> HIDE DEF f
      <4> QED BY <4>1, <2>1, InodeIs
    <3>2. keg[f].kind = "macho"
      BY <1>0, <1>2, <2>1, WhatAFileHolds, PouredIs DEF KegTyped
    <3> QED BY <3>1, <3>2, <1>0, <2>1, <2>3 DEF Reloc!LinkageTargets, Reloc!MachOFiles, Spread
  <2> QED BY <2>2, <2>3
<1> QED BY <1>1, <1>2 DEF Clean

LEMMA CandidatesAre ==
  ASSUME Reloc!Parameters, KegTyped, Disjoint, Alike({})
  PROVE  Reloc!Candidates \subseteq All /\ Closed(Reloc!Candidates) /\ Clean("built", Reloc!Candidates)
<1>0. Reloc!There = All /\ poured \in PouredKegs /\ \A n \in All : Reloc!SameInode(n) = Mates(n)
  <2>1. Closed({})
    BY DEF Closed
  <2> QED BY <2>1, AllThere, InodeIs DEF KegTyped
<1>1. CASE bottle.binary
  <2>0. Reloc!Candidates = UNION {Reloc!SameInode(n) : n \in Reloc!KegFiles(Reloc!OneName(Reloc!Recorded("built")))}
    BY <1>1 DEF Reloc!Candidates
  <2> DEFINE K == Reloc!KegFiles(Reloc!OneName(Reloc!Recorded("built")))
  <2>1. K \subseteq All
    BY <1>0 DEF Reloc!KegFiles
  <2> HIDE DEF K
  <2>2. Reloc!Candidates = UNION {Mates(n) : n \in K}
    BY <1>0, <2>0, <2>1 DEF K
  <2>3. Reloc!Candidates \subseteq All /\ Closed(Reloc!Candidates)
    BY <2>1, <2>2 DEF Mates, Closed, One
  <2>4. ASSUME NEW n \in All, "built" \in keg[n].holds, ~Reloc!IsText(poured[n]) PROVE n \in Reloc!Candidates
    <3> DEFINE f == Reloc!Head(Mates(n))
    <3>1. f \in All /\ One(f, n) /\ Mates(f) = Mates(n)
      BY <1>0, FirstMate
    <3>2. f \in K
      <4>1. f \in Reloc!OneName(Reloc!Recorded("built"))
        BY <1>0, <2>4, WhatAFileHolds, FirstIsRecorded
      <4> QED BY <4>1, <3>1, <1>0 DEF K, Reloc!KegFiles
    <3>3. n \in Mates(f)
      BY <3>1, MatesAre
    <3> HIDE DEF f
    <3> QED BY <2>2, <3>2, <3>3
  <2>5. Clean("built", Reloc!Candidates)
    BY <2>4 DEF Clean, Reloc!MayHold, Reloc!Exempt
  <2> QED BY <2>3, <2>5
<1>2. CASE ~bottle.binary
  BY <1>0, <1>2 DEF Reloc!Candidates, Reloc!FilesContaining, Reloc!Holds, Closed, Clean, Alike
<1> QED BY <1>1, <1>2

-------------------------------------------------------------------------------
(* Steps that leave the keg alone keep what is known of it. *)
Same == keg' = keg /\ poured' = poured /\ bottle' = bottle /\ reported' = reported /\ unread' = unread
LEMMA SameKeg ==
  ASSUME KegTyped, Disjoint, Closed(reported), keg' = keg, poured' = poured, reported' = reported, todo' \subseteq All, dirty' \subseteq All
  PROVE  KegTyped' /\ Disjoint' /\ Closed(reported)'
BY DEF KegTyped, Disjoint, Closed, All, One

(* A name that is not listed is passed over; so are the others of its inode. *)
LEMMA ListedIs ==
  ASSUME Reloc!Parameters, KegTyped, Disjoint, Alike({}), poured' = poured, NEW step, NEW names \in SUBSET All,
         NEW missed \in SUBSET names, NEW what, Reloc!Listed(step, names, missed, what)
  PROVE  /\ pc' = step /\ todo' = names \ missed /\ todo' \subseteq All /\ unread \subseteq unread'
         /\ \A n \in missed : \A m \in All : One(n, m) => <<m, what>> \in unread'
         /\ Closed(names) /\ ~Reloc!Parted(missed) => Closed(names \ missed)
         /\ Passed => Passed'
<1>1. \A n \in missed : Reloc!SameInode(n) = Mates(n)
  <2>1. Closed({}) /\ missed \subseteq All \ {}
    BY DEF Closed
  <2> QED BY <2>1, InodeIs
<1>2. pc' = step /\ todo' = names \ missed /\ unread' = unread \cup {<<m, what>> : m \in UNION {Reloc!SameInode(n) : n \in missed}}
  BY DEF Reloc!Listed, Reloc!Goto, Reloc!PassOver
<1>3. \A n \in missed : \A m \in All : One(n, m) => m \in UNION {Reloc!SameInode(k) : k \in missed}
  <2> SUFFICES ASSUME NEW n \in missed, NEW m \in All, One(n, m) PROVE m \in Reloc!SameInode(n)
    OBVIOUS
  <2> QED BY <1>1 DEF Mates, One
<1>4. Closed(names) /\ ~Reloc!Parted(missed) => Closed(names \ missed)
  BY <1>1 DEF Reloc!Parted, Closed, Mates, One
<1>5. Passed => Passed'
  <2> SUFFICES ASSUME Passed, NEW w \in {"text", "linkage", "built"}, NEW m \in All, NEW n \in All,
                      <<m, w>> \in unread', One(m, n)
               PROVE  <<n, w>> \in unread'
    BY DEF Passed, All, One
  <2>1. CASE <<m, w>> \in unread
    BY <1>2, <2>1 DEF Passed
  <2>2. CASE <<m, w>> \notin unread
    <3>1. PICK k \in missed : m \in Reloc!SameInode(k) /\ w = what
      BY <1>2, <2>2
    <3>2. One(k, n)
      BY <1>1, <3>1 DEF Mates, One
    <3> QED BY <1>2, <1>3, <3>1, <3>2
  <2> QED BY <2>1, <2>2
<1> QED BY <1>2, <1>3, <1>4, <1>5

LEMMA ListTextKeeps ==
  ASSUME Reloc!Parameters, KegInv, Reloc!ListText, ~apart' PROVE KegInv'
<1>1. pc = "start" /\ dirty = {} /\ KegTyped /\ Disjoint /\ Closed(reported) /\ Alike({}) /\ SignedBut({})
  BY DEF Reloc!ListText, KegInv
<1>2. keg' = keg /\ poured' = poured /\ bottle' = bottle /\ reported' = reported /\ dirty' = dirty
  BY DEF Reloc!ListText
<1>3. PICK missed \in SUBSET Reloc!TextTargets :
        Reloc!Listed("text", Reloc!TextTargets, missed, "text") /\ ~Reloc!Parted(missed)
  BY DEF Reloc!ListText
<1>4. Reloc!TextTargets \subseteq All /\ Closed(Reloc!TextTargets) /\ Clean("text", Reloc!TextTargets)
  BY <1>1, TextTargetsAre
<1>5. /\ pc' = "text" /\ todo' = Reloc!TextTargets \ missed /\ todo' \subseteq All /\ unread \subseteq unread'
      /\ \A n \in missed : \A m \in All : One(n, m) => <<m, "text">> \in unread'
      /\ Closed(Reloc!TextTargets \ missed)
  BY <1>1, <1>2, <1>3, <1>4, ListedIs
<1>6. KegTyped' /\ Disjoint' /\ Closed(reported)'
  BY <1>1, <1>2, <1>5, SameKeg DEF KegTyped
<1>7. Clean("text", todo)'
  <2> SUFFICES ASSUME NEW m \in All, m \notin Reloc!TextTargets \ missed, "text" \in keg[m].holds PROVE Reloc!MayHold(m, "text")'
    BY <1>2, <1>5 DEF Clean, All
  <2>1. CASE m \in missed
    BY <1>5, <2>1 DEF One, Reloc!MayHold
  <2>2. CASE m \notin missed
    BY <1>2, <1>4, <1>5, <2>2, MayHoldSame DEF Clean
  <2> QED BY <2>1, <2>2
<1>8. TextInv'
  <2>1. Closed(todo)' /\ Closed(dirty)' /\ Alike(dirty)' /\ SignedBut({})'
    BY <1>1, <1>2, <1>5 DEF Closed, Alike, SignedBut, All, One
  <2> QED BY <1>1, <1>2, <1>7, <2>1 DEF TextInv
<1> QED BY <1>5, <1>6, <1>8 DEF KegInv, Places

LEMMA TextDoneKeeps ==
  ASSUME Reloc!Parameters, KegInv, Reloc!TextDone PROVE KegInv'
<1>1. pc = "text" /\ todo = {} /\ KegTyped /\ Disjoint /\ Closed(reported) /\ TextInv
  BY DEF Reloc!TextDone, KegInv
<1>2. keg' = keg /\ poured' = poured /\ bottle' = bottle /\ reported' = reported /\ UNCHANGED <<dirty, failed>>
  BY DEF Reloc!TextDone
<1>3. dirty = {} /\ Alike({}) /\ Clean("text", {}) /\ SignedBut({})
  BY <1>1 DEF TextInv
<1>4. CASE bottle.cellar = "any_skip_relocation"
  <2>1. pc' = "built" /\ todo' = {} /\ Same
    BY <1>2, <1>4 DEF Same, Reloc!TextDone, Reloc!Goto
  <2>2. KegTyped' /\ Disjoint' /\ Closed(reported)'
    BY <1>1, <1>2, <2>1, SameKeg DEF KegTyped
  <2>3. Clean("linkage", {})
    BY <1>4 DEF Clean, Reloc!MayHold, Reloc!Exempt
  <2>4. BuiltInv'
    BY <1>2, <1>3, <2>1, <2>3 DEF Same, BuiltInv, Alike, Clean, SignedBut, Reloc!MayHold, Reloc!Exempt, Reloc!NeedsBuildPrefix, Reloc!IsText, All, One
  <2> QED BY <2>1, <2>2, <2>4 DEF KegInv, Places
<1>5. CASE bottle.cellar # "any_skip_relocation"
  <2>1. PICK missed \in SUBSET Reloc!LinkageTargets : Reloc!Listed("linkage", Reloc!LinkageTargets, missed, "linkage")
    BY <1>5 DEF Reloc!TextDone
  <2>2. Reloc!LinkageTargets \subseteq All /\ Clean("linkage", Spread(Reloc!LinkageTargets))
    BY <1>1, <1>3, LinkageTargetsAre
  <2>3. /\ pc' = "linkage" /\ todo' = Reloc!LinkageTargets \ missed /\ todo' \subseteq All /\ unread \subseteq unread'
        /\ \A n \in missed : \A m \in All : One(n, m) => <<m, "linkage">> \in unread'
    BY <1>1, <1>2, <1>3, <2>1, <2>2, ListedIs
  <2>4. KegTyped' /\ Disjoint' /\ Closed(reported)'
    BY <1>1, <1>2, <2>3, SameKeg DEF KegTyped
  <2>5. Clean("linkage", Spread(todo))'
    <3> SUFFICES ASSUME NEW m \in All, m \notin Spread(Reloc!LinkageTargets \ missed), "linkage" \in keg[m].holds
                 PROVE  Reloc!MayHold(m, "linkage")'
      BY <1>2, <2>3 DEF Clean, Spread, All, One
    <3>1. CASE m \in Spread(Reloc!LinkageTargets)
      <4>1. PICK d \in missed : One(d, m)
        BY <3>1 DEF Spread
      <4> QED BY <2>3, <4>1 DEF Reloc!MayHold
    <3>2. CASE m \notin Spread(Reloc!LinkageTargets)
      BY <1>2, <2>2, <2>3, <3>2, MayHoldSame DEF Clean
    <3> QED BY <3>1, <3>2
  <2>6. Clean("text", {})'
    BY <1>1, <1>2, <1>3, <2>3, CleanStays
  <2>7. Alike({})' /\ SignedBut(Spread(dirty))'
    BY <1>2, <1>3 DEF Alike, SignedBut, All, One
  <2> QED BY <2>3, <2>4, <2>5, <2>6, <2>7 DEF KegInv, LinkageInv, Places
<1> QED BY <1>4, <1>5

LEMMA NothingInItKeeps ==
  ASSUME Reloc!Parameters, KegInv, Reloc!NothingInIt PROVE KegInv'
<1>1. pc = "text" /\ pc' = "text" /\ dirty = {} /\ KegTyped /\ Disjoint /\ Closed(reported) /\ TextInv
  BY DEF Reloc!NothingInIt, KegInv
<1>2. Same /\ UNCHANGED <<dirty, failed>>
  BY DEF Reloc!NothingInIt, Same
<1>3. PICK n \in todo : "text" \notin keg[n].holds /\ todo' = todo \ Reloc!Group(n, todo)
  BY DEF Reloc!NothingInIt, Reloc!Holds
<1>4. Alike({}) /\ Clean("text", todo) /\ SignedBut({}) /\ Closed(todo)
  BY <1>1 DEF TextInv
<1>5. Reloc!Group(n, todo) = Mates(n) /\ n \in All
  <2>1. n \in All /\ Closed({})
    BY <1>1 DEF KegTyped, Closed
  <2>2. Reloc!SameInode(n) = Mates(n)
    BY <1>1, <1>4, <2>1, InodeIs
  <2> QED BY <1>4, <2>1, <2>2 DEF Reloc!Group, Closed, Mates, One
<1>6. todo' \subseteq All /\ Closed(todo)' /\ Clean("text", todo')
  <2>1. \A m \in Mates(n) : "text" \notin keg[m].holds
    BY <1>3, <1>4, <1>5 DEF Alike, Mates, One
  <2>2. Clean("text", todo')
    BY <2>1, <1>3, <1>4, <1>5 DEF Clean
  <2>3. Closed(todo)'
    BY <1>2, <1>3, <1>4, <1>5 DEF Same, Closed, Mates, One, All
  <2> QED BY <1>1, <1>3, <2>2, <2>3 DEF KegTyped
<1>7. KegTyped' /\ Disjoint' /\ Closed(reported)'
  BY <1>1, <1>2, <1>6, SameKeg DEF KegTyped, Same
<1>8. TextInv'
  <2>1. Clean("text", todo)' /\ Alike(dirty)' /\ SignedBut({})' /\ Closed(dirty)'
    BY <1>1, <1>2, <1>4, <1>6 DEF Same, Closed, Alike, Clean, SignedBut, Reloc!MayHold, Reloc!Exempt, Reloc!NeedsBuildPrefix, Reloc!IsText, All, One
  <2> QED BY <1>1, <1>2, <1>6, <2>1 DEF TextInv
<1> QED BY <1>1, <1>7, <1>8 DEF KegInv, Places

LEMMA LinkageDoneKeeps ==
  ASSUME Reloc!Parameters, KegInv, Reloc!LinkageDone PROVE KegInv'
<1>1. pc = "linkage" /\ pc' = "sign" /\ todo = {} /\ todo' = dirty
      /\ KegTyped /\ Disjoint /\ Closed(reported) /\ LinkageInv
  BY DEF Reloc!LinkageDone, KegInv, Reloc!Goto
<1>2. Same /\ UNCHANGED <<dirty, failed>>
  BY DEF Reloc!LinkageDone, Same
<1>3. KegTyped' /\ Disjoint' /\ Closed(reported)'
  BY <1>1, <1>2, SameKeg DEF KegTyped, Same
<1>4. SignInv'
  BY <1>1, <1>2 DEF Same, LinkageInv, SignInv, Alike, Clean, SignedBut, Spread, Reloc!MayHold, Reloc!Exempt, Reloc!NeedsBuildPrefix, Reloc!IsText, All, One
<1> QED BY <1>1, <1>3, <1>4 DEF KegInv, Places

LEMMA SignedKeeps ==
  ASSUME Reloc!Parameters, KegInv, Reloc!Signed PROVE KegInv'
<1>1. /\ pc = "sign" /\ pc' = (IF failed THEN "discard" ELSE "built") /\ todo = {} /\ todo' = {} /\ dirty' = {}
      /\ KegTyped /\ Disjoint /\ Closed(reported) /\ SignInv
  BY DEF Reloc!Signed, KegInv, Reloc!Goto
<1>2. Same /\ UNCHANGED failed
  BY DEF Reloc!Signed, Same
<1>3. KegTyped' /\ Disjoint' /\ Closed(reported)'
  BY <1>1, <1>2, SameKeg DEF KegTyped, Same
<1>4. SignedBut({})'
  BY <1>1, <1>2 DEF Same, SignInv, SignedBut, Spread, All
<1>5. ~failed => BuiltInv'
  BY <1>1, <1>2, <1>4 DEF Same, SignInv, BuiltInv, Alike, Clean, Reloc!MayHold, Reloc!Exempt, Reloc!NeedsBuildPrefix, Reloc!IsText, All, One
<1> QED BY <1>1, <1>3, <1>4, <1>5 DEF KegInv, Places

LEMMA BuiltPrefixKeeps ==
  ASSUME Reloc!Parameters, KegInv, Reloc!BuiltPrefix PROVE KegInv'
<1>1. /\ pc = "built" /\ pc' = "symlinks" /\ todo' = {} /\ ~Reloc!NeedsBuildPrefix
      /\ KegTyped /\ Disjoint /\ Closed(reported) /\ BuiltInv
  BY DEF Reloc!BuiltPrefix, KegInv, Reloc!Goto
<1>2. Same /\ dirty' = dirty
  BY DEF Reloc!BuiltPrefix, Same
<1>3. KegTyped' /\ Disjoint' /\ Closed(reported)'
  BY <1>1, <1>2, SameKeg DEF KegTyped, Same
<1>4. DoneInv'
  BY <1>1, <1>2 DEF Same, BuiltInv, DoneInv, Alike, Clean, SignedBut, Reloc!MayHold, Reloc!Exempt, Reloc!NeedsBuildPrefix, Reloc!IsText, All, One
<1> QED BY <1>1, <1>3, <1>4 DEF KegInv, Places

LEMMA RelocateBuildPrefixKeeps ==
  ASSUME Reloc!Parameters, KegInv, Reloc!RelocateBuildPrefix, ~apart' PROVE KegInv'
<1>1. pc = "built" /\ KegTyped /\ Disjoint /\ Closed(reported) /\ BuiltInv
  BY DEF Reloc!RelocateBuildPrefix, KegInv
<1>2. keg' = keg /\ poured' = poured /\ bottle' = bottle /\ reported' = reported /\ dirty' = dirty
  BY DEF Reloc!RelocateBuildPrefix
<1>3. Reloc!Candidates \subseteq All /\ Closed(Reloc!Candidates) /\ Clean("built", Reloc!Candidates)
  BY <1>1, CandidatesAre DEF BuiltInv
<1>4. SignedBut({})'
  BY <1>1, <1>2 DEF BuiltInv, SignedBut, All
<1>5. ASSUME NEW missed \in SUBSET Reloc!Candidates,
             Reloc!Listed("patch", Reloc!Candidates, missed, "built"), ~Reloc!Parted(missed)
      PROVE  KegInv'
  <2>1. /\ pc' = "patch" /\ todo' = Reloc!Candidates \ missed /\ todo' \subseteq All /\ unread \subseteq unread'
        /\ \A n \in missed : \A m \in All : One(n, m) => <<m, "built">> \in unread'
        /\ Closed(Reloc!Candidates \ missed)
    BY <1>1, <1>2, <1>3, <1>5, ListedIs DEF BuiltInv
  <2>2. KegTyped' /\ Disjoint' /\ Closed(reported)'
    BY <1>1, <1>2, <2>1, SameKeg DEF KegTyped
  <2>3. Clean("built", todo \cup dirty)'
    <3> SUFFICES ASSUME NEW m \in All, m \notin Reloc!Candidates \ missed, "built" \in keg[m].holds PROVE Reloc!MayHold(m, "built")'
      BY <1>2, <2>1 DEF Clean, All
    <3>1. CASE m \in missed
      BY <2>1, <3>1 DEF One, Reloc!MayHold
    <3>2. CASE m \notin missed
      BY <1>2, <1>3, <2>1, <3>2, MayHoldSame DEF Clean
    <3> QED BY <3>1, <3>2
  <2>4. Clean("text", {})' /\ Clean("linkage", {})'
    BY <1>1, <1>2, <2>1, CleanStays DEF BuiltInv
  <2>5. PatchInv' /\ Closed(todo)' /\ (todo \cap dirty = {})'
    BY <1>1, <1>2, <1>4, <2>1, <2>3, <2>4 DEF BuiltInv, PatchInv, Alike, Closed, SignedBut, All, One
  <2> QED BY <2>1, <2>2, <2>5 DEF KegInv, Places
<1>6. CASE pc' = "discard" /\ todo' = {}
  <2>1. KegTyped' /\ Disjoint' /\ Closed(reported)'
    BY <1>1, <1>2, <1>6, SameKeg DEF KegTyped
  <2> QED BY <1>4, <1>6, <2>1 DEF KegInv, Places
<1> QED BY <1>5, <1>6 DEF Reloc!RelocateBuildPrefix, Reloc!Goto, Reloc!Fail

LEMMA PatchDoneKeeps ==
  ASSUME Reloc!Parameters, KegInv, Reloc!PatchDone PROVE KegInv'
<1>1. /\ pc = "patch" /\ pc' = "sign built" /\ todo = {} /\ todo' = Reloc!Firsts(dirty)
      /\ KegTyped /\ Disjoint /\ Closed(reported) /\ PatchInv
  BY DEF Reloc!PatchDone, KegInv, Reloc!Goto
<1>2. Same /\ dirty' = dirty
  BY DEF Reloc!PatchDone, Same
<1>3. KegTyped' /\ Disjoint' /\ Closed(reported)'
  BY <1>1, <1>2, SameKeg DEF KegTyped, Reloc!Firsts, Same
<1>4. PatchInv'
  <2>1. Closed(dirty)'
    BY <1>1, <1>2 DEF Same, PatchInv, Closed, All, One
  <2>6. Alike(dirty)'
    BY ZenonT(120), <1>1, <1>2 DEF Same, PatchInv, Alike, All, One
  <2>5. SignedBut(dirty)'
    BY <1>1, <1>2 DEF Same, PatchInv, SignedBut, All
  <2>4. Clean("text", {})' /\ Clean("linkage", {})'
    BY <1>1, <1>2 DEF Same, PatchInv, Clean, Reloc!MayHold, Reloc!Exempt, Reloc!NeedsBuildPrefix, Reloc!IsText, All
  <2>2. Clean("built", todo \cup dirty)'
    BY ZenonT(120), <1>1, <1>2 DEF Same, PatchInv, Clean, Reloc!MayHold, Reloc!Exempt, Reloc!NeedsBuildPrefix, Reloc!IsText, All
  <2>3. (\A d \in dirty : "built" \notin keg[Reloc!Head(Mates(d))].holds)'
    BY <1>1, <1>2 DEF Same, PatchInv, Mates, One, All
  <2> QED BY <2>1, <2>2, <2>3, <2>4, <2>5, <2>6 DEF PatchInv
<1>5. LastSigned'
  <2> SUFFICES ASSUME NEW d \in dirty
               PROVE  Reloc!Head(Mates(d)) \in Reloc!Firsts(dirty)
    BY <1>1, <1>2 DEF Same, LastSigned, Mates, One, All
  <2> DEFINE f == Reloc!Head(Mates(d))
  <2>1. d \in All /\ poured \in PouredKegs
    BY <1>1 DEF KegTyped
  <2>2. f \in All /\ One(f, d) /\ Mates(f) = Mates(d)
    BY <2>1, FirstMate
  <2>3. {m \in dirty : poured[m].ino = poured[f].ino} = Mates(d) /\ f \in dirty
    BY <1>1, <2>1, <2>2 DEF PatchInv, Closed, Mates, One, KegTyped
  <2> HIDE DEF f
  <2>4. Reloc!Head({m \in dirty : poured[m].ino = poured[f].ino}) = f
    BY <2>3 DEF f
  <2>5. f \in Reloc!Firsts(dirty)
    BY <2>3, <2>4 DEF Reloc!Firsts
  <2> QED BY <2>5 DEF f
<1>6. (todo \subseteq Reloc!Firsts(dirty))'
  BY <1>1, <1>2 DEF Same, Reloc!Firsts
<1> QED BY <1>1, <1>3, <1>4, <1>5, <1>6 DEF KegInv, Places

LEMMA RelativizeSymlinksKeeps ==
  ASSUME Reloc!Parameters, KegInv, Reloc!RelativizeSymlinks PROVE KegInv'
<1>1. pc = "symlinks" /\ pc' \in {"done", "discard"} /\ todo' = {} /\ KegTyped /\ Disjoint /\ Closed(reported) /\ DoneInv
  BY DEF Reloc!RelativizeSymlinks, KegInv, Reloc!Goto, Reloc!Fail
<1>2. keg' = keg /\ poured' = poured /\ bottle' = bottle /\ reported' = reported /\ dirty' = dirty /\ unread \subseteq unread'
  BY DEF Reloc!RelativizeSymlinks, Reloc!PassOver
<1>3. KegTyped' /\ Disjoint' /\ Closed(reported)'
  BY <1>1, <1>2, SameKeg DEF KegTyped
<1>4. SignedBut({})' /\ Alike({})'
  BY <1>1, <1>2 DEF DoneInv, BuiltInv, SignedBut, Alike, All, One
<1>5. Clean("text", {})' /\ Clean("linkage", {})' /\ Clean("built", {})'
  BY <1>1, <1>2, CleanStays DEF DoneInv, BuiltInv
<1>6. DoneInv'
  BY <1>1, <1>2, <1>4, <1>5 DEF DoneInv, BuiltInv
<1> QED BY <1>1, <1>3, <1>4, <1>6 DEF KegInv, Places
LEMMA DiscardKeeps ==
  ASSUME Reloc!Discard PROVE KegInv'
BY DEF Reloc!Discard, Reloc!Goto, KegInv, Places

-------------------------------------------------------------------------------
(* Steps that write files. *)
LEMMA ReplaceTextKeeps ==
  ASSUME Reloc!Parameters, KegInv, Reloc!ReplaceText PROVE KegInv'
<1>1. pc = "text" /\ dirty = {} /\ KegTyped /\ Disjoint /\ Closed(reported) /\ TextInv
  BY DEF Reloc!ReplaceText, KegInv
<1>2. poured' = poured /\ bottle' = bottle /\ reported' = reported /\ unread \subseteq unread'
  BY DEF Reloc!ReplaceText, Reloc!PassOver
<1>3. Alike({}) /\ Clean("text", todo) /\ SignedBut({}) /\ Closed(todo)
  BY <1>1 DEF TextInv
<1>4. PICK n \in todo : LET g == Reloc!Group(n, todo) IN
        /\ n = Reloc!Head(g)
        /\ \/ keg' = Reloc!Atomic(n, Reloc!Without(keg[n], "text")) /\ dirty' = g /\ pc' = pc /\ todo' = todo
           \/ Reloc!PassOver(g, "text") /\ todo' = todo \ g /\ keg' = keg /\ dirty' = dirty /\ pc' = pc
           \/ pc' = "discard" /\ todo' = {} /\ keg' = keg /\ dirty' = dirty
  BY DEF Reloc!ReplaceText, Reloc!Fail, Reloc!Goto
<1>5. n \in All /\ keg[n] \in Reloc!Files
  BY <1>1 DEF KegTyped
<1>6. Reloc!Group(n, todo) = Mates(n)
  <2>1. Closed({}) /\ n \in All \ {}
    BY <1>5 DEF Closed
  <2>2. Reloc!SameInode(n) = Mates(n)
    BY <1>1, <1>3, <2>1, InodeIs
  <2> QED BY <1>3, <1>5, <2>2 DEF Reloc!Group, Closed, Mates, One
<1>7. CASE keg' = Reloc!Atomic(n, Reloc!Without(keg[n], "text")) /\ dirty' = Mates(n) /\ pc' = "text" /\ todo' = todo
  <2> DEFINE f == Reloc!Without(keg[n], "text")
  <2>1. f \in Reloc!Files /\ f.kind = keg[n].kind /\ f.holds = keg[n].holds \ {"text"} /\ f.signed = keg[n].signed
    BY <1>5 DEF Reloc!Without, Reloc!Files
  <2> HIDE DEF f
  <2>2. /\ keg' \in [All -> Reloc!Files] /\ \A m \in All : m # n => keg'[m] = keg[m]
        /\ keg'[n].kind = f.kind /\ keg'[n].holds = f.holds /\ keg'[n].signed = f.signed
        /\ \A m \in All : keg'[m].kind = poured[m].kind /\ keg'[m].holds \subseteq poured[m].holds
        /\ Disjoint'
    <3>1. keg' = Reloc!Atomic(n, f) /\ f.holds \subseteq keg[n].holds
      BY <1>7, <2>1 DEF f
    <3> QED BY <1>1, <1>2, <1>5, <2>1, <3>1, AtomicIs
  <2>3. \A m \in All : keg'[m].holds \subseteq keg[m].holds /\ keg'[m].signed = keg[m].signed /\ keg'[m].kind = keg[m].kind
    BY <2>1, <2>2
  <2>4. Mates(n) \subseteq todo /\ Mates(n) \subseteq All /\ n \in Mates(n) /\ \A i, k \in Mates(n) : One(i, k)
    BY <1>3, <1>5, <1>6 DEF Reloc!Group, Mates, One
  <2>5. KegTyped' /\ Closed(reported)'
    BY <1>1, <1>2, <1>7, <2>2, <2>4 DEF KegTyped, All, Closed, One
  <2>6. Alike(dirty)'
    BY <1>2, <1>3, <1>7, <2>2, <2>4 DEF Alike, All, One
  <2>7. Closed(dirty)' /\ Closed(todo)'
    BY <1>2, <1>3, <1>7 DEF Closed, Mates, All, One
  <2>8. Clean("text", todo)'
    BY <1>2, <1>3, <1>7, <2>3 DEF Clean, Reloc!MayHold, Reloc!Exempt, Reloc!NeedsBuildPrefix, Reloc!IsText, All
  <2>9. SignedBut({})'
    BY <1>2, <1>3, <2>3 DEF SignedBut, All
  <2>10. Reloc!Head(dirty') = n /\ "text" \notin keg'[n].holds
    BY <1>4, <1>6, <1>7, <2>1, <2>2
  <2>11. TextInv'
    BY <1>2, <1>7, <2>4, <2>6, <2>7, <2>8, <2>9, <2>10 DEF TextInv, One
  <2> QED BY <1>7, <2>2, <2>5, <2>11 DEF KegInv, Places
<1>8. CASE pc' = "discard" /\ todo' = {} /\ keg' = keg /\ dirty' = dirty
  <2>1. KegTyped' /\ Disjoint' /\ Closed(reported)'
    BY <1>1, <1>2, <1>8, SameKeg DEF KegTyped
  <2>2. SignedBut({})'
    BY <1>2, <1>3, <1>8 DEF SignedBut, All
  <2> QED BY <1>8, <2>1, <2>2 DEF KegInv, Places
<1>9. CASE Reloc!PassOver(Mates(n), "text") /\ todo' = todo \ Mates(n) /\ keg' = keg /\ dirty' = dirty /\ pc' = "text"
  <2>1. KegTyped' /\ Disjoint' /\ Closed(reported)'
    BY <1>1, <1>2, <1>9, SameKeg DEF KegTyped
  <2>2. Clean("text", todo)'
    <3> SUFFICES ASSUME NEW m \in All, m \notin todo \ Mates(n), "text" \in keg[m].holds PROVE Reloc!MayHold(m, "text")'
      BY <1>2, <1>9 DEF Clean, All
    <3>1. CASE m \in Mates(n)
      BY <1>9, <3>1 DEF Reloc!PassOver, Reloc!MayHold
    <3>2. CASE m \notin Mates(n)
      BY <1>2, <1>3, <3>2, MayHoldSame DEF Clean
    <3> QED BY <3>1, <3>2
  <2>3. Closed(todo)' /\ Closed(dirty)' /\ Alike(dirty)' /\ SignedBut({})'
    BY <1>1, <1>2, <1>3, <1>9 DEF Closed, Mates, Alike, SignedBut, All, One
  <2> QED BY <1>1, <1>9, <2>1, <2>2, <2>3 DEF KegInv, TextInv, Places
<1> QED BY <1>1, <1>4, <1>6, <1>7, <1>8, <1>9

LEMMA RelinkTextKeeps ==
  ASSUME Reloc!Parameters, KegInv, Reloc!RelinkText, ~apart' PROVE KegInv'
<1>1. /\ pc = "text" /\ pc' = "text" /\ dirty # {} /\ todo' = todo \ dirty /\ dirty' = {}
      /\ KegTyped /\ Disjoint /\ Closed(reported) /\ TextInv
  BY DEF Reloc!RelinkText, KegInv
<1>2. poured' = poured /\ bottle' = bottle /\ reported' = reported /\ unread' = unread
  BY DEF Reloc!RelinkText
<1> DEFINE h == Reloc!Head(dirty)
<1>3. keg' = Reloc!Relink(h, dirty \ {h}, {})
  BY DEF Reloc!RelinkText
<1>4. h \in dirty /\ h \in All /\ dirty \subseteq All /\ dirty \subseteq todo /\ DOMAIN keg = All
  BY <1>1, HeadIs, AllThere DEF KegTyped, TextInv
<1>5. "text" \notin keg[h].holds /\ \A m \in dirty : One(h, m)
  BY <1>1, <1>4 DEF TextInv
<1> HIDE DEF h
<1>6. keg' = [m \in All |-> IF m \in dirty THEN keg[h] ELSE keg[m]]
  BY <1>3, <1>4 DEF Reloc!Relink
<1>7. \A m \in All : keg'[m] = IF m \in dirty THEN keg[h] ELSE keg[m]
  BY <1>6
<1>8. \A m \in dirty : poured[m] = poured[h]
  BY <1>1, <1>4, <1>5, PouredIs DEF KegTyped
<1>9. KegTyped'
  <2>1. keg' \in [All -> Reloc!Files]
    BY <1>1, <1>4, <1>6 DEF KegTyped
  <2>2. \A m \in All : keg'[m].kind = poured[m].kind /\ keg'[m].holds \subseteq poured[m].holds
    BY <1>1, <1>4, <1>7, <1>8 DEF KegTyped
  <2> QED BY <1>1, <1>2, <2>1, <2>2 DEF KegTyped, All
<1>10. Disjoint' /\ Closed(reported)'
  <2>1. Closed(reported)'
    BY <1>1, <1>2 DEF Closed, All, One
  <2>2. ASSUME NEW i \in All, NEW k \in All, keg'[i].ino = keg'[k].ino PROVE One(i, k) /\ keg'[i] = keg'[k]
    <3>1. CASE i \in dirty /\ k \in dirty
      BY <3>1, <1>5, <1>7 DEF One
    <3>2. CASE i \in dirty /\ k \notin dirty
      BY <3>2, <2>2, <1>1, <1>4, <1>5, <1>7 DEF One, Disjoint
    <3>3. CASE i \notin dirty /\ k \in dirty
      BY <3>3, <2>2, <1>1, <1>4, <1>5, <1>7 DEF One, Disjoint
    <3>4. CASE i \notin dirty /\ k \notin dirty
      BY <3>4, <2>2, <1>1, <1>7 DEF Disjoint
    <3> QED BY <3>1, <3>2, <3>3, <3>4
  <2> QED BY <2>1, <2>2, <1>2 DEF Disjoint, All, One
<1>11. TextInv'
  <2>1. Alike(dirty)'
    BY <1>1, <1>2, <1>4, <1>7 DEF Alike, TextInv, Closed, All, One
  <2>2. Closed(todo)' /\ Closed(dirty)'
    BY <1>1, <1>2 DEF Closed, TextInv, All, One
  <2>4. Clean("text", todo)'
    <3> SUFFICES ASSUME NEW n \in All, n \notin todo \ dirty, "text" \in keg'[n].holds PROVE Reloc!MayHold(n, "text")'
      BY <1>1, <1>2 DEF Clean, All
    <3>1. n \notin dirty /\ keg'[n] = keg[n]
      BY <1>5, <1>7
    <3> QED BY <3>1, <1>1, <1>2, MayHoldSame DEF TextInv, Clean
  <2>5. SignedBut({})'
    BY <1>1, <1>2, <1>4, <1>5, <1>7 DEF SignedBut, TextInv, Closed, All
  <2> QED BY <1>1, <2>1, <2>2, <2>4, <2>5 DEF TextInv
<1> QED BY <1>1, <1>9, <1>10, <1>11 DEF KegInv, Places

LEMMA RewriteLinkageKeeps ==
  ASSUME Reloc!Parameters, KegInv, Reloc!RewriteLinkage PROVE KegInv'
<1>1. pc = "linkage" /\ pc' = "linkage" /\ KegTyped /\ Disjoint /\ Closed(reported) /\ LinkageInv
  BY DEF Reloc!RewriteLinkage, KegInv
<1>2. poured' = poured /\ bottle' = bottle /\ reported' = reported /\ unread' = unread
  BY DEF Reloc!RewriteLinkage
<1>3. PICK n \in todo :
        /\ todo' = todo \ {n}
        /\ \/ /\ "linkage" \in keg[n].holds /\ keg' = Reloc!InPlace(n, Reloc!Unsigned(Reloc!Without(keg[n], "linkage")))
              /\ dirty' = dirty \cup {n} /\ failed' = failed
           \/ "linkage" \notin keg[n].holds /\ keg' = keg /\ dirty' = dirty /\ failed' = failed
           \/ failed' /\ keg' = keg /\ dirty' = dirty
  BY DEF Reloc!RewriteLinkage, Reloc!Holds
<1>4. n \in All /\ keg[n] \in Reloc!Files
  BY <1>1 DEF KegTyped
<1>5. Reloc!SameInode(n) = Mates(n)
  <2>1. Closed({}) /\ n \in All \ {}
    BY <1>4 DEF Closed
  <2> QED BY <1>1, <2>1, InodeIs DEF LinkageInv
<1>6. \A m \in All : m \in Spread(todo) => m \in Mates(n) \/ m \in Spread(todo \ {n})
  BY DEF Spread, Mates, One
<1>7. \A m \in Mates(n) : m \in All /\ keg[m] = keg[n]
  BY <1>1, <1>4 DEF LinkageInv, Alike, Mates, One
<1>8. CASE /\ "linkage" \in keg[n].holds /\ keg' = Reloc!InPlace(n, Reloc!Unsigned(Reloc!Without(keg[n], "linkage")))
           /\ dirty' = dirty \cup {n} /\ failed' = failed
  <2> DEFINE f == Reloc!Unsigned(Reloc!Without(keg[n], "linkage"))
  <2>1. f \in Reloc!Files /\ f.ino = keg[n].ino /\ f.kind = keg[n].kind /\ f.holds = keg[n].holds \ {"linkage"}
    BY <1>4 DEF Reloc!Unsigned, Reloc!Without, Reloc!Files
  <2> HIDE DEF f
  <2>2. /\ keg' \in [All -> Reloc!Files]
        /\ \A m \in All : keg'[m] = IF m \in Mates(n) THEN f ELSE keg[m]
        /\ \A m \in All : keg'[m].kind = poured[m].kind /\ keg'[m].holds \subseteq poured[m].holds
        /\ Disjoint'
    <3>1. keg' = Reloc!InPlace(n, f) /\ f.holds \subseteq keg[n].holds
      BY <1>8, <2>1 DEF f
    <3> QED BY <1>1, <1>2, <1>4, <1>5, <2>1, <3>1, InPlaceIs
  <2>3. KegTyped' /\ Closed(reported)'
    BY <1>1, <1>2, <1>3, <1>4, <1>8, <2>2 DEF KegTyped, All, Closed, One
  <2>4. Alike({})'
    BY <1>1, <1>2, <2>2 DEF Alike, LinkageInv, Mates, All, One
  <2>5. \A m \in All : keg'[m].holds \subseteq keg[m].holds
    BY <1>7, <2>1, <2>2
  <2>6. Clean("text", {})'
    BY <1>1, <1>2, <2>5 DEF LinkageInv, Clean, Reloc!MayHold, Reloc!Exempt, Reloc!NeedsBuildPrefix, Reloc!IsText, All
  <2>7. failed' \/ Clean("linkage", Spread(todo))'
    <3> SUFFICES ASSUME ~failed, NEW m \in All, m \notin Spread(todo \ {n}), "linkage" \in keg'[m].holds
                 PROVE  Reloc!MayHold(m, "linkage")'
      BY <1>2, <1>3, <1>8 DEF Clean, Spread, All, One
    <3>1. m \notin Mates(n)
      BY <2>1, <2>2
    <3>2. m \notin Spread(todo) /\ "linkage" \in keg[m].holds
      BY <1>6, <2>5, <3>1
    <3> QED BY <1>1, <1>2, <3>2, MayHoldSame DEF LinkageInv, Clean
  <2>8. SignedBut(Spread(dirty))'
    <3> SUFFICES ASSUME NEW m \in All, m \notin Spread(dirty \cup {n}), keg'[m].kind = "macho"
                 PROVE  keg'[m].signed \/ m \in reported
      BY <1>2, <1>8 DEF SignedBut, Spread, All, One
    <3>1. m \notin Mates(n) /\ m \notin Spread(dirty)
      BY <1>4 DEF Mates, Spread, One
    <3> QED BY <1>1, <2>2, <3>1 DEF LinkageInv, SignedBut
  <2> QED BY <1>1, <2>2, <2>3, <2>4, <2>6, <2>7, <2>8 DEF KegInv, LinkageInv, Places
<1>9. CASE /\ keg' = keg /\ dirty' = dirty
           /\ \/ "linkage" \notin keg[n].holds /\ failed' = failed
              \/ failed'
  <2>1. KegTyped' /\ Disjoint' /\ Closed(reported)'
    BY <1>1, <1>2, <1>3, <1>9, SameKeg DEF KegTyped
  <2>2. Alike({})' /\ SignedBut(Spread(dirty))'
    BY <1>1, <1>2, <1>9 DEF LinkageInv, Alike, SignedBut, Spread, All, One
  <2>3. Clean("text", {})'
    BY <1>1, <1>2, <1>9 DEF LinkageInv, Clean, Reloc!MayHold, Reloc!Exempt, Reloc!NeedsBuildPrefix, Reloc!IsText, All
  <2>4. failed' \/ Clean("linkage", Spread(todo))'
    <3> SUFFICES ASSUME ~failed', NEW m \in All, m \notin Spread(todo \ {n}), "linkage" \in keg[m].holds
                 PROVE  Reloc!MayHold(m, "linkage")'
      BY <1>2, <1>3, <1>9 DEF Clean, Spread, All, One
    <3>1. ~failed /\ m \notin Spread(todo)
      BY <1>6, <1>7, <1>9
    <3> QED BY <1>1, <1>2, <3>1, MayHoldSame DEF LinkageInv, Clean
  <2> QED BY <1>1, <2>1, <2>2, <2>3, <2>4 DEF KegInv, LinkageInv, Places
<1> QED BY <1>3, <1>8, <1>9

LEMMA PatchOneKeeps ==
  ASSUME Reloc!Parameters, KegInv, Reloc!PatchOne PROVE KegInv'
<1>1. /\ pc = "patch" /\ KegTyped /\ Disjoint /\ Closed(reported) /\ PatchInv /\ Closed(todo) /\ todo \cap dirty = {}
  BY DEF Reloc!PatchOne, KegInv
<1>2. poured' = poured /\ bottle' = bottle /\ reported' = reported /\ unread \subseteq unread'
  BY DEF Reloc!PatchOne, Reloc!PassOver
<1>3. PICK n \in todo : LET g == Reloc!Group(n, todo) IN
        /\ n = Reloc!Head(g)
        /\ \/ /\ keg' = Reloc!Atomic(n, Reloc!Unsigned(Reloc!Without(keg[n], "built")))
              /\ dirty' = dirty \cup g /\ todo' = todo \ g /\ pc' = pc
           \/ /\ Reloc!IsText(keg[n]) \/ "built" \notin keg[n].holds
              /\ todo' = todo \ g /\ keg' = keg /\ dirty' = dirty /\ pc' = pc
           \/ Reloc!PassOver(g, "built") /\ todo' = todo \ g /\ keg' = keg /\ dirty' = dirty /\ pc' = pc
           \/ pc' = "discard" /\ todo' = {} /\ keg' = keg /\ dirty' = dirty
  BY DEF Reloc!PatchOne, Reloc!Fail, Reloc!Goto, Reloc!Holds
<1>4. n \in All /\ keg[n] \in Reloc!Files /\ n \notin dirty /\ poured \in PouredKegs /\ dirty \subseteq All
  BY <1>1 DEF KegTyped
<1>5. Reloc!Group(n, todo) = Mates(n)
  <2>1. Reloc!SameInode(n) = Mates(n)
    BY <1>1, <1>4, InodeIs DEF PatchInv
  <2> QED BY <1>1, <1>4, <2>1 DEF Reloc!Group, Closed, Mates, One
<1>6. Mates(n) \subseteq todo /\ Mates(n) \subseteq All /\ n \in Mates(n)
  BY <1>4, <1>5 DEF Reloc!Group, Mates, One
<1>7. Closed(dirty) /\ Alike(dirty) /\ Clean("text", {}) /\ Clean("linkage", {}) /\ Clean("built", todo \cup dirty)
      /\ SignedBut(dirty) /\ \A d \in dirty : "built" \notin keg[Reloc!Head(Mates(d))].holds
  BY <1>1 DEF PatchInv
<1>8. CASE /\ keg' = Reloc!Atomic(n, Reloc!Unsigned(Reloc!Without(keg[n], "built")))
           /\ dirty' = dirty \cup Mates(n) /\ todo' = todo \ Mates(n) /\ pc' = "patch"
  <2> DEFINE f == Reloc!Unsigned(Reloc!Without(keg[n], "built"))
  <2>1. f \in Reloc!Files /\ f.kind = keg[n].kind /\ f.holds = keg[n].holds \ {"built"}
    BY <1>4 DEF Reloc!Unsigned, Reloc!Without, Reloc!Files
  <2> HIDE DEF f
  <2>2. /\ keg' \in [All -> Reloc!Files] /\ \A m \in All : m # n => keg'[m] = keg[m]
        /\ keg'[n].kind = f.kind /\ keg'[n].holds = f.holds
        /\ \A m \in All : keg'[m].kind = poured[m].kind /\ keg'[m].holds \subseteq poured[m].holds
        /\ Disjoint'
    <3>1. keg' = Reloc!Atomic(n, f) /\ f.holds \subseteq keg[n].holds
      BY <1>8, <2>1 DEF f
    <3> QED BY <1>1, <1>2, <1>4, <2>1, <3>1, AtomicIs
  <2>3. \A m \in All : keg'[m].holds \subseteq keg[m].holds /\ keg'[m].kind = keg[m].kind
    BY <2>1, <2>2
  <2>4. KegTyped' /\ Closed(reported)'
    BY <1>1, <1>2, <1>6, <1>8, <2>2 DEF KegTyped, All, Closed, One
  <2>5. Closed(dirty)' /\ Closed(todo)' /\ (todo \cap dirty = {})'
    BY <1>1, <1>2, <1>7, <1>8 DEF Closed, Mates, All, One
  <2>6. Alike(dirty)'
    BY <1>2, <1>6, <1>7, <1>8, <2>2 DEF Alike, All, One
  <2>7. Clean("text", {})' /\ Clean("linkage", {})'
    BY <1>2, <1>7, <2>3 DEF Clean, Reloc!MayHold, Reloc!Exempt, Reloc!NeedsBuildPrefix, Reloc!IsText, All
  <2>8. Clean("built", todo \cup dirty)'
    <3>1. todo' \cup dirty' = todo \cup dirty
      BY <1>6, <1>8
    <3> SUFFICES ASSUME NEW m \in All, m \notin todo \cup dirty, "built" \in keg'[m].holds PROVE Reloc!MayHold(m, "built")'
      BY <1>2, <3>1 DEF Clean, All
    <3> QED BY <1>2, <1>7, <2>3, MayHoldSame DEF Clean
  <2>9. SignedBut(dirty)'
    BY <1>2, <1>6, <1>7, <1>8, <2>2 DEF SignedBut, All
  <2>10. ASSUME NEW d \in dirty \cup Mates(n) PROVE "built" \notin keg'[Reloc!Head(Mates(d))].holds
    <3>1. CASE d \in Mates(n)
      <4>1. Mates(d) = Mates(n)
        BY <1>4, <3>1, MatesAre
      <4>2. Reloc!Head(Mates(d)) = n
        BY <1>3, <1>5, <4>1
      <4> QED BY <2>1, <2>2, <4>2
    <3>2. CASE d \in dirty
      <4> DEFINE e == Reloc!Head(Mates(d))
      <4>1. e \in All /\ One(e, d)
        BY <1>4, <3>2, FirstMate
      <4> HIDE DEF e
      <4>2. e \in dirty
        BY <1>4, <1>7, <3>2, <4>1 DEF Closed, One
      <4>3. keg'[e] = keg[e]
        BY <1>4, <2>2, <4>1, <4>2
      <4> QED BY <1>7, <3>2, <4>3 DEF e
    <3> QED BY <3>1, <3>2
  <2>11. (\A d \in dirty : "built" \notin keg[Reloc!Head(Mates(d))].holds)'
    BY <1>2, <1>8, <2>10 DEF Mates, One, All
  <2>12. PatchInv'
    BY <2>5, <2>6, <2>7, <2>8, <2>9, <2>11 DEF PatchInv
  <2> QED BY <1>8, <2>2, <2>4, <2>5, <2>12 DEF KegInv, Places
<1>9. CASE /\ Reloc!IsText(keg[n]) \/ "built" \notin keg[n].holds \/ Reloc!PassOver(Mates(n), "built")
           /\ todo' = todo \ Mates(n) /\ keg' = keg /\ dirty' = dirty /\ pc' = "patch"
  <2>1. KegTyped' /\ Disjoint' /\ Closed(reported)'
    BY <1>1, <1>2, <1>9, SameKeg DEF KegTyped
  <2>2. Closed(dirty)' /\ Closed(todo)' /\ (todo \cap dirty = {})'
    BY <1>1, <1>2, <1>7, <1>9 DEF Closed, Mates, All, One
  <2>3. Alike(dirty)' /\ SignedBut(dirty)'
    BY <1>2, <1>7, <1>9 DEF Alike, SignedBut, All, One
  <2>4. Clean("text", {})' /\ Clean("linkage", {})'
    BY <1>2, <1>7, <1>9 DEF Clean, Reloc!MayHold, Reloc!Exempt, Reloc!NeedsBuildPrefix, Reloc!IsText, All
  <2>5. Clean("built", todo \cup dirty)'
    <3> SUFFICES ASSUME NEW m \in All, m \notin (todo \ Mates(n)) \cup dirty, "built" \in keg[m].holds
                 PROVE  Reloc!MayHold(m, "built")'
      BY <1>2, <1>9 DEF Clean, All
    <3>1. CASE m \in Mates(n) /\ Reloc!PassOver(Mates(n), "built")
      BY <3>1 DEF Reloc!PassOver, Reloc!MayHold
    <3>2. CASE m \in Mates(n) /\ ~Reloc!PassOver(Mates(n), "built")
      <4>1. m \notin dirty /\ One(n, m)
        BY <1>1, <1>6, <3>2 DEF Mates, One
      <4>2. keg[m] = keg[n]
        BY <1>4, <1>7, <4>1 DEF Alike
      <4>3. Reloc!MayHold(m, "built")
        BY <1>1, <1>9, <3>2, <4>2, WhatAFileHolds DEF Reloc!MayHold, Reloc!Exempt
      <4> QED BY <1>2, <4>3, MayHoldSame
    <3>3. CASE m \notin Mates(n)
      BY <1>2, <1>7, <3>3, MayHoldSame DEF Clean
    <3> QED BY <3>1, <3>2, <3>3
  <2>6. (\A d \in dirty : "built" \notin keg[Reloc!Head(Mates(d))].holds)'
    BY <1>2, <1>7, <1>9 DEF Mates, One, All
  <2>7. PatchInv'
    BY <2>2, <2>3, <2>4, <2>5, <2>6 DEF PatchInv
  <2> QED BY <1>9, <2>1, <2>2, <2>7 DEF KegInv, Places
<1>10. CASE pc' = "discard" /\ todo' = {} /\ keg' = keg /\ dirty' = dirty
  <2>1. KegTyped' /\ Disjoint' /\ Closed(reported)'
    BY <1>1, <1>2, <1>10, SameKeg DEF KegTyped
  <2>2. dirty' = {} => SignedBut({})'
    BY <1>2, <1>7, <1>10 DEF SignedBut, All
  <2> QED BY <1>10, <2>1, <2>2 DEF KegInv, Places
<1> QED BY <1>1, <1>3, <1>5, <1>8, <1>9, <1>10

(* A signature leaves what files hold, whether in place, through a copy or reported. *)
LEMMA SignDoes ==
  ASSUME Reloc!Parameters, KegTyped, Disjoint, Closed(reported), Reloc!Sign
  PROVE  /\ KegTyped' /\ Disjoint' /\ Closed(reported)' /\ reported \subseteq reported'
         /\ \A m \in All : keg'[m].holds = keg[m].holds /\ (keg[m].signed => keg'[m].signed)
         /\ \E n \in todo :
              /\ todo' = todo \ {n} /\ Reloc!SameInode(n) \subseteq Mates(n) /\ n \in All
              /\ \A m \in All : m \notin Reloc!SameInode(n) => keg'[m] = keg[m]
              /\ \/ \A m \in Reloc!SameInode(n) : keg'[m] = keg'[n] /\ keg'[m].signed
                 \/ keg' = keg /\ Mates(n) \subseteq reported'
                 \/ (pc = "sign" /\ ~apart' => Reloc!SameInode(n) = {n}) /\ keg'[n].signed
<1>1. UNCHANGED <<poured, dirty>> /\ poured \in PouredKegs
  BY DEF Reloc!Sign, KegTyped
<1>2. PICK n \in todo :
        /\ todo' = todo \ {n}
        /\ \/ keg' = Reloc!InPlace(n, [keg[n] EXCEPT !.signed = TRUE]) /\ reported' = reported
           \/ /\ keg' = Reloc!Atomic(n, [keg[n] EXCEPT !.signed = TRUE]) /\ reported' = reported
              /\ apart' = (apart \/ (pc = "sign" /\ Reloc!SameInode(n) # {n}))
           \/ reported' = reported \cup {m \in Reloc!There : poured[m].ino = poured[n].ino} /\ keg' = keg
  BY DEF Reloc!Sign
<1>3. n \in All /\ keg[n] \in Reloc!Files /\ Reloc!There = All /\ Reloc!SameInode(n) = {m \in All : keg[m].ino = keg[n].ino}
  BY AllThere DEF KegTyped
<1>4. Reloc!SameInode(n) \subseteq Mates(n) /\ n \in Reloc!SameInode(n) /\ Reloc!SameInode(n) \subseteq All
  BY <1>3 DEF Disjoint, Mates, One
<1> DEFINE f == [keg[n] EXCEPT !.signed = TRUE]
<1>5. f \in Reloc!Files /\ f.ino = keg[n].ino /\ f.kind = keg[n].kind /\ f.holds = keg[n].holds /\ f.signed
  BY <1>3 DEF Reloc!Files
<1>6. \A m \in Reloc!SameInode(n) : keg[m] = keg[n]
  BY <1>3 DEF Disjoint
<1>7. reported' = reported => Closed(reported)'
  BY <1>1 DEF Closed, All, One
<1> HIDE DEF f
<1>8. CASE keg' = Reloc!InPlace(n, f) /\ reported' = reported
  <2>1. /\ keg' \in [All -> Reloc!Files]
        /\ \A m \in All : keg'[m] = IF m \in Reloc!SameInode(n) THEN f ELSE keg[m]
        /\ \A m \in All : keg'[m].kind = poured[m].kind /\ keg'[m].holds \subseteq poured[m].holds
        /\ Disjoint'
    <3>1. f.holds \subseteq keg[n].holds
      BY <1>5
    <3> QED BY <1>1, <1>3, <1>5, <1>8, <3>1, InPlaceIs
  <2>2. KegTyped'
    BY <1>1, <1>2, <2>1 DEF KegTyped, All
  <2>3. \A m \in All : keg'[m].holds = keg[m].holds /\ (keg[m].signed => keg'[m].signed)
    BY <1>5, <1>6, <2>1
  <2>4. \A m \in Reloc!SameInode(n) : keg'[m] = keg'[n] /\ keg'[m].signed
    BY <1>4, <1>5, <2>1
  <2> QED BY <1>2, <1>3, <1>4, <1>7, <1>8, <2>1, <2>2, <2>3, <2>4
<1>9. CASE keg' = Reloc!Atomic(n, f) /\ reported' = reported /\ apart' = (apart \/ (pc = "sign" /\ Reloc!SameInode(n) # {n}))
  <2>1. /\ keg' \in [All -> Reloc!Files] /\ \A m \in All : m # n => keg'[m] = keg[m]
        /\ keg'[n].kind = f.kind /\ keg'[n].holds = f.holds /\ keg'[n].signed = f.signed
        /\ \A m \in All : keg'[m].kind = poured[m].kind /\ keg'[m].holds \subseteq poured[m].holds
        /\ Disjoint'
    <3>1. f.holds \subseteq keg[n].holds
      BY <1>5
    <3> QED BY <1>1, <1>3, <1>5, <1>9, <3>1, AtomicIs
  <2>2. KegTyped'
    BY <1>1, <1>2, <2>1 DEF KegTyped, All
  <2>3. \A m \in All : keg'[m].holds = keg[m].holds /\ (keg[m].signed => keg'[m].signed)
    BY <1>5, <2>1
  <2>4. (pc = "sign" /\ ~apart' => Reloc!SameInode(n) = {n}) /\ keg'[n].signed
    BY <1>5, <1>9, <2>1
  <2> QED BY <1>2, <1>3, <1>4, <1>7, <1>9, <2>1, <2>2, <2>3, <2>4
<1>10. CASE reported' = reported \cup {m \in Reloc!There : poured[m].ino = poured[n].ino} /\ keg' = keg
  <2>1. reported' = reported \cup Mates(n)
    BY <1>3, <1>10 DEF Mates, One
  <2>2. Closed(reported)'
    BY <1>1, <2>1 DEF Closed, Mates, All, One
  <2>3. KegTyped' /\ Disjoint'
    BY <1>1, <1>2, <1>10 DEF KegTyped, Disjoint, All, One
  <2> QED BY <1>2, <1>3, <1>4, <1>10, <2>1, <2>2, <2>3
<1> QED BY <1>2, <1>8, <1>9, <1>10 DEF f

LEMMA SignLinkageKeeps ==
  ASSUME Reloc!Parameters, KegInv, Reloc!Sign, pc = "sign", ~apart' PROVE KegInv'
<1>1. KegTyped /\ Disjoint /\ Closed(reported) /\ SignInv
  BY DEF KegInv
<1>2. poured' = poured /\ bottle' = bottle /\ dirty' = dirty /\ failed' = failed /\ pc' = "sign" /\ unread' = unread
  BY DEF Reloc!Sign
<1>3. /\ KegTyped' /\ Disjoint' /\ Closed(reported)' /\ reported \subseteq reported'
      /\ \A m \in All : keg'[m].holds = keg[m].holds /\ (keg[m].signed => keg'[m].signed)
  BY <1>1, SignDoes
<1>4. PICK n \in todo :
        /\ todo' = todo \ {n} /\ Reloc!SameInode(n) \subseteq Mates(n) /\ n \in All
        /\ \A m \in All : m \notin Reloc!SameInode(n) => keg'[m] = keg[m]
        /\ \/ \A m \in Reloc!SameInode(n) : keg'[m] = keg'[n] /\ keg'[m].signed
           \/ keg' = keg /\ Mates(n) \subseteq reported'
           \/ (pc = "sign" /\ ~apart' => Reloc!SameInode(n) = {n}) /\ keg'[n].signed
  BY <1>1, SignDoes
<1>5. Reloc!SameInode(n) = Mates(n) /\ n \in Mates(n)
  <2>1. Closed({}) /\ n \in All \ {}
    BY <1>4 DEF Closed
  <2> QED BY <1>1, <1>4, <2>1, InodeIs, MatesAre DEF SignInv
<1>6. (\A m \in Mates(n) : keg'[m] = keg'[n]) /\ \A m \in Mates(n) : m \in All /\ (keg'[m].signed \/ m \in reported')
  <2>1. \A m \in Mates(n) : m \in All /\ keg[m] = keg[n]
    BY <1>1, <1>4 DEF SignInv, Alike, Mates, One
  <2> QED BY <1>4, <1>5, <2>1
<1>7. Alike({})'
  <2> SUFFICES ASSUME NEW i \in All, NEW k \in All, One(i, k) PROVE keg'[i] = keg'[k]
    BY <1>2 DEF Alike, All, One
  <2>1. i \in Mates(n) <=> k \in Mates(n)
    BY DEF Mates, One
  <2> QED BY <1>1, <1>4, <1>5, <1>6, <2>1 DEF SignInv, Alike
<1>8. Clean("text", {})' /\ (failed' \/ Clean("linkage", {})')
  BY <1>1, <1>2, <1>3 DEF SignInv, Clean, Reloc!MayHold, Reloc!Exempt, Reloc!NeedsBuildPrefix, Reloc!IsText, All
<1>9. SignedBut(Spread(todo))'
  <2> SUFFICES ASSUME NEW m \in All, m \notin Spread(todo \ {n}), keg'[m].kind = "macho"
               PROVE  keg'[m].signed \/ m \in reported'
    BY <1>2, <1>4 DEF SignedBut, Spread, All, One
  <2>1. CASE m \in Mates(n)
    BY <1>6, <2>1
  <2>2. CASE m \notin Mates(n)
    <3>1. keg'[m] = keg[m] /\ m \notin Spread(todo)
      BY <1>4, <1>5, <2>2 DEF Mates, Spread, One
    <3> QED BY <1>1, <1>3, <3>1 DEF SignInv, SignedBut
  <2> QED BY <2>1, <2>2
<1> QED BY <1>2, <1>3, <1>7, <1>8, <1>9 DEF KegInv, SignInv, Places

LEMMA SignPatchedKeeps ==
  ASSUME Reloc!Parameters, KegInv, Reloc!Sign, pc = "sign built" PROVE KegInv'
<1>1. KegTyped /\ Disjoint /\ Closed(reported) /\ PatchInv /\ LastSigned /\ todo \subseteq Reloc!Firsts(dirty)
  BY DEF KegInv
<1>2. poured' = poured /\ bottle' = bottle /\ dirty' = dirty /\ failed' = failed /\ pc' = "sign built" /\ unread' = unread
  BY DEF Reloc!Sign
<1>3. /\ KegTyped' /\ Disjoint' /\ Closed(reported)' /\ reported \subseteq reported'
      /\ \A m \in All : keg'[m].holds = keg[m].holds /\ (keg[m].signed => keg'[m].signed)
  BY <1>1, SignDoes
<1>4. PICK n \in todo :
        /\ todo' = todo \ {n} /\ Reloc!SameInode(n) \subseteq Mates(n) /\ n \in All
        /\ \A m \in All : m \notin Reloc!SameInode(n) => keg'[m] = keg[m]
        /\ \/ \A m \in Reloc!SameInode(n) : keg'[m] = keg'[n] /\ keg'[m].signed
           \/ keg' = keg /\ Mates(n) \subseteq reported'
           \/ (pc = "sign" /\ ~apart' => Reloc!SameInode(n) = {n}) /\ keg'[n].signed
  BY <1>1, SignDoes
<1>5. n \in dirty /\ Mates(n) \subseteq dirty /\ n \in Reloc!SameInode(n) /\ n \in Mates(n) /\ dirty \subseteq All
  <2>1. n \in dirty /\ dirty \subseteq All
    BY <1>1 DEF Reloc!Firsts, KegTyped
  <2> QED BY <1>1, <1>4, <2>1, AllThere DEF PatchInv, Closed, Mates, One
<1>6. keg'[n].signed \/ n \in reported'
  BY <1>4, <1>5
<1>7. \A m \in All \ dirty : keg'[m] = keg[m]
  BY <1>4, <1>5
<1>8. Closed(dirty)' /\ Alike(dirty)'
  <2>1. Closed(dirty)'
    BY <1>1, <1>2 DEF PatchInv, Closed, All, One
  <2>2. Alike(dirty)'
    <3>1. \A i, k \in All \ dirty : One(i, k) => keg'[i] = keg'[k]
      BY <1>1, <1>7 DEF PatchInv, Alike
    <3>2. (All \ dirty)' = All \ dirty
      BY <1>2 DEF All
    <3> SUFFICES ASSUME NEW i \in (All \ dirty)', NEW k \in (All \ dirty)', One(i, k)' PROVE keg'[i] = keg'[k]
      BY DEF Alike
    <3>3. One(i, k)
      BY <1>2 DEF One
    <3> QED BY <3>1, <3>2, <3>3
  <2> QED BY <2>1, <2>2
<1>9. Clean("text", {})' /\ Clean("linkage", {})'
  BY <1>1, <1>2, <1>3 DEF PatchInv, Clean, Reloc!MayHold, Reloc!Exempt, Reloc!NeedsBuildPrefix, Reloc!IsText, All
<1>10. Clean("built", todo \cup dirty)'
  <2>1. todo' \cup dirty' = todo \cup dirty
    BY <1>2, <1>4, <1>5
  <2> SUFFICES ASSUME NEW m \in All, m \notin todo \cup dirty, "built" \in keg'[m].holds PROVE Reloc!MayHold(m, "built")'
    BY <1>2, <2>1 DEF Clean, All
  <2> QED BY <1>1, <1>2, <1>3, MayHoldSame DEF PatchInv, Clean
<1>11. SignedBut(dirty)'
  BY <1>1, <1>2, <1>3, <1>7 DEF PatchInv, SignedBut, All
<1>12. ASSUME NEW d \in dirty
       PROVE  LET f == Reloc!Head(Mates(d)) IN
              /\ "built" \notin keg'[f].holds
              /\ keg'[f].kind = "macho" => keg'[f].signed \/ f \in reported' \/ f \in todo \ {n}
  <2> DEFINE f == Reloc!Head(Mates(d))
  <2>1. f \in All /\ One(f, d)
    BY <1>1, <1>5, FirstMate DEF KegTyped
  <2>2. "built" \notin keg[f].holds /\ (keg[f].kind = "macho" => keg[f].signed \/ f \in reported \/ f \in todo)
    BY <1>1 DEF PatchInv, LastSigned
  <2> HIDE DEF f
  <2>3. keg'[f].kind = keg[f].kind
    BY <1>1, <1>2, <1>3, <2>1 DEF KegTyped, All
  <2>4. "built" \notin keg'[f].holds /\ (keg'[f].kind = "macho" => keg'[f].signed \/ f \in reported' \/ f \in todo \ {n})
    BY <1>3, <1>6, <2>1, <2>2, <2>3
  <2> QED BY <2>4 DEF f
<1>13. (\A d \in dirty : "built" \notin keg[Reloc!Head(Mates(d))].holds)' /\ LastSigned'
  BY <1>2, <1>4, <1>12 DEF LastSigned, Mates, One, All
<1>14. (todo \subseteq Reloc!Firsts(dirty))'
  <2>1. Reloc!Firsts(dirty)' = Reloc!Firsts(dirty)
    BY <1>2, <1>4 DEF Reloc!Firsts
  <2> QED BY <1>1, <1>4, <2>1
<1>15. PatchInv'
  BY <1>8, <1>9, <1>10, <1>11, <1>13 DEF PatchInv
<1> QED BY <1>2, <1>3, <1>13, <1>14, <1>15 DEF KegInv, Places

LEMMA RelinkPatchedKeeps ==
  ASSUME Reloc!Parameters, KegInv, Passed, Reloc!RelinkPatched, ~apart' PROVE KegInv'
<1>1. /\ pc = "sign built" /\ pc' = "symlinks" /\ todo = {} /\ todo' = {} /\ dirty' = {}
      /\ KegTyped /\ Disjoint /\ Closed(reported) /\ PatchInv /\ LastSigned
  BY DEF Reloc!RelinkPatched, KegInv, Reloc!Goto
<1>2. poured' = poured /\ bottle' = bottle /\ reported' = reported /\ unread' = unread
  BY DEF Reloc!RelinkPatched
<1>3. keg' = [m \in DOMAIN keg |-> IF m \in {} THEN None ELSE IF m \in dirty THEN keg[Reloc!FirstOf(m)] ELSE keg[m]]
  BY DEF Reloc!RelinkPatched
<1>4. dirty \subseteq All /\ DOMAIN keg = All /\ poured \in PouredKegs
  BY <1>1, AllThere DEF KegTyped
<1>5. ASSUME NEW m \in dirty
      PROVE  /\ Reloc!FirstOf(m) = Reloc!Head(Mates(m)) /\ Reloc!FirstOf(m) \in dirty /\ One(Reloc!FirstOf(m), m)
             /\ poured[Reloc!FirstOf(m)] = poured[m] /\ \A k \in dirty : One(k, m) => Reloc!FirstOf(k) = Reloc!FirstOf(m)
  <2>1. {k \in dirty : poured[k].ino = poured[m].ino} = Mates(m)
    BY <1>1, <1>4 DEF PatchInv, Closed, Mates, One
  <2>2. Reloc!FirstOf(m) = Reloc!Head(Mates(m)) /\ m \in All
    BY <1>4, <2>1 DEF Reloc!FirstOf
  <2>3. Reloc!FirstOf(m) \in All /\ One(Reloc!FirstOf(m), m)
    BY <1>4, <2>2, FirstMate
  <2>4. Reloc!FirstOf(m) \in dirty
    BY <1>1, <2>2, <2>3 DEF PatchInv, Closed, One
  <2>5. poured[Reloc!FirstOf(m)] = poured[m]
    BY <1>4, <2>2, <2>3, PouredIs
  <2>6. \A k \in dirty : One(k, m) => Reloc!FirstOf(k) = Reloc!FirstOf(m)
    BY DEF Reloc!FirstOf, One
  <2> QED BY <2>2, <2>3, <2>4, <2>5, <2>6
<1>6. \A m \in All : keg'[m] = IF m \in dirty THEN keg[Reloc!FirstOf(m)] ELSE keg[m]
  BY <1>3, <1>4
<1>7. KegTyped'
  <2>1. \A m \in All : keg'[m] \in Reloc!Files /\ keg'[m].kind = poured[m].kind /\ keg'[m].holds \subseteq poured[m].holds
    <3> SUFFICES ASSUME NEW m \in All
                 PROVE  keg'[m] \in Reloc!Files /\ keg'[m].kind = poured[m].kind /\ keg'[m].holds \subseteq poured[m].holds
      OBVIOUS
    <3> QED BY ZenonT(120), <1>1, <1>4, <1>5, <1>6 DEF KegTyped
  <2>2. keg' \in [All -> Reloc!Files]
    BY <1>3, <1>4, <2>1
  <2> QED BY <1>1, <1>2, <2>1, <2>2 DEF KegTyped, All
<1>8. Disjoint' /\ Closed(reported)'
  <2>1. Closed(reported)'
    BY <1>1, <1>2 DEF Closed, All, One
  <2>2. ASSUME NEW i \in All, NEW k \in All, keg'[i].ino = keg'[k].ino PROVE One(i, k) /\ keg'[i] = keg'[k]
    <3> DEFINE e(m) == IF m \in dirty THEN Reloc!FirstOf(m) ELSE m
    <3>1. e(i) \in All /\ e(k) \in All /\ One(e(i), i) /\ One(e(k), k) /\ keg'[i] = keg[e(i)] /\ keg'[k] = keg[e(k)]
      <4>1. ASSUME NEW m \in All PROVE e(m) \in All /\ One(e(m), m) /\ keg'[m] = keg[e(m)]
        <5>1. CASE m \in dirty
          BY <1>4, <1>5, <1>6, <5>1
        <5>2. CASE m \notin dirty
          BY <1>6, <5>2 DEF One
        <5> QED BY <5>1, <5>2
      <4> QED BY <4>1
    <3> HIDE DEF e
    <3>2. One(e(i), e(k)) /\ keg[e(i)] = keg[e(k)]
      BY <1>1, <2>2, <3>1 DEF Disjoint
    <3> QED BY <3>1, <3>2 DEF One
  <2> QED BY <2>1, <2>2, <1>2 DEF Disjoint, All, One
<1>9. Alike({})'
  <2> SUFFICES ASSUME NEW i \in All, NEW k \in All, One(i, k) PROVE keg'[i] = keg'[k]
    BY <1>2 DEF Alike, All, One
  <2>1. i \in dirty <=> k \in dirty
    BY <1>1 DEF PatchInv, Closed, One
  <2>2. CASE i \in dirty
    BY <1>5, <1>6, <2>1, <2>2
  <2>3. CASE i \notin dirty
    BY <1>1, <1>6, <2>1, <2>3 DEF PatchInv, Alike
  <2> QED BY <2>2, <2>3
<1>10. ASSUME NEW what \in {"text", "linkage"} PROVE Clean(what, {})'
  <2> SUFFICES ASSUME NEW m \in All, what \in keg'[m].holds PROVE Reloc!MayHold(m, what)'
    BY <1>2 DEF Clean, All
  <2>1. Clean(what, {})
    BY <1>1 DEF PatchInv
  <2>2. CASE m \in dirty
    <3>1. /\ Reloc!FirstOf(m) \in All /\ what \in keg[Reloc!FirstOf(m)].holds
          /\ poured[Reloc!FirstOf(m)] = poured[m] /\ One(Reloc!FirstOf(m), m)
      BY <1>4, <1>5, <1>6, <2>2
    <3>2. Reloc!MayHold(Reloc!FirstOf(m), what)
      BY <2>1, <3>1 DEF Clean
    <3>3. Reloc!MayHold(m, what)
      BY <3>1, <3>2, MayHoldIs
    <3> QED BY <1>2, <3>3, MayHoldSame
  <2>3. CASE m \notin dirty
    <3>1. Reloc!MayHold(m, what)
      BY <1>6, <2>1, <2>3 DEF Clean
    <3> QED BY <1>2, <3>1, MayHoldSame
  <2> QED BY <2>2, <2>3
<1>11. Clean("built", {})'
  <2> SUFFICES ASSUME NEW m \in All, "built" \in keg'[m].holds PROVE Reloc!MayHold(m, "built")'
    BY <1>2 DEF Clean, All
  <2>1. m \notin dirty
    BY ZenonT(120), <1>1, <1>5, <1>6 DEF PatchInv
  <2>2. Reloc!MayHold(m, "built")
    BY <1>1, <1>6, <2>1 DEF PatchInv, Clean
  <2> QED BY <1>2, <2>2, MayHoldSame
<1>12. SignedBut({})'
  <2> SUFFICES ASSUME NEW m \in All, keg'[m].kind = "macho" PROVE keg'[m].signed \/ m \in reported
    BY <1>2 DEF SignedBut, All
  <2>1. CASE m \in dirty
    <3>1. keg[Reloc!FirstOf(m)].signed \/ Reloc!FirstOf(m) \in reported
      BY <1>1, <1>5, <1>6, <2>1 DEF LastSigned
    <3>2. Reloc!FirstOf(m) \in reported => m \in reported
      BY <1>1, <1>4, <1>5, <2>1 DEF Closed
    <3> QED BY <1>6, <2>1, <3>1, <3>2
  <2>2. CASE m \notin dirty
    BY <1>1, <1>6, <2>2 DEF PatchInv, SignedBut
  <2> QED BY <2>1, <2>2
<1>13. DoneInv'
  BY <1>1, <1>9, <1>10, <1>11, <1>12 DEF DoneInv, BuiltInv
<1> QED BY <1>1, <1>7, <1>8, <1>13 DEF KegInv, Places

-------------------------------------------------------------------------------
(* Every step. *)
LEMMA RelocInit ==
  ASSUME Reloc!Parameters, Reloc!Init PROVE RelocInv
<1>1. /\ poured \in PouredKegs /\ keg = poured /\ todo = {} /\ dirty = {} /\ reported = {} /\ unread = {} /\ pc = "start"
  BY DEF Reloc!Init
<1>2. /\ keg \in [All -> Reloc!Files]
      /\ \A n \in All : keg[n].kind = "macho" => keg[n].signed
      /\ \A m, n \in All : One(m, n) => keg[m] = keg[n]
  BY <1>1, PouredIs
<1>3. Disjoint /\ Closed(reported) /\ Alike({}) /\ SignedBut({}) /\ Passed
  BY <1>1, <1>2 DEF Disjoint, Closed, Alike, SignedBut, Passed, One
<1>4. KegTyped
  BY <1>1, <1>2 DEF KegTyped
<1> QED BY <1>1, <1>3, <1>4 DEF RelocInv, KegInv, SymlinkInv, Places

PickedListing(step, names, what) == \E missed \in SUBSET names : Reloc!Listed(step, names, missed, what)
(* A step that passes a file over passes over all its names. *)
LEMMA PassedKeeps ==
  ASSUME Reloc!Parameters, KegInv, Passed, Reloc!Next, ~apart' PROVE Passed'
<1>1. poured' = poured
  BY DEF Reloc!Next, Reloc!ListText, Reloc!ReplaceText, Reloc!RelinkText, Reloc!NothingInIt, Reloc!TextDone, Reloc!RewriteLinkage,
         Reloc!LinkageDone, Reloc!Sign, Reloc!Signed, Reloc!BuiltPrefix, Reloc!RelocateBuildPrefix, Reloc!PatchOne, Reloc!PatchDone,
         Reloc!RelinkPatched, Reloc!RelativizeSymlinks, Reloc!Discard
<1>2. ASSUME unread' = unread PROVE Passed'
  BY <1>1, <1>2 DEF Passed, All, One
<1>3. ASSUME NEW n \in All, NEW what, Reloc!PassOver(Mates(n), what) PROVE Passed'
  BY <1>1, <1>3 DEF Passed, Reloc!PassOver, Mates, All, One
<1>4. CASE Reloc!ListText
  <2>1. pc = "start" /\ PickedListing("text", Reloc!TextTargets, "text")
    BY <1>4 DEF Reloc!ListText, PickedListing
  <2>2. KegTyped /\ Disjoint /\ Alike({})
    BY <2>1 DEF KegInv
  <2> QED BY <1>1, <2>1, <2>2, TextTargetsAre, ListedIs DEF PickedListing
<1>5. CASE Reloc!TextDone
  <2>1. KegTyped /\ Disjoint /\ Alike({})
    BY <1>5 DEF Reloc!TextDone, KegInv, TextInv
  <2>2. unread' = unread \/ PickedListing("linkage", Reloc!LinkageTargets, "linkage")
    BY <1>5 DEF Reloc!TextDone, PickedListing
  <2> QED BY <1>1, <1>2, <2>1, <2>2, LinkageTargetsAre, ListedIs DEF PickedListing
<1>6. CASE Reloc!RelocateBuildPrefix
  <2>1. KegTyped /\ Disjoint /\ Alike({})
    BY <1>6 DEF Reloc!RelocateBuildPrefix, KegInv, BuiltInv
  <2>2. unread' = unread \/ PickedListing("patch", Reloc!Candidates, "built")
    BY <1>6 DEF Reloc!RelocateBuildPrefix, PickedListing
  <2> QED BY <1>1, <1>2, <2>1, <2>2, CandidatesAre, ListedIs DEF PickedListing
<1>7. CASE Reloc!ReplaceText
  <2>1. pc = "text" /\ dirty = {} /\ KegTyped /\ Disjoint /\ TextInv
    BY <1>7 DEF Reloc!ReplaceText, KegInv
  <2>2. PICK n \in todo : unread' = unread \/ Reloc!PassOver(Reloc!Group(n, todo), "text")
    BY <1>7 DEF Reloc!ReplaceText
  <2>3. n \in All /\ n \in All \ {} /\ Closed({}) /\ Alike({}) /\ Closed(todo)
    BY <2>1 DEF KegTyped, TextInv, Closed
  <2>4. Reloc!Group(n, todo) = Mates(n)
    BY <2>1, <2>2, <2>3, InodeIs DEF Reloc!Group, Closed, Mates, One
  <2> QED BY <1>2, <1>3, <2>2, <2>3, <2>4
<1>8. CASE Reloc!PatchOne
  <2>1. KegTyped /\ Disjoint /\ Alike(dirty) /\ Closed(dirty) /\ Closed(todo) /\ todo \cap dirty = {}
    BY <1>8 DEF Reloc!PatchOne, KegInv, PatchInv
  <2>2. PICK n \in todo : unread' = unread \/ Reloc!PassOver(Reloc!Group(n, todo), "built")
    BY <1>8 DEF Reloc!PatchOne
  <2>3. n \in All \ dirty /\ n \in All
    BY <2>1 DEF KegTyped
  <2>4. Reloc!Group(n, todo) = Mates(n)
    BY <2>1, <2>2, <2>3, InodeIs DEF Reloc!Group, Closed, Mates, One
  <2> QED BY <1>2, <1>3, <2>2, <2>3, <2>4
<1>9. CASE Reloc!RelativizeSymlinks
  <2>1. unread \subseteq unread' /\ \A e \in unread' : e \in unread \/ e = <<None, "symlink">>
    BY <1>9 DEF Reloc!RelativizeSymlinks, Reloc!PassOver
  <2>2. \A m : \A what \in {"text", "linkage", "built"} : <<m, what>> \in unread' <=> <<m, what>> \in unread
    BY <2>1
  <2> QED BY <1>1, <2>2 DEF Passed, All, One
<1> QED BY <1>2, <1>4, <1>5, <1>6, <1>7, <1>8, <1>9
       DEF Reloc!Next, Reloc!RelinkText, Reloc!NothingInIt, Reloc!RewriteLinkage, Reloc!LinkageDone, Reloc!Sign, Reloc!Signed,
           Reloc!BuiltPrefix, Reloc!PatchDone, Reloc!RelinkPatched, Reloc!Discard

LEMMA StillTogether ==
  ASSUME Reloc!Next, ~apart' PROVE ~apart
BY DEF Reloc!Next, Reloc!ListText, Reloc!ReplaceText, Reloc!RelinkText, Reloc!NothingInIt, Reloc!TextDone, Reloc!RewriteLinkage, Reloc!LinkageDone, Reloc!Sign, Reloc!Signed,
       Reloc!BuiltPrefix, Reloc!RelocateBuildPrefix, Reloc!PatchOne, Reloc!PatchDone, Reloc!RelinkPatched, Reloc!RelativizeSymlinks, Reloc!Discard

LEMMA RelocKeeps ==
  ASSUME Reloc!Parameters, RelocInv, [Reloc!Next]_RelocVars PROVE RelocInv'
<1>1. CASE UNCHANGED RelocVars
  <2>1. UNCHANGED <<keg, poured, bottle, symlink, pc, todo, dirty, failed, reported, unread, apart>>
    BY <1>1 DEF RelocVars
  <2>2. Same
    BY <2>1 DEF Same
  <2>3. SymlinkInv'
    BY <2>1 DEF RelocInv, SymlinkInv
  <2>5. ~apart => Passed'
    BY <2>1 DEF RelocInv, Passed, All, One
  <2>4. ~apart => KegInv'
    <3> SUFFICES ASSUME KegInv PROVE KegInv'
      BY DEF RelocInv
    <3>1. pc # "gone" => KegTyped' /\ Disjoint' /\ Closed(reported)'
      BY <2>1, <2>2, SameKeg DEF Same, KegInv, KegTyped
    <3>2. (LinkageInv => LinkageInv') /\ (SignInv => SignInv')
      BY <2>1 DEF LinkageInv, SignInv, Alike, Clean, SignedBut, Spread, Reloc!MayHold, Reloc!Exempt, Reloc!NeedsBuildPrefix, Reloc!IsText, All, One
    <3>3. (BuiltInv => BuiltInv') /\ (DoneInv => DoneInv')
      BY <2>1 DEF BuiltInv, DoneInv, Alike, Clean, SignedBut, Reloc!MayHold, Reloc!Exempt, Reloc!NeedsBuildPrefix, Reloc!IsText, All, One
    <3>4. TextInv => TextInv'
      BY <2>1 DEF TextInv, Closed, Alike, Clean, SignedBut, Reloc!MayHold, Reloc!Exempt, Reloc!NeedsBuildPrefix, Reloc!IsText, All, One
    <3>5. PatchInv => PatchInv'
      BY <2>1 DEF PatchInv, Closed, Alike, Clean, SignedBut, Reloc!MayHold, Reloc!Exempt, Reloc!NeedsBuildPrefix, Reloc!IsText, Mates, All, One
    <3>6. (LastSigned => LastSigned') /\ (Closed(todo) => Closed(todo)') /\ Reloc!Firsts(dirty)' = Reloc!Firsts(dirty)
          /\ (SignedBut({}) => SignedBut({})')
          /\ (Alike({}) => Alike({})')
      BY <2>1 DEF LastSigned, Closed, Reloc!Firsts, SignedBut, Alike, Mates, All, One
    <3> QED BY <2>1, <3>1, <3>2, <3>3, <3>4, <3>5, <3>6 DEF KegInv
  <2> QED BY <2>1, <2>3, <2>4, <2>5 DEF RelocInv
<1>2. CASE Reloc!Next
  <2>1. SymlinkInv'
    <3>1. CASE Reloc!RelativizeSymlinks
      BY <3>1 DEF Reloc!RelativizeSymlinks, Reloc!Goto, Reloc!Fail, Reloc!PassOver, SymlinkInv, Reloc!Relative
    <3>2. CASE ~Reloc!RelativizeSymlinks
      <4>1. pc' = "done" => pc = "done" /\ symlink' = symlink /\ bottle' = bottle /\ unread' = unread
        BY <1>2, <3>2
           DEF Reloc!Next, Reloc!ListText, Reloc!Listed, Reloc!ReplaceText, Reloc!RelinkText, Reloc!NothingInIt, Reloc!TextDone, Reloc!RewriteLinkage, Reloc!LinkageDone, Reloc!Sign, Reloc!Signed,
               Reloc!BuiltPrefix, Reloc!RelocateBuildPrefix, Reloc!PatchOne, Reloc!PatchDone, Reloc!RelinkPatched, Reloc!Discard, Reloc!Goto, Reloc!Fail
      <4> QED BY <4>1 DEF RelocInv, SymlinkInv
    <3> QED BY <3>1, <3>2
  <2>2. ASSUME ~apart' PROVE KegInv'
    <3>1. KegInv /\ Passed
      BY <1>2, <2>2, StillTogether DEF RelocInv
    <3>2. Reloc!Sign => pc \in {"sign", "sign built"}
      BY DEF Reloc!Sign
    <3> QED BY <1>2, <2>2, <3>1, <3>2, ListTextKeeps, ReplaceTextKeeps, RelinkTextKeeps, NothingInItKeeps, TextDoneKeeps,
               RewriteLinkageKeeps, LinkageDoneKeeps, SignLinkageKeeps, SignPatchedKeeps, SignedKeeps,
               BuiltPrefixKeeps, RelocateBuildPrefixKeeps, PatchOneKeeps, PatchDoneKeeps, RelinkPatchedKeeps,
               RelativizeSymlinksKeeps, DiscardKeeps DEF Reloc!Next
  <2>3. ~apart' => Passed'
    BY <1>2, StillTogether, PassedKeeps DEF RelocInv
  <2> QED BY <2>1, <2>2, <2>3 DEF RelocInv
<1> QED BY <1>1, <1>2

LEMMA WholeAfterRelocation ==
  ASSUME Reloc!Parameters, RelocInv PROVE Reloc!RelocationIsWhole
<1>1. ASSUME pc \in {"done", "discard"}, ~apart
      PROVE  KegInv /\ KegTyped /\ Reloc!There = All /\ DOMAIN keg = All /\ None \notin Reloc!Files
  <2>1. KegInv /\ KegTyped
    BY <1>1 DEF RelocInv, KegInv
  <2> QED BY <2>1, AllThere, PouredIs DEF KegTyped
<1>2. Reloc!NothingIsLeft
  <2>1. ASSUME pc = "done", ~apart, NEW n \in Reloc!There, NEW what \in keg[n].holds PROVE Reloc!MayHold(n, what)
    <3>1. DoneInv /\ n \in All /\ KegTyped
      BY <1>1, <2>1 DEF KegInv
    <3>2. what \in {"text", "linkage", "built"}
      BY <3>1, WhatAFileHolds
    <3> QED BY <2>1, <3>1, <3>2 DEF DoneInv, BuiltInv, Clean
  <2> QED BY <2>1 DEF Reloc!NothingIsLeft, RelocInv, SymlinkInv
<1>3. Reloc!HardLinksStay
  <2> SUFFICES ASSUME pc = "done", ~apart PROVE \A m, n \in All : One(m, n) => keg[m] = keg[n] /\ keg[m] # None
    BY <1>1 DEF Reloc!HardLinksStay, One
  <2>1. KegTyped /\ DoneInv /\ None \notin Reloc!Files
    BY <1>1 DEF KegInv
  <2> QED BY <2>1 DEF DoneInv, BuiltInv, Alike, KegTyped
<1>4. Reloc!ChangedIsSigned
  <2> SUFFICES ASSUME pc \in {"done", "discard"}, ~apart, dirty = {}
               PROVE  \A n \in Reloc!There : keg[n].kind = "macho" => keg[n].signed \/ n \in reported
    BY DEF Reloc!ChangedIsSigned
  <2>1. SignedBut({}) /\ Reloc!There = All
    BY <1>1 DEF KegInv, DoneInv, BuiltInv
  <2> QED BY <2>1 DEF SignedBut
<1> QED BY <1>2, <1>3, <1>4 DEF Reloc!RelocationIsWhole

-------------------------------------------------------------------------------
(* The service *)
(* The kegs, and the command under way. *)
Brings == [label : KegLabels, keepAlive : BOOLEAN]
Working == {"start", "run", "stop", "restart", "kill", "replace", "copy", "enable", "bootstrap", "unregister",
            "boot out", "still loaded", "remove", "signal"}
CommandSet == [op : Serve!Ops \cup {"none"}, pc : Working \cup {"idle", "not installed", "cleanup", "sweep"},
               root : BOOLEAN, label : KegLabels \cup {None}, job : Serve!Labels \cup {None},
               then : {"end", "start", "run"}, before : BOOLEAN, rerun : BOOLEAN, known : SUBSET Serve!Labels]
CommandTyped(c) ==
  /\ c \in CommandSet
  /\ c.pc = "idle" => c = Serve!Quiet
  /\ c.pc \in Working => c.label \in KegLabels
  /\ c.pc \in {"boot out", "still loaded", "signal"} => c.job \in Serve!Labels
ServiceTyped ==
  /\ service \in Brings \cup {None}
  /\ plists \subseteq Serve!Dirs \X Serve!Labels
  /\ loaded \in [Serve!Domains -> [Serve!Labels -> {"no", "running", "exited"}]]
  /\ CommandTyped(cmd)

(* What is loaded in the domain of the command that is under way, if anything. *)
NoneBut(l) == \A m \in Serve!Labels : Serve!ServiceLoaded(cmd.root, m) => m = l
NothingLoaded == \A m \in Serve!Labels : ~Serve!ServiceLoaded(cmd.root, m)
(* What the steps between a look at launchd and the next rely on. *)
StepsKnow ==
  /\ cmd.pc \in {"replace", "copy", "enable", "bootstrap"} => NoneBut(cmd.label)
  /\ cmd.pc = "copy" => \A l \in Serve!Labels : <<Serve!DestDir(cmd.root), l>> \notin plists
  /\ cmd.pc \in {"boot out", "still loaded"} => NoneBut(cmd.job)
  /\ cmd.pc = "remove" => NothingLoaded
  /\ cmd.pc = "restart" => cmd.then = "end"
(* What a restart that is under way has left of the registration it found. *)
RestartKnows ==
  cmd.op = "restart" =>
    /\ cmd.before =>
         /\ cmd.then # "run" /\ cmd.pc # "run"
         /\ cmd.pc \in {"stop", "boot out", "still loaded", "unregister", "enable", "bootstrap"} => plists # {}
         /\ cmd.pc = "start" => plists # {} \/ NothingLoaded
    /\ ~cmd.before /\ cmd.rerun =>
         /\ plists = {} /\ cmd.then # "start"
         /\ cmd.pc \notin {"start", "replace", "copy", "enable"}

ServiceInv == ServiceTyped /\ Serve!OneInstance /\ StepsKnow /\ RestartKnows

-------------------------------------------------------------------------------
(* The labels that are probed for a keg are all the formula's. *)
LEMMA LabelSetIs ==
  ASSUME Serve!Parameters, NEW label \in KegLabels
  PROVE  /\ Serve!LabelSet(label) = Serve!Labels
         /\ Serve!Labels = {Serve!Probed(label)[i] : i \in DOMAIN Serve!Probed(label)}
         /\ DOMAIN Serve!Probed(label) \subseteq {1, 2, 3}
<1>1. Serve!LabelSet(label) = Serve!Labels
  BY DEF Serve!Parameters, Serve!LabelSet, Serve!Labels
<1>2. CASE label = Canonical
  BY <1>1, <1>2 DEF Serve!LabelSet, Serve!Probed, Serve!LabelsOf
<1>3. CASE label = Legacy
  BY <1>1, <1>3 DEF Serve!LabelSet, Serve!Probed, Serve!LabelsOf, Serve!Parameters
<1>4. CASE label # Canonical /\ label # Legacy
  BY <1>1, <1>4 DEF Serve!LabelSet, Serve!Probed, Serve!LabelsOf
<1> QED BY <1>1, <1>2, <1>3, <1>4

(* A service of the formula is registered when there is a file at all. *)
LEMMA RegisteredIs ==
  ASSUME Serve!Parameters, ServiceTyped, NEW label \in KegLabels
  PROVE  Serve!Registered(label) <=> plists # {}
<1>1. Serve!LabelSet(label) = Serve!Labels /\ plists \subseteq Serve!Dirs \X Serve!Labels
  BY LabelSetIs DEF ServiceTyped
<1>2. ASSUME plists # {} PROVE Serve!Registered(label)
  <2>1. PICK f \in plists : TRUE
    BY <1>2
  <2>2. f[1] \in Serve!Dirs /\ f[2] \in Serve!Labels /\ f = <<f[1], f[2]>>
    BY <1>1, <2>1
  <2> QED BY <1>1, <2>1, <2>2 DEF Serve!Registered
<1> QED BY <1>2 DEF Serve!Registered

(* What is left after the files are removed. *)
LEMMA WithoutFilesIs ==
  ASSUME Serve!Parameters, NEW label \in KegLabels, NEW root \in BOOLEAN
  PROVE  /\ Serve!WithoutFiles(root, label) \subseteq plists
         /\ \A l \in Serve!Labels : <<Serve!DestDir(root), l>> \notin Serve!WithoutFiles(root, label)
BY LabelSetIs DEF Serve!WithoutFiles, Serve!Removable, Serve!DestDir, Serve!Dirs

(* What a command finds loaded is all that is loaded in its domain. *)
LEMMA LoadedLabelIs ==
  ASSUME Serve!Parameters, ServiceTyped, Serve!OneInstance, NEW root \in BOOLEAN, NEW label \in KegLabels
  PROVE  LET l == Serve!LoadedLabel(root, label) IN
         /\ l = None => \A m \in Serve!Labels : ~Serve!ServiceLoaded(root, m)
         /\ l # None => /\ l \in Serve!Labels /\ Serve!ServiceLoaded(root, l)
                        /\ \A m \in Serve!Labels : Serve!ServiceLoaded(root, m) => m = l
<1> DEFINE P == Serve!Probed(label)
           hits == {i \in DOMAIN P : Serve!ServiceLoaded(root, P[i])}
           l == Serve!LoadedLabel(root, label)
<1>1. Serve!DomainTarget(root) \in Serve!Domains
  BY DEF Serve!DomainTarget, Serve!Domains
<1>2. CASE hits = {}
  <2>1. l = None
    BY <1>2 DEF Serve!LoadedLabel
  <2>2. \A m \in Serve!Labels : ~Serve!ServiceLoaded(root, m)
    BY <1>2, LabelSetIs
  <2> QED BY <2>1, <2>2
<1>3. CASE hits # {}
  <2>1. hits \subseteq {1, 2, 3}
    BY LabelSetIs
  <2>2. \E i \in hits : \A j \in hits : i <= j
    <3> HIDE DEF hits
    <3>1. CASE 1 \in hits
      BY <2>1, <3>1
    <3>2. CASE 1 \notin hits /\ 2 \in hits
      BY <2>1, <3>2
    <3>3. CASE hits = {3}
      BY <3>3
    <3> QED BY <1>3, <2>1, <3>1, <3>2, <3>3
  <2>3. Serve!Min(hits) \in hits
    <3> HIDE DEF hits
    <3> QED BY <2>2 DEF Serve!Min
  <2>4. l = P[Serve!Min(hits)]
    BY <1>3 DEF Serve!LoadedLabel
  <2>5. l \in Serve!Labels /\ Serve!ServiceLoaded(root, l)
    BY <2>3, <2>4, LabelSetIs
  <2>6. \A m \in Serve!Labels : Serve!ServiceLoaded(root, m) => m = l
    <3> HIDE DEF l
    <3> QED BY <1>1, <2>5 DEF Serve!OneInstance, Serve!ServiceLoaded, Serve!FindService
  <2>7. l # None
    <3> HIDE DEF l
    <3> QED BY <2>5 DEF Serve!Parameters
  <2> QED BY <2>5, <2>6, <2>7
<1> QED BY <1>2, <1>3

-------------------------------------------------------------------------------
(* One instance stays one. *)
LEMMA InstancesAre ==
  ASSUME Serve!Parameters, ServiceInv, Serve!Next PROVE Serve!OneInstance'
<1>1. ASSUME \A d \in Serve!Domains, l \in Serve!Labels : loaded'[d][l] # "no" => loaded[d][l] # "no",
             \A dir \in Serve!Dirs, l \in Serve!Labels : <<dir, l>> \in plists' => <<dir, l>> \in plists
      PROVE  Serve!OneInstance'
  BY <1>1 DEF Serve!OneInstance, ServiceInv
<1>2. CASE loaded' = loaded /\ plists' \subseteq plists
  BY <1>1, <1>2
<1>3. CASE Serve!Replace \/ Serve!Unregister \/ Serve!RemoveFiles
  <2>1. plists' = Serve!WithoutFiles(cmd.root, cmd.label) /\ loaded' = loaded
    BY <1>3 DEF Serve!Replace, Serve!Unregister, Serve!RemoveFiles
  <2>2. Serve!WithoutFiles(cmd.root, cmd.label) \subseteq plists
    BY DEF Serve!WithoutFiles
  <2> QED BY <1>2, <2>1, <2>2
<1>4. CASE Serve!Copy
  <2>1. cmd.label \in KegLabels /\ \A l \in Serve!Labels : <<Serve!DestDir(cmd.root), l>> \notin plists
    BY <1>4 DEF Serve!Copy, Serve!At, ServiceInv, ServiceTyped, CommandTyped, StepsKnow, Working
  <2>2. loaded' = loaded /\ \A f \in plists' : f \in plists \/ f = <<Serve!DestDir(cmd.root), cmd.label>>
    BY <1>4 DEF Serve!Copy
  <2>3. ASSUME NEW dir \in Serve!Dirs, NEW l \in Serve!Labels, NEW m \in Serve!Labels, <<dir, l>> \in plists', <<dir, m>> \in plists'
        PROVE  l = m
    <3>1. CASE <<dir, l>> \in plists /\ <<dir, m>> \in plists
      BY <3>1 DEF ServiceInv, Serve!OneInstance
    <3>2. CASE <<dir, l>> \notin plists
      <4>1. dir = Serve!DestDir(cmd.root) /\ l = cmd.label
        BY <2>2, <2>3, <3>2
      <4> QED BY <2>1, <2>2, <2>3, <4>1
    <3>3. CASE <<dir, m>> \notin plists
      <4>1. dir = Serve!DestDir(cmd.root) /\ m = cmd.label
        BY <2>2, <2>3, <3>3
      <4> QED BY <2>1, <2>2, <2>3, <4>1
    <3> QED BY <3>1, <3>2, <3>3
  <2> QED BY <2>2, <2>3 DEF ServiceInv, Serve!OneInstance
<1>5. CASE Serve!Bootstrap
  <2>1. loaded' = loaded
        \/ loaded' = [loaded EXCEPT ![Serve!DomainTarget(cmd.root)][cmd.label] = "running"]
    BY <1>5 DEF Serve!Bootstrap
  <2>2. plists' = plists /\ \A m \in Serve!Labels : loaded[Serve!DomainTarget(cmd.root)][m] # "no" => m = cmd.label
    BY <1>5 DEF Serve!Bootstrap, Serve!At, ServiceInv, StepsKnow, NoneBut, Serve!ServiceLoaded, Serve!FindService
  <2>3. ASSUME NEW d \in Serve!Domains, NEW l \in Serve!Labels, loaded'[d][l] # "no"
        PROVE  loaded[d][l] # "no" \/ (d = Serve!DomainTarget(cmd.root) /\ l = cmd.label)
    BY <2>1, <2>3 DEF ServiceInv, ServiceTyped
  <2>4. ASSUME NEW d \in Serve!Domains, NEW l \in Serve!Labels, NEW m \in Serve!Labels, loaded'[d][l] # "no", loaded'[d][m] # "no"
        PROVE  l = m
    BY <2>2, <2>3, <2>4 DEF ServiceInv, Serve!OneInstance
  <2> QED BY <2>2, <2>4 DEF ServiceInv, Serve!OneInstance
<1>6. CASE Serve!BootOut \/ Serve!Signal
  <2>1. Serve!DomainTarget(cmd.root) \in Serve!Domains /\ cmd.job \in Serve!Labels
    BY <1>6 DEF Serve!BootOut, Serve!Signal, Serve!At, ServiceInv, ServiceTyped, CommandTyped, Serve!DomainTarget, Serve!Domains
  <2>2. plists' = plists /\ (loaded' = loaded \/ loaded' = Serve!Booted \/ loaded' = Serve!Signalled)
    BY <1>6 DEF Serve!BootOut, Serve!Signal
  <2>3. \A d \in Serve!Domains, l \in Serve!Labels : loaded'[d][l] # "no" => loaded[d][l] # "no"
    <3>1. CASE loaded' = Serve!Booted
      BY <2>1, <3>1 DEF ServiceInv, ServiceTyped, Serve!Booted
    <3>2. CASE loaded' = Serve!Signalled
      BY <2>1, <3>2 DEF ServiceInv, ServiceTyped, Serve!Signalled
    <3> QED BY <2>2, <3>1, <3>2
  <2> QED BY <1>1, <2>2, <2>3
<1>7. CASE \E domain \in Serve!Domains, l \in Serve!Labels : Serve!Exit(domain, l)
  <2>1. PICK domain \in Serve!Domains, l \in Serve!Labels : Serve!Exit(domain, l)
    BY <1>7
  <2>2. \A d \in Serve!Domains, m \in Serve!Labels : loaded'[d][m] # "no" => loaded[d][m] # "no"
    BY <2>1 DEF Serve!Exit, ServiceInv, ServiceTyped
  <2>3. plists' = plists
    BY <2>1 DEF Serve!Exit
  <2> QED BY <1>1, <2>2, <2>3
<1>8. CASE Serve!Boot
  <2>1. ASSUME NEW d \in Serve!Domains, NEW l \in Serve!Labels, NEW m \in Serve!Labels, loaded'[d][l] # "no", loaded'[d][m] # "no"
        PROVE  l = m
    <3>1. loaded' = [domain \in Serve!Domains |-> [k \in Serve!Labels |->
                      IF <<Serve!DestDir(domain = "system"), k>> \in plists THEN "running" ELSE "no"]]
      BY <1>8 DEF Serve!Boot
    <3>2. <<Serve!DestDir(d = "system"), l>> \in plists /\ <<Serve!DestDir(d = "system"), m>> \in plists
      BY <2>1, <3>1
    <3>3. Serve!DestDir(d = "system") \in Serve!Dirs
      BY DEF Serve!DestDir, Serve!Dirs
    <3> QED BY <3>2, <3>3 DEF ServiceInv, Serve!OneInstance
  <2>2. plists' = plists
    BY <1>8 DEF Serve!Boot
  <2> QED BY <2>1, <2>2 DEF ServiceInv, Serve!OneInstance
<1>9. CASE Serve!Sweep
  BY <1>2, <1>9 DEF Serve!Sweep
<1> QED BY <1>2, <1>3, <1>4, <1>5, <1>6, <1>7, <1>8, <1>9
        DEF Serve!Next, Serve!Command, Serve!NotInstalled, Serve!Start, Serve!Enable, Serve!Run, Serve!Stop, Serve!StillLoaded, Serve!Restart, Serve!Kill, Serve!Cleanup, Serve!Pour, Serve!Uninstall

-------------------------------------------------------------------------------
(* The commands. *)
LEMMA QuietIsTyped == CommandTyped(Serve!Quiet)
BY DEF CommandTyped, Serve!Quiet, CommandSet, Working, Serve!Ops

(* A command that goes on. *)
LEMMA GotoIsTyped ==
  ASSUME NEW c \in CommandSet, c.label \in KegLabels,
         NEW p \in Working \ {"boot out", "still loaded", "signal"}
  PROVE  CommandTyped([c EXCEPT !.pc = p])
<1> DEFINE e == [c EXCEPT !.pc = p]
<1>1. e \in CommandSet
  BY DEF CommandSet
<1>2. e.pc = p /\ e.label = c.label
  BY DEF CommandSet
<1>3. p # "idle" /\ p \notin {"boot out", "still loaded", "signal"}
  BY DEF Working
<1> HIDE DEF e
<1>4. CommandTyped(e)
  BY <1>1, <1>2, <1>3 DEF CommandTyped
<1> QED BY <1>4 DEF e

(* A subcommand that begins, or finds no keg. *)
LEMMA BeginIsTyped ==
  ASSUME Serve!Parameters, ServiceTyped, NEW c \in CommandSet,
         c.pc \in {"start", "run", "stop", "restart", "kill", "cleanup"}
  PROVE  CommandTyped(Serve!Begin(c)) /\ Serve!Begin(c).pc \in {c.pc, "not installed"}
         /\ Serve!Begin(c).op = c.op /\ Serve!Begin(c).root = c.root /\ Serve!Begin(c).then = c.then
         /\ Serve!Begin(c).before = c.before /\ Serve!Begin(c).rerun = c.rerun
<1>1. CASE service = None
  BY c \in CommandSet, <1>1 DEF Serve!Begin, CommandTyped, CommandSet, Working
<1>2. CASE service # None
  <2>1. service.label \in KegLabels
    BY <1>2 DEF ServiceTyped, Brings
  <2> QED BY c \in CommandSet, <1>2, <2>1 DEF Serve!Begin, CommandTyped, CommandSet, Working
<1> QED BY <1>1, <1>2

(* Every step leaves a command there can be. *)
LEMMA CommandsAre ==
  ASSUME Serve!Parameters, ServiceInv, Serve!Next PROVE CommandTyped(cmd')
<1> USE DEF Serve!At, Serve!Goto, Serve!End
<1>1. cmd \in CommandSet /\ CommandTyped(cmd)
  BY DEF ServiceInv, ServiceTyped, CommandTyped
<1>2. CASE cmd' = cmd \/ cmd' = Serve!Quiet
  BY <1>1, <1>2, QuietIsTyped
<1>3. ASSUME cmd.pc \in Working,
             NEW p \in Working \ {"boot out", "still loaded", "signal"}, cmd' = [cmd EXCEPT !.pc = p]
      PROVE  CommandTyped(cmd')
  BY <1>1, <1>3, GotoIsTyped DEF CommandTyped
<1>4. CASE \E op \in Serve!Ops, root, all \in BOOLEAN : Serve!Command(op, root, all)
  <2>1. PICK op \in Serve!Ops, root, all \in BOOLEAN : Serve!Command(op, root, all)
    BY <1>4
  <2>2. [Serve!Quiet EXCEPT !.op = op, !.pc = op, !.root = root] \in CommandSet
    BY DEF Serve!Quiet, CommandSet, Working, Serve!Ops
  <2>3. [Serve!Quiet EXCEPT !.op = op, !.pc = op, !.root = root].pc \in {"start", "run", "stop", "restart", "kill", "cleanup"}
    BY DEF Serve!Quiet, Serve!Ops
  <2> QED BY <2>1, <2>2, <2>3, BeginIsTyped DEF Serve!Command, ServiceInv
<1>5. CASE Serve!NotInstalled
  <2>1. cmd' = Serve!Quiet \/ cmd' = [cmd EXCEPT !.pc = "cleanup"]
    BY <1>5 DEF Serve!NotInstalled
  <2>2. ASSUME cmd' = [cmd EXCEPT !.pc = "cleanup"] PROVE CommandTyped(cmd')
    BY <1>1, <2>2 DEF CommandTyped, CommandSet, Working
  <2> QED BY <1>2, <2>1, <2>2
<1>6. CASE Serve!Start \/ Serve!Replace \/ Serve!Copy \/ Serve!Enable \/ Serve!Bootstrap \/ Serve!Run \/ Serve!StillLoadedUnasked
  <2>1. cmd.pc \in Working
    BY <1>6 DEF Serve!Start, Serve!Replace, Serve!Copy, Serve!Enable, Serve!Bootstrap, Serve!Run, Serve!StillLoadedUnasked, Working
  <2>2. cmd' = Serve!Quiet \/ \E p \in Working \ {"boot out", "still loaded", "signal"} : cmd' = [cmd EXCEPT !.pc = p]
    BY <1>6 DEF Serve!Start, Serve!Replace, Serve!Copy, Serve!Enable, Serve!Bootstrap, Serve!Run, Serve!StillLoadedUnasked, Working
  <2> QED BY <1>2, <1>3, <2>1, <2>2
<1>7. ASSUME NEW result, Serve!StopEnds(result), cmd.pc \in Working PROVE CommandTyped(cmd')
  <2>1. CASE cmd.then = "end"
    BY <1>2, <1>7, <2>1 DEF Serve!StopEnds
  <2>2. CASE cmd.then # "end"
    <3>1. cmd' = Serve!Begin([cmd EXCEPT !.pc = cmd.then, !.then = "end"])
      BY <1>7, <2>2 DEF Serve!StopEnds
    <3>2. cmd.then \in {"start", "run"}
      BY <1>1, <2>2 DEF CommandSet
    <3>3. [cmd EXCEPT !.pc = cmd.then, !.then = "end"] \in CommandSet
      BY <1>1, <3>2 DEF CommandSet, Working
    <3>4. [cmd EXCEPT !.pc = cmd.then, !.then = "end"].pc \in {"start", "run"}
      BY <1>1, <3>2 DEF CommandSet
    <3> QED BY <3>1, <3>3, <3>4, BeginIsTyped DEF ServiceInv
  <2> QED BY <2>1, <2>2
<1>8. CASE Serve!Stop
  <2>1. cmd.pc = "stop" /\ cmd.label \in KegLabels
    BY <1>1, <1>8 DEF Serve!Stop, CommandTyped, Working
  <2>2. Serve!LoadedLabel(cmd.root, cmd.label) # None => Serve!LoadedLabel(cmd.root, cmd.label) \in Serve!Labels
    BY <1>1, <2>1, LoadedLabelIs DEF ServiceInv, CommandSet
  <2>3. CASE Serve!LoadedLabel(cmd.root, cmd.label) = None
    <3>1. cmd' = [cmd EXCEPT !.pc = "unregister"]
      BY <1>8, <2>3 DEF Serve!Stop
    <3> QED BY <1>3, <2>1, <3>1 DEF Working
  <2>4. CASE Serve!LoadedLabel(cmd.root, cmd.label) # None
    <3>1. PICK l \in Serve!Labels : cmd' = [cmd EXCEPT !.pc = "boot out", !.job = l]
      BY <1>8, <2>2, <2>4 DEF Serve!Stop
    <3> QED BY <1>1, <2>1, <3>1 DEF CommandTyped, CommandSet, Working
  <2> QED BY <2>3, <2>4
<1>9. CASE Serve!Unregister
  BY <1>2, <1>7, <1>9 DEF Serve!Unregister, Working
<1>10. CASE Serve!BootOut
  <2>1. cmd.pc = "boot out" /\ cmd' = [cmd EXCEPT !.pc = "still loaded"]
    BY <1>10 DEF Serve!BootOut
  <2> QED BY <1>1, <2>1 DEF CommandTyped, CommandSet, Working
<1>11. CASE Serve!StillLoaded
  <2>1. CASE Serve!ServiceLoaded(cmd.root, cmd.job)
    BY <1>7, <1>11, <2>1 DEF Serve!StillLoaded, Working
  <2>2. CASE ~Serve!ServiceLoaded(cmd.root, cmd.job)
    <3>1. cmd' = [cmd EXCEPT !.pc = "remove"] /\ cmd.pc = "still loaded"
      BY <1>11, <2>2 DEF Serve!StillLoaded
    <3> QED BY <1>3, <3>1 DEF Working
  <2> QED BY <2>1, <2>2
<1>12. CASE Serve!RemoveFiles
  BY <1>7, <1>12 DEF Serve!RemoveFiles, Working
<1>13. CASE Serve!Restart
  <2> DEFINE seen == [cmd EXCEPT !.before = Serve!Registered(cmd.label),
                                 !.rerun = Serve!LoadedLabel(cmd.root, cmd.label) # None]
  <2>1. seen \in CommandSet
    <3>1. Serve!Registered(cmd.label) \in BOOLEAN /\ (Serve!LoadedLabel(cmd.root, cmd.label) # None) \in BOOLEAN
      BY DEF Serve!Registered
    <3> QED BY <1>1, <3>1 DEF CommandSet
  <2>2. \E next \in {"run", "start"} :
          cmd' = Serve!Begin([seen EXCEPT !.pc = "stop", !.then = next]) \/ cmd' = Serve!Begin([seen EXCEPT !.pc = next])
    BY <1>13 DEF Serve!Restart
  <2>3. PICK next \in {"run", "start"} :
          cmd' = Serve!Begin([seen EXCEPT !.pc = "stop", !.then = next]) \/ cmd' = Serve!Begin([seen EXCEPT !.pc = next])
    BY <2>2
  <2> HIDE DEF seen
  <2>4. [seen EXCEPT !.pc = "stop", !.then = next] \in CommandSet /\ [seen EXCEPT !.pc = next] \in CommandSet
    BY ZenonT(120), <2>1 DEF CommandSet, Working
  <2>5. [seen EXCEPT !.pc = "stop", !.then = next].pc = "stop" /\ [seen EXCEPT !.pc = next].pc = next
    BY <2>1 DEF CommandSet
  <2> QED BY <2>3, <2>4, <2>5, BeginIsTyped DEF ServiceInv
<1>14. CASE Serve!Kill
  <2>1. cmd.pc = "kill" /\ cmd.label \in KegLabels
    BY <1>1, <1>14 DEF Serve!Kill, CommandTyped, Working
  <2>2. Serve!LoadedLabel(cmd.root, cmd.label) # None => Serve!LoadedLabel(cmd.root, cmd.label) \in Serve!Labels
    BY <1>1, <2>1, LoadedLabelIs DEF ServiceInv, CommandSet
  <2>3. cmd' = Serve!Quiet \/ \E l \in Serve!Labels : cmd' = [cmd EXCEPT !.pc = "signal", !.job = l]
    BY <1>14, <2>2 DEF Serve!Kill
  <2>4. ASSUME NEW l \in Serve!Labels, cmd' = [cmd EXCEPT !.pc = "signal", !.job = l] PROVE CommandTyped(cmd')
    BY <1>1, <2>1, <2>4 DEF CommandTyped, CommandSet, Working
  <2> QED BY <1>2, <2>3, <2>4
<1>15. CASE Serve!Cleanup
  <2>1. service # None => service.label \in KegLabels
    BY DEF ServiceInv, ServiceTyped, Brings
  <2>2. \E known \in SUBSET Serve!Labels : cmd' = [cmd EXCEPT !.pc = "sweep", !.known = known]
    BY <1>15, <2>1 DEF Serve!Cleanup, Serve!LabelSet, Serve!Labels
  <2> QED BY <1>1, <2>2 DEF CommandTyped, CommandSet, Working
<1>16. CASE Serve!Signal \/ Serve!Sweep \/ Serve!Boot
  BY SMTT(60), <1>2, <1>16 DEF Serve!Signal, Serve!Sweep, Serve!Boot
<1> QED BY <1>2, <1>4, <1>5, <1>6, <1>8, <1>9, <1>10, <1>11, <1>12, <1>13, <1>14, <1>15, <1>16
        DEF Serve!Next, Serve!Pour, Serve!Uninstall, Serve!Exit

(* Every step leaves a state there can be. *)
LEMMA TypesAre ==
  ASSUME Serve!Parameters, ServiceInv, Serve!Next PROVE ServiceTyped'
<1>1. service' \in Brings \cup {None}
  <2>1. CASE service' = service
    BY <2>1 DEF ServiceInv, ServiceTyped
  <2>2. CASE Serve!Pour \/ Serve!Uninstall
    BY <2>2 DEF Serve!Pour, Serve!Uninstall, Brings
  <2> QED BY <2>1, <2>2 DEF Serve!Next, Serve!Command, Serve!NotInstalled, Serve!Start, Serve!Replace, Serve!Copy, Serve!Enable, Serve!Bootstrap, Serve!Run, Serve!Stop,
        Serve!Unregister, Serve!BootOut, Serve!StillLoaded, Serve!RemoveFiles, Serve!Restart, Serve!Kill, Serve!Signal, Serve!Cleanup, Serve!Sweep, Serve!Boot, Serve!Exit
<1>2. plists' \subseteq Serve!Dirs \X Serve!Labels
  <2>1. CASE plists' \subseteq plists
    BY <2>1 DEF ServiceInv, ServiceTyped
  <2>2. CASE Serve!Replace \/ Serve!Unregister \/ Serve!RemoveFiles \/ Serve!Sweep
    BY <2>1, <2>2 DEF Serve!Replace, Serve!Unregister, Serve!RemoveFiles, Serve!Sweep, Serve!WithoutFiles
  <2>3. CASE Serve!Copy
    <3>1. Serve!DestDir(cmd.root) \in Serve!Dirs /\ cmd.label \in Serve!Labels
      BY <2>3 DEF Serve!Copy, Serve!At, ServiceInv, ServiceTyped, CommandTyped, Working, Serve!DestDir, Serve!Dirs, Serve!Labels
    <3>2. plists' = plists \/ plists' = plists \cup {<<Serve!DestDir(cmd.root), cmd.label>>}
      BY <2>3 DEF Serve!Copy
    <3> QED BY <3>1, <3>2 DEF ServiceInv, ServiceTyped
  <2> QED BY <2>1, <2>2, <2>3 DEF Serve!Next, Serve!Command, Serve!NotInstalled, Serve!Start, Serve!Enable, Serve!Bootstrap, Serve!Run, Serve!Stop,
        Serve!BootOut, Serve!StillLoaded, Serve!Restart, Serve!Kill, Serve!Signal, Serve!Cleanup, Serve!Pour, Serve!Uninstall, Serve!Boot, Serve!Exit
<1>3. loaded' \in [Serve!Domains -> [Serve!Labels -> {"no", "running", "exited"}]]
  <2>0. loaded \in [Serve!Domains -> [Serve!Labels -> {"no", "running", "exited"}]]
    BY DEF ServiceInv, ServiceTyped
  <2>1. CASE loaded' = loaded
    BY <2>0, <2>1
  <2>2. CASE Serve!Bootstrap
    <3>1. Serve!DomainTarget(cmd.root) \in Serve!Domains /\ cmd.label \in Serve!Labels
      BY <2>2 DEF Serve!Bootstrap, Serve!At, ServiceInv, ServiceTyped, CommandTyped, Working, Serve!DomainTarget, Serve!Domains, Serve!Labels
    <3>2. loaded' = loaded \/ loaded' = [loaded EXCEPT ![Serve!DomainTarget(cmd.root)][cmd.label] = "running"]
      BY <2>2 DEF Serve!Bootstrap
    <3> QED BY <2>0, <3>1, <3>2
  <2>3. CASE Serve!BootOut \/ Serve!Signal
    <3>1. Serve!DomainTarget(cmd.root) \in Serve!Domains /\ cmd.job \in Serve!Labels
      BY <2>3 DEF Serve!BootOut, Serve!Signal, Serve!At, ServiceInv, ServiceTyped, CommandTyped, Serve!DomainTarget, Serve!Domains
    <3>2. loaded' = loaded \/ loaded' = Serve!Booted \/ loaded' = Serve!Signalled
      BY <2>3 DEF Serve!BootOut, Serve!Signal
    <3>3. CASE loaded' = Serve!Booted
      BY <2>0, <3>1, <3>3 DEF Serve!Booted
    <3>4. CASE loaded' = Serve!Signalled
      BY <2>0, <3>1, <3>4 DEF Serve!Signalled
    <3> QED BY <2>1, <3>2, <3>3, <3>4
  <2>4. CASE Serve!Boot
    BY <2>4 DEF Serve!Boot
  <2>5. ASSUME NEW domain \in Serve!Domains, NEW l \in Serve!Labels, Serve!Exit(domain, l)
        PROVE  loaded' \in [Serve!Domains -> [Serve!Labels -> {"no", "running", "exited"}]]
    BY <2>0, <2>5 DEF Serve!Exit
  <2> QED BY <2>1, <2>2, <2>3, <2>4, <2>5 DEF Serve!Next, Serve!Command, Serve!NotInstalled, Serve!Start, Serve!Replace, Serve!Copy, Serve!Enable, Serve!Run, Serve!Stop,
        Serve!Unregister, Serve!StillLoaded, Serve!RemoveFiles, Serve!Restart, Serve!Kill, Serve!Cleanup, Serve!Sweep, Serve!Pour, Serve!Uninstall
<1> QED BY <1>1, <1>2, <1>3, CommandsAre DEF ServiceTyped, CommandTyped

-------------------------------------------------------------------------------
(* What a step of a command relies on. *)
(* The steps that rely on nothing. *)
Resting == {"idle", "start", "run", "stop", "kill", "cleanup", "not installed", "unregister", "sweep", "signal"}
LEMMA QuietRests == Serve!Quiet.pc = "idle" /\ Serve!Quiet.pc \in Resting
BY DEF Serve!Quiet, Resting

(* A stop ends the command, or a restart goes on. *)
LEMMA StopEndsResting ==
  ASSUME Serve!Parameters, ServiceInv, NEW result, Serve!StopEnds(result)
  PROVE  cmd'.pc \in Resting /\ (cmd' = Serve!Quiet \/ cmd'.op = cmd.op)
<1>1. CASE cmd.then = "end"
  <2>1. cmd' = Serve!Quiet
    BY <1>1 DEF Serve!StopEnds, Serve!End
  <2> QED BY <1>1, <2>1, QuietRests
<1>2. CASE cmd.then # "end"
  <2>1. cmd' = Serve!Begin([cmd EXCEPT !.pc = cmd.then, !.then = "end"])
    BY <1>2 DEF Serve!StopEnds
  <2>2. cmd.then \in {"start", "run"} /\ cmd \in CommandSet
    BY <1>2 DEF ServiceInv, ServiceTyped, CommandTyped, CommandSet
  <2>3. [cmd EXCEPT !.pc = cmd.then, !.then = "end"] \in CommandSet
        /\ [cmd EXCEPT !.pc = cmd.then, !.then = "end"].pc = cmd.then
    BY <2>2 DEF CommandSet, Working
  <2>4. [cmd EXCEPT !.pc = cmd.then, !.then = "end"].op = cmd.op
    BY <2>2 DEF CommandSet
  <2> QED BY <2>1, <2>2, <2>3, <2>4, BeginIsTyped DEF ServiceInv, Resting
<1> QED BY <1>1, <1>2

(* What a restart goes on to, and what it remembers. *)
LEMMA RestartBegins ==
  ASSUME Serve!Parameters, ServiceInv, Serve!Restart
  PROVE  LET l == Serve!LoadedLabel(cmd.root, cmd.label) IN
         /\ cmd'.op = cmd.op
         /\ cmd'.pc \in {"stop", "run", "start", "not installed"}
         /\ cmd'.before = Serve!Registered(cmd.label) /\ cmd'.rerun = (l # None)
         /\ l # None => /\ cmd'.then = IF ~Serve!Registered(cmd.label) THEN "run" ELSE "start"
                        /\ cmd'.pc \in {"stop", "not installed"}
         /\ l = None => cmd'.then = cmd.then /\ cmd'.pc \in {"start", "not installed"}
<1> DEFINE l == Serve!LoadedLabel(cmd.root, cmd.label)
           next == IF Serve!Rerun(cmd.root, cmd.label) THEN "run" ELSE "start"
           seen == [cmd EXCEPT !.before = Serve!Registered(cmd.label), !.rerun = l # None]
           one == [seen EXCEPT !.pc = "stop", !.then = next]
           other == [seen EXCEPT !.pc = next]
<1>1. cmd \in CommandSet
  BY DEF ServiceInv, ServiceTyped, CommandTyped
<1>2. cmd' = IF l # None THEN Serve!Begin(one) ELSE Serve!Begin(other)
  BY DEF Serve!Restart
<1>3. seen \in CommandSet /\ seen.before = Serve!Registered(cmd.label) /\ seen.rerun = (l # None)
      /\ seen.op = cmd.op /\ seen.then = cmd.then
  <2>1. Serve!Registered(cmd.label) \in BOOLEAN /\ (l # None) \in BOOLEAN
    BY DEF Serve!Registered
  <2> HIDE DEF l
  <2> QED BY <1>1, <2>1 DEF CommandSet
<1>4. next = (IF l # None /\ ~Serve!Registered(cmd.label) THEN "run" ELSE "start") /\ next \in {"run", "start"}
  BY DEF Serve!Rerun
<1> HIDE DEF l, next, seen
<1>5. one \in CommandSet /\ one.pc = "stop" /\ one.then = next
      /\ one.op = cmd.op /\ one.before = Serve!Registered(cmd.label) /\ one.rerun = (l # None)
  BY ZenonT(120), <1>3, <1>4 DEF CommandSet, Working
<1>6. other \in CommandSet /\ other.pc = next /\ other.then = cmd.then
      /\ other.op = cmd.op /\ other.before = Serve!Registered(cmd.label) /\ other.rerun = (l # None)
  BY ZenonT(120), <1>3, <1>4 DEF CommandSet, Working
<1> HIDE DEF one, other
<1>7. CASE l # None
  <2>1. cmd' = Serve!Begin(one)
    BY <1>2, <1>7
  <2>2. cmd'.op = one.op /\ cmd'.pc \in {"stop", "not installed"} /\ cmd'.before = one.before
        /\ cmd'.rerun = one.rerun /\ cmd'.then = one.then
    BY <1>5, <2>1, BeginIsTyped DEF ServiceInv
  <2> QED BY <1>4, <1>5, <1>7, <2>2 DEF l
<1>8. CASE l = None
  <2>1. cmd' = Serve!Begin(other)
    BY <1>2, <1>8
  <2>2. cmd'.op = other.op /\ cmd'.pc \in {"start", "not installed"} /\ cmd'.before = other.before
        /\ cmd'.rerun = other.rerun /\ cmd'.then = other.then
    BY <1>4, <1>6, <1>8, <2>1, BeginIsTyped DEF ServiceInv
  <2> QED BY <1>4, <1>6, <1>8, <2>2 DEF l
<1> QED BY <1>7, <1>8

(* A service that there is nothing to do for is loaded; one that there is       *)
(* something to do for is loaded under no other name.                           *)
LEMMA NothingToDoIs ==
  ASSUME Serve!Parameters, ServiceInv, cmd.label \in KegLabels
  PROVE  /\ Serve!NothingToDo(cmd.root, cmd.label) => ~NothingLoaded
         /\ ~Serve!NothingToDo(cmd.root, cmd.label) => NoneBut(cmd.label)
<1>1. cmd.root \in BOOLEAN
  BY DEF ServiceInv, ServiceTyped, CommandTyped, CommandSet
<1> QED BY <1>1, LoadedLabelIs DEF ServiceInv, Serve!NothingToDo, NothingLoaded, NoneBut

(* What each step relies on is so when it comes to it. *)
LEMMA StepsStillKnow ==
  ASSUME Serve!Parameters, ServiceInv, Serve!Next PROVE StepsKnow'
<1>1. cmd \in CommandSet /\ CommandTyped(cmd) /\ cmd.root \in BOOLEAN
  BY DEF ServiceInv, ServiceTyped, CommandTyped, CommandSet
<1>2. ASSUME cmd'.pc \in Resting PROVE StepsKnow'
  BY <1>2 DEF StepsKnow, Resting
<1>3. CASE \E op \in Serve!Ops, root, all \in BOOLEAN : Serve!Command(op, root, all)
  <2>1. PICK op \in Serve!Ops, root, all \in BOOLEAN : Serve!Command(op, root, all)
    BY <1>3
  <2>2. [Serve!Quiet EXCEPT !.op = op, !.pc = op, !.root = root] \in CommandSet
    BY DEF Serve!Quiet, CommandSet, Working, Serve!Ops
  <2>3. [Serve!Quiet EXCEPT !.op = op, !.pc = op, !.root = root].pc \in {"start", "run", "stop", "restart", "kill", "cleanup"}
    BY DEF Serve!Quiet, Serve!Ops
  <2>4. [Serve!Quiet EXCEPT !.op = op, !.pc = op, !.root = root].then = "end"
    BY DEF Serve!Quiet
  <2>5. (cmd'.pc \in Resting \/ cmd'.pc = "restart") /\ cmd'.then = "end"
    BY <2>1, <2>2, <2>3, <2>4, BeginIsTyped DEF Serve!Command, ServiceInv, Resting
  <2> QED BY <1>2, <2>5 DEF StepsKnow
<1>4. CASE Serve!NotInstalled \/ Serve!Bootstrap \/ Serve!Kill \/ Serve!Signal \/ Serve!Cleanup \/ Serve!Sweep \/ Serve!Boot
  <2>1. cmd' = Serve!Quiet \/ cmd'.pc \in {"cleanup", "sweep", "signal"}
    <3>1. CASE Serve!NotInstalled \/ Serve!Bootstrap \/ Serve!Signal \/ Serve!Sweep \/ Serve!Boot
      BY <1>1, <3>1 DEF Serve!NotInstalled, Serve!Bootstrap, Serve!Signal, Serve!Sweep, Serve!Boot, Serve!Goto, Serve!End, CommandSet
    <3>2. CASE Serve!Kill
      BY <1>1, <3>2 DEF Serve!Kill, Serve!End, CommandSet
    <3>3. CASE Serve!Cleanup
      BY <1>1, <3>3 DEF Serve!Cleanup, CommandSet
    <3> QED BY <1>4, <3>1, <3>2, <3>3
  <2> QED BY <1>2, <2>1, QuietRests DEF Resting
<1>5. CASE Serve!Unregister \/ Serve!RemoveFiles
  <2>1. cmd' = Serve!Quiet \/ Serve!StopEnds("not started") \/ Serve!StopEnds("stopped")
    BY <1>5 DEF Serve!Unregister, Serve!RemoveFiles, Serve!End
  <2> QED BY <1>2, <2>1, QuietRests, StopEndsResting
<1>6. CASE Serve!Restart
  <2>1. cmd'.pc \in Resting
    BY <1>6, RestartBegins DEF Resting
  <2> QED BY <1>2, <2>1
<1>7. CASE Serve!Start \/ Serve!Run
  <2>1. cmd.label \in KegLabels
    BY <1>1, <1>7 DEF Serve!Start, Serve!Run, Serve!At, CommandTyped, Working
  <2>2. CASE cmd' = Serve!Quiet
    BY <1>2, <2>2 DEF Serve!Quiet, Resting
  <2>3. CASE cmd' # Serve!Quiet
    <3>1. ~Serve!NothingToDo(cmd.root, cmd.label) /\ loaded' = loaded
          /\ \E p \in {"replace", "bootstrap"} : cmd' = [cmd EXCEPT !.pc = p]
      BY <1>7, <2>3 DEF Serve!Start, Serve!Run, Serve!End, Serve!Goto
    <3>2. NoneBut(cmd.label)
      BY <2>1, <3>1, NothingToDoIs
    <3>3. cmd'.pc \in {"replace", "bootstrap"} /\ cmd'.label = cmd.label /\ cmd'.root = cmd.root
      BY <1>1, <3>1 DEF CommandSet
    <3> QED BY <3>1, <3>2, <3>3 DEF StepsKnow, NoneBut, Serve!ServiceLoaded, Serve!FindService
  <2> QED BY <2>2, <2>3
<1>8. CASE Serve!Replace
  <2>1. cmd.label \in KegLabels /\ NoneBut(cmd.label)
    BY <1>1, <1>8 DEF Serve!Replace, Serve!At, CommandTyped, Working, ServiceInv, StepsKnow
  <2>2. loaded' = loaded /\ plists' = Serve!WithoutFiles(cmd.root, cmd.label)
        /\ cmd'.pc = "copy" /\ cmd'.label = cmd.label /\ cmd'.root = cmd.root
    BY <1>1, <1>8 DEF Serve!Replace, Serve!Goto, CommandSet
  <2>3. \A l \in Serve!Labels : <<Serve!DestDir(cmd'.root), l>> \notin plists'
    BY <1>1, <2>1, <2>2, WithoutFilesIs
  <2> QED BY <2>1, <2>2, <2>3 DEF StepsKnow, NoneBut, Serve!ServiceLoaded, Serve!FindService
<1>9. CASE Serve!Copy \/ Serve!Enable
  <2>1. cmd.pc \in {"copy", "enable"} /\ NoneBut(cmd.label) /\ loaded' = loaded
    BY <1>9 DEF Serve!Copy, Serve!Enable, Serve!At, ServiceInv, StepsKnow
  <2>2. cmd' = Serve!Quiet \/ (cmd'.pc \in {"enable", "bootstrap"} /\ cmd'.label = cmd.label /\ cmd'.root = cmd.root)
    BY <1>1, <1>9 DEF Serve!Copy, Serve!Enable, Serve!Goto, Serve!End, CommandSet
  <2>3. CASE cmd' = Serve!Quiet
    BY <1>2, <2>3, QuietRests
  <2> QED BY <2>1, <2>2, <2>3 DEF StepsKnow, NoneBut, Serve!ServiceLoaded, Serve!FindService
<1>10. CASE Serve!Stop
  <2>1. cmd.label \in KegLabels
    BY <1>1, <1>10 DEF Serve!Stop, Serve!At, CommandTyped, Working
  <2>2. CASE Serve!LoadedLabel(cmd.root, cmd.label) = None
    <3>1. cmd'.pc = "unregister"
      BY <1>1, <1>10, <2>2 DEF Serve!Stop, Serve!Goto, CommandSet
    <3> QED BY <1>2, <3>1 DEF Resting
  <2>3. CASE Serve!LoadedLabel(cmd.root, cmd.label) # None
    <3>1. PICK l \in Serve!Labels : l = Serve!LoadedLabel(cmd.root, cmd.label) /\ NoneBut(l)
      BY <1>1, <2>1, <2>3, LoadedLabelIs DEF ServiceInv, NoneBut
    <3>2. cmd'.pc = "boot out" /\ cmd'.job = l /\ cmd'.root = cmd.root /\ loaded' = loaded
      BY <1>1, <1>10, <2>3, <3>1 DEF Serve!Stop, CommandSet
    <3> QED BY <3>1, <3>2 DEF StepsKnow, NoneBut, Serve!ServiceLoaded, Serve!FindService
  <2> QED BY <2>2, <2>3
<1>11. CASE Serve!BootOut
  <2>1. cmd'.pc = "still loaded" /\ cmd'.job = cmd.job /\ cmd'.root = cmd.root
    BY <1>1, <1>11 DEF Serve!BootOut, Serve!Goto, CommandSet
  <2>2. Serve!DomainTarget(cmd.root) \in Serve!Domains /\ cmd.job \in Serve!Labels /\ NoneBut(cmd.job)
    BY <1>1, <1>11 DEF Serve!BootOut, Serve!At, CommandTyped, Serve!DomainTarget, Serve!Domains, ServiceInv, StepsKnow
  <2>3. loaded' = loaded \/ loaded' = Serve!Booted \/ loaded' = Serve!Signalled
    BY <1>11 DEF Serve!BootOut
  <2>4. \A l \in Serve!Labels : loaded'[Serve!DomainTarget(cmd.root)][l] # "no" => loaded[Serve!DomainTarget(cmd.root)][l] # "no"
    <3>1. CASE loaded' = Serve!Booted
      BY <2>2, <3>1 DEF ServiceInv, ServiceTyped, Serve!Booted
    <3>2. CASE loaded' = Serve!Signalled
      BY <2>2, <3>2 DEF ServiceInv, ServiceTyped, Serve!Signalled
    <3> QED BY <2>3, <3>1, <3>2
  <2> QED BY <2>1, <2>2, <2>4 DEF StepsKnow, NoneBut, Serve!ServiceLoaded, Serve!FindService
<1>12. CASE Serve!StillLoaded
  <2>1. CASE Serve!ServiceLoaded(cmd.root, cmd.job)
    BY <1>2, <1>12, <2>1, StopEndsResting DEF Serve!StillLoaded
  <2>2. CASE ~Serve!ServiceLoaded(cmd.root, cmd.job)
    <3>1. cmd'.pc = "remove" /\ cmd'.root = cmd.root /\ loaded' = loaded
      BY <1>1, <1>12, <2>2 DEF Serve!StillLoaded, Serve!Goto, CommandSet
    <3>2. NothingLoaded
      BY <1>12, <2>2 DEF Serve!StillLoaded, Serve!At, ServiceInv, StepsKnow, NoneBut, NothingLoaded
    <3> QED BY <3>1, <3>2 DEF StepsKnow, NothingLoaded, Serve!ServiceLoaded, Serve!FindService
  <2> QED BY <2>1, <2>2
<1>13. CASE Serve!Pour \/ Serve!Uninstall
  BY <1>13 DEF Serve!Pour, Serve!Uninstall, ServiceInv, StepsKnow, NoneBut, NothingLoaded, Serve!ServiceLoaded, Serve!FindService
<1>14. ASSUME NEW domain \in Serve!Domains, NEW l \in Serve!Labels, Serve!Exit(domain, l) PROVE StepsKnow'
  <2>1. cmd' = cmd /\ plists' = plists /\ Serve!DomainTarget(cmd.root) \in Serve!Domains
    BY <1>1, <1>14 DEF Serve!Exit, Serve!DomainTarget, Serve!Domains
  <2>2. \A d \in Serve!Domains, m \in Serve!Labels : loaded'[d][m] # "no" => loaded[d][m] # "no"
    BY <1>14 DEF Serve!Exit, ServiceInv, ServiceTyped
  <2> QED BY <2>1, <2>2 DEF ServiceInv, StepsKnow, NoneBut, NothingLoaded, Serve!ServiceLoaded, Serve!FindService
<1> QED BY <1>3, <1>4, <1>5, <1>6, <1>7, <1>8, <1>9, <1>10, <1>11, <1>12, <1>13, <1>14 DEF Serve!Next

-------------------------------------------------------------------------------
(* What a restart has left of the registration. *)
(* A registered service has a file. *)
LEMMA FilesAreKnown ==
  ASSUME Serve!Parameters, ServiceInv, cmd.label \in KegLabels PROVE Serve!Registered(cmd.label) <=> plists # {}
BY RegisteredIs DEF ServiceInv

(* Where no file is, none is left. *)
LEMMA FilesRemoved ==
  ASSUME plists = {} PROVE Serve!WithoutFiles(cmd.root, cmd.label) = {}
BY DEF Serve!WithoutFiles

(* A stop under way in a restart goes on to what the restart chose. *)
LEMMA StopGoesOn ==
  ASSUME Serve!Parameters, ServiceInv, NEW result, Serve!StopEnds(result), cmd.op = "restart", cmd.then # "end"
  PROVE  /\ cmd'.op = cmd.op /\ cmd'.before = cmd.before /\ cmd'.rerun = cmd.rerun /\ cmd'.root = cmd.root
         /\ cmd'.then = "end" /\ cmd'.pc \in {cmd.then, "not installed"}
<1>1. cmd' = Serve!Begin([cmd EXCEPT !.pc = cmd.then, !.then = "end"])
  BY DEF Serve!StopEnds
<1>2. cmd.then \in {"start", "run"} /\ cmd \in CommandSet
  BY DEF ServiceInv, ServiceTyped, CommandTyped, CommandSet
<1> DEFINE c == [cmd EXCEPT !.pc = cmd.then, !.then = "end"]
<1>3. c \in CommandSet /\ c.pc = cmd.then /\ c.then = "end" /\ c.op = cmd.op /\ c.root = cmd.root
      /\ c.before = cmd.before /\ c.rerun = cmd.rerun
  BY <1>2 DEF CommandSet, Working
<1> HIDE DEF c
<1> QED BY <1>1, <1>2, <1>3, BeginIsTyped DEF ServiceInv, c

(* Every step of a restart leaves the registration to what it found. *)
LEMMA RestartStillKnows ==
  ASSUME Serve!Parameters, ServiceInv, Serve!Next PROVE RestartKnows'
<1>1. cmd \in CommandSet /\ CommandTyped(cmd) /\ cmd.root \in BOOLEAN
  BY DEF ServiceInv, ServiceTyped, CommandTyped, CommandSet
<1>2. CASE cmd' = Serve!Quiet
  BY <1>2 DEF Serve!Quiet, RestartKnows
<1>3. CASE \E op \in Serve!Ops, root, all \in BOOLEAN : Serve!Command(op, root, all)
  <2>1. PICK op \in Serve!Ops, root, all \in BOOLEAN : Serve!Command(op, root, all)
    BY <1>3
  <2> DEFINE c == [Serve!Quiet EXCEPT !.op = op, !.pc = op, !.root = root]
  <2>2. c \in CommandSet
    BY DEF Serve!Quiet, CommandSet, Working, Serve!Ops
  <2>3. c.pc \in {"start", "run", "stop", "restart", "kill", "cleanup"} /\ c.before = FALSE /\ c.rerun = FALSE
    BY DEF Serve!Quiet, Serve!Ops
  <2>4. cmd' = Serve!Begin(c)
    BY <2>1 DEF Serve!Command
  <2> HIDE DEF c
  <2>5. cmd'.before = FALSE /\ cmd'.rerun = FALSE
    BY <2>2, <2>3, <2>4, BeginIsTyped DEF ServiceInv
  <2> QED BY <2>5 DEF RestartKnows
<1>4. ASSUME cmd.op # "restart", cmd' = Serve!Quiet \/ cmd'.op = cmd.op PROVE RestartKnows'
  BY <1>2, <1>4 DEF RestartKnows
<1>5. ASSUME NEW p, cmd' = [cmd EXCEPT !.pc = p] PROVE cmd' = Serve!Quiet \/ cmd'.op = cmd.op
  BY <1>1, <1>5 DEF CommandSet
<1>6. ASSUME cmd'.pc \in {"cleanup", "signal", "sweep"}, cmd.pc \notin {"start", "replace", "copy", "enable"}, plists' = plists,
             cmd'.op = cmd.op, cmd'.then = cmd.then, cmd'.before = cmd.before, cmd'.rerun = cmd.rerun
      PROVE  RestartKnows'
  BY <1>6 DEF RestartKnows, ServiceInv
<1>7. CASE Serve!NotInstalled \/ Serve!Kill \/ Serve!Cleanup
  <2>1. cmd' = Serve!Quiet \/ (/\ cmd'.pc \in {"cleanup", "signal", "sweep"} /\ cmd.pc \in {"not installed", "kill", "cleanup"}
          /\ plists' = plists /\ cmd'.op = cmd.op /\ cmd'.then = cmd.then /\ cmd'.before = cmd.before /\ cmd'.rerun = cmd.rerun)
    <3>1. CASE Serve!NotInstalled
      BY <1>1, <3>1 DEF Serve!NotInstalled, Serve!At, Serve!Goto, Serve!End, CommandSet
    <3>2. CASE Serve!Kill
      BY <1>1, <3>2 DEF Serve!Kill, Serve!At, Serve!End, CommandSet
    <3>3. CASE Serve!Cleanup
      BY <1>1, <3>3 DEF Serve!Cleanup, Serve!At, CommandSet
    <3> QED BY <1>7, <3>1, <3>2, <3>3
  <2> QED BY <1>2, <1>6, <2>1
<1>8. CASE Serve!Bootstrap \/ Serve!Signal \/ Serve!Sweep \/ Serve!Boot
  BY <1>2, <1>8 DEF Serve!Bootstrap, Serve!Signal, Serve!Sweep, Serve!Boot, Serve!End
<1>9. ASSUME NEW p, cmd' = [cmd EXCEPT !.pc = p]
      PROVE  /\ cmd'.pc = p /\ cmd'.op = cmd.op /\ cmd'.then = cmd.then /\ cmd'.root = cmd.root
             /\ cmd'.before = cmd.before /\ cmd'.rerun = cmd.rerun
  BY <1>1, <1>9 DEF CommandSet
<1>10. CASE Serve!Start \/ Serve!Replace
  <2>1. CASE cmd' = Serve!Quiet
    BY <1>2, <2>1
  <2>2. CASE cmd' # Serve!Quiet
    <3>1. cmd.pc \in {"start", "replace"} /\ \E p \in {"replace", "copy"} : cmd' = [cmd EXCEPT !.pc = p]
      BY <1>10, <2>2 DEF Serve!Start, Serve!Replace, Serve!At, Serve!Goto, Serve!End
    <3> QED BY <1>9, <3>1 DEF RestartKnows, ServiceInv
  <2> QED BY <2>1, <2>2
<1>11. CASE Serve!Copy \/ Serve!Enable
  <2>1. CASE cmd' = Serve!Quiet
    BY <1>2, <2>1
  <2>2. CASE cmd' # Serve!Quiet
    <3>1. cmd.pc \in {"copy", "enable"} /\ \E p \in {"enable", "bootstrap"} : cmd' = [cmd EXCEPT !.pc = p]
      BY <1>11, <2>2 DEF Serve!Copy, Serve!Enable, Serve!At, Serve!Goto, Serve!End
    <3>2. cmd.op = "restart" /\ cmd.before => plists' # {}
      BY <1>11, <2>2 DEF Serve!Copy, Serve!Enable, Serve!At, Serve!Goto, Serve!End, RestartKnows, ServiceInv
    <3> QED BY <1>9, <3>1, <3>2 DEF RestartKnows, ServiceInv
  <2> QED BY <2>1, <2>2
<1>12. CASE Serve!Run
  <2>1. CASE cmd' = Serve!Quiet
    BY <1>2, <2>1
  <2>2. CASE cmd' # Serve!Quiet
    <3>1. cmd.pc = "run" /\ plists' = plists /\ cmd' = [cmd EXCEPT !.pc = "bootstrap"]
      BY <1>12, <2>2 DEF Serve!Run, Serve!At, Serve!Goto, Serve!End
    <3> QED BY <1>9, <3>1 DEF RestartKnows, ServiceInv
  <2> QED BY <2>1, <2>2
<1>13. CASE Serve!Stop
  <2>1. cmd.pc = "stop" /\ plists' = plists
        /\ cmd'.pc \in {"unregister", "boot out"} /\ cmd'.op = cmd.op /\ cmd'.then = cmd.then
        /\ cmd'.before = cmd.before /\ cmd'.rerun = cmd.rerun
    <3>1. CASE Serve!LoadedLabel(cmd.root, cmd.label) = None
      BY <1>1, <1>13, <3>1 DEF Serve!Stop, Serve!At, Serve!Goto, CommandSet
    <3>2. CASE Serve!LoadedLabel(cmd.root, cmd.label) # None
      BY <1>1, <1>13, <3>2 DEF Serve!Stop, Serve!At, CommandSet
    <3> QED BY <3>1, <3>2
  <2> QED BY <2>1 DEF RestartKnows, ServiceInv
<1>14. CASE Serve!BootOut
  <2>1. cmd.pc = "boot out" /\ plists' = plists /\ cmd' = [cmd EXCEPT !.pc = "still loaded"]
    BY <1>14 DEF Serve!BootOut, Serve!At, Serve!Goto
  <2> QED BY <1>9, <2>1 DEF RestartKnows, ServiceInv
<1>15. ASSUME NEW result, Serve!StopEnds(result), cmd.op # "restart" \/ cmd.then = "end" PROVE RestartKnows'
  BY <1>2, <1>4, <1>15, StopEndsResting DEF Serve!StopEnds, Serve!End
<1>16. CASE Serve!Unregister
  <2>1. cmd.pc = "unregister" /\ plists' = Serve!WithoutFiles(cmd.root, cmd.label) /\ cmd.label \in KegLabels
    BY <1>1, <1>16 DEF Serve!Unregister, Serve!At, CommandTyped, Working
  <2>2. CASE Serve!Registered(cmd.label)
    BY <1>2, <1>16, <2>2 DEF Serve!Unregister, Serve!End
  <2>3. CASE ~Serve!Registered(cmd.label) /\ cmd.op = "restart" /\ cmd.then # "end"
    <3>1. plists = {} /\ plists' = {}
      BY <2>1, <2>3, FilesAreKnown, FilesRemoved
    <3>2. Serve!StopEnds("not started")
      BY <1>16, <2>3 DEF Serve!Unregister
    <3>3. ~cmd.before
      BY <2>1, <2>3, <3>1 DEF ServiceInv, RestartKnows
    <3>4. /\ cmd'.op = cmd.op /\ cmd'.before = cmd.before /\ cmd'.rerun = cmd.rerun
         /\ cmd'.then = "end" /\ cmd'.pc \in {cmd.then, "not installed"} /\ cmd.then \in {"start", "run"}
      BY <1>1, <2>3, <3>2, StopGoesOn DEF CommandSet
    <3> QED BY <2>3, <3>1, <3>3, <3>4 DEF ServiceInv, RestartKnows
  <2>4. CASE ~Serve!Registered(cmd.label) /\ (cmd.op # "restart" \/ cmd.then = "end")
    BY <1>15, <1>16, <2>4 DEF Serve!Unregister
  <2> QED BY <2>2, <2>3, <2>4
<1>17. CASE Serve!StillLoaded
  <2>1. cmd.pc = "still loaded" /\ plists' = plists
    BY <1>17 DEF Serve!StillLoaded, Serve!At
  <2>2. CASE ~Serve!ServiceLoaded(cmd.root, cmd.job)
    <3>1. cmd' = [cmd EXCEPT !.pc = "remove"]
      BY <1>17, <2>2 DEF Serve!StillLoaded, Serve!Goto
    <3> QED BY <1>9, <2>1, <3>1 DEF RestartKnows, ServiceInv
  <2>3. CASE Serve!ServiceLoaded(cmd.root, cmd.job)
    <3>1. Serve!StopEnds("unable")
      BY <1>17, <2>3 DEF Serve!StillLoaded
    <3>2. CASE cmd.op = "restart" /\ cmd.then # "end"
      <4>1. /\ cmd'.op = cmd.op /\ cmd'.before = cmd.before /\ cmd'.rerun = cmd.rerun
         /\ cmd'.then = "end" /\ cmd'.pc \in {cmd.then, "not installed"} /\ cmd.then \in {"start", "run"}
        BY <1>1, <3>1, <3>2, StopGoesOn DEF CommandSet
      <4> QED BY <2>1, <3>2, <4>1 DEF ServiceInv, RestartKnows
    <3> QED BY <1>15, <3>1, <3>2
  <2> QED BY <2>2, <2>3
<1>18. CASE Serve!RemoveFiles
  <2>1. cmd.pc = "remove" /\ plists' = Serve!WithoutFiles(cmd.root, cmd.label) /\ loaded' = loaded /\ Serve!StopEnds("stopped") /\ NothingLoaded
    BY <1>18 DEF Serve!RemoveFiles, Serve!At, ServiceInv, StepsKnow
  <2>2. CASE cmd.op = "restart" /\ cmd.then # "end"
    <3>1. cmd'.root = cmd.root
      BY <2>1, <2>2, StopGoesOn
    <3>2. NothingLoaded'
      BY <2>1, <3>1 DEF NothingLoaded, Serve!ServiceLoaded, Serve!FindService
    <3>3. plists = {} => plists' = {}
      BY <2>1, FilesRemoved
    <3>4. /\ cmd'.op = cmd.op /\ cmd'.before = cmd.before /\ cmd'.rerun = cmd.rerun
         /\ cmd'.then = "end" /\ cmd'.pc \in {cmd.then, "not installed"} /\ cmd.then \in {"start", "run"}
      BY <1>1, <2>1, <2>2, StopGoesOn DEF CommandSet
    <3> QED BY <2>1, <2>2, <3>2, <3>3, <3>4 DEF ServiceInv, RestartKnows
  <2> QED BY <1>15, <2>1, <2>2
<1>19. CASE Serve!Restart
  <2>1. cmd.pc = "restart" /\ cmd.label \in KegLabels /\ cmd.then = "end" /\ plists' = plists
    BY <1>1, <1>19 DEF Serve!Restart, Serve!At, CommandTyped, Working, ServiceInv, StepsKnow
  <2>2. Serve!Registered(cmd.label) <=> plists # {}
    BY <2>1, FilesAreKnown
  <2> QED BY <1>19, <2>1, <2>2, RestartBegins DEF RestartKnows
<1>20. CASE Serve!Pour \/ Serve!Uninstall
  BY <1>20 DEF Serve!Pour, Serve!Uninstall, ServiceInv, RestartKnows, NothingLoaded, Serve!ServiceLoaded, Serve!FindService
<1>21. ASSUME NEW domain \in Serve!Domains, NEW l \in Serve!Labels, Serve!Exit(domain, l) PROVE RestartKnows'
  <2>1. cmd' = cmd /\ plists' = plists /\ Serve!DomainTarget(cmd.root) \in Serve!Domains
    BY <1>1, <1>21 DEF Serve!Exit, Serve!DomainTarget, Serve!Domains
  <2>2. \A d \in Serve!Domains, m \in Serve!Labels : loaded'[d][m] # "no" => loaded[d][m] # "no"
    BY <1>21 DEF Serve!Exit, ServiceInv, ServiceTyped
  <2>3. NothingLoaded => NothingLoaded'
    BY <2>1, <2>2 DEF NothingLoaded, Serve!ServiceLoaded, Serve!FindService
  <2> QED BY <2>1, <2>3 DEF ServiceInv, RestartKnows
<1> QED BY <1>3, <1>7, <1>8, <1>10, <1>11, <1>12, <1>13, <1>14, <1>16, <1>17, <1>18, <1>19, <1>20, <1>21 DEF Serve!Next

-------------------------------------------------------------------------------
(* Nothing is loaded at first. *)
LEMMA ServicesBegin == ASSUME Serve!Init PROVE ServiceInv
<1>1. ServiceTyped
  BY QuietIsTyped DEF Serve!Init, ServiceTyped
<1>2. Serve!OneInstance
  BY DEF Serve!Init, Serve!OneInstance
<1>3. StepsKnow /\ RestartKnows
  BY DEF Serve!Init, StepsKnow, RestartKnows, Serve!Quiet
<1> QED BY <1>1, <1>2, <1>3 DEF ServiceInv

(* The inductive step. *)
LEMMA ServicesGoOn == ASSUME Serve!Parameters, ServiceInv, [Serve!Next]_ServeVars PROVE ServiceInv'
<1>1. CASE Serve!Next
  BY <1>1, TypesAre, InstancesAre, StepsStillKnow, RestartStillKnows DEF ServiceInv
<1>2. CASE UNCHANGED ServeVars
  BY <1>2 DEF ServeVars, ServiceInv, ServiceTyped, Serve!OneInstance, StepsKnow, RestartKnows, NoneBut, NothingLoaded, Serve!ServiceLoaded, Serve!FindService
<1> QED BY <1>1, <1>2

(* Only one step removes the files of what was stopped. *)
LEMMA StoppedIs == ASSUME Serve!Parameters, ServiceInv, [Serve!Next]_ServeVars PROVE Serve!StoppedIsStoppedStep
<1> SUFFICES ASSUME cmd.pc = "remove", cmd'.pc # "remove", said' # "lost"
             PROVE  \A l \in Serve!Labels : /\ loaded'[Serve!DomainTarget(cmd.root)][l] = "no"
                                            /\ <<Serve!DestDir(cmd.root), l>> \notin plists'
  BY DEF Serve!StoppedIsStoppedStep, Serve!At
<1>1. Serve!RemoveFiles
  BY DEF Serve!Next, ServeVars, Serve!Command, Serve!NotInstalled, Serve!Start, Serve!Replace, Serve!Copy, Serve!Enable, Serve!Bootstrap, Serve!Run, Serve!Stop, Serve!Unregister, Serve!BootOut,
         Serve!StillLoaded, Serve!Restart, Serve!Kill, Serve!Signal, Serve!Cleanup, Serve!Sweep, Serve!Pour, Serve!Uninstall, Serve!Boot, Serve!Exit, Serve!At, Serve!Idle
<1>2. loaded' = loaded /\ plists' = Serve!WithoutFiles(cmd.root, cmd.label)
  BY <1>1 DEF Serve!RemoveFiles
<1>3. NothingLoaded /\ cmd.label \in KegLabels /\ cmd.root \in BOOLEAN
  BY DEF ServiceInv, ServiceTyped, CommandTyped, CommandSet, StepsKnow, Working
<1> QED BY <1>2, <1>3, WithoutFilesIs DEF NothingLoaded, Serve!ServiceLoaded, Serve!FindService

(* Only start, bootstrap and run end a restart well. *)
LEMMA RestartKeeps == ASSUME Serve!Parameters, ServiceInv, [Serve!Next]_ServeVars PROVE Serve!RestartKeepsRegistrationStep
<1> DEFINE stays == \E dir \in Serve!Dirs, l \in Serve!LabelSet(cmd.label) : <<dir, l>> \in plists'
<1> SUFFICES ASSUME cmd.op = "restart", cmd'.pc = "idle", said' \in {"done", "already"}
             PROVE  (cmd.before => stays) /\ (~cmd.before /\ cmd.rerun => ~stays)
  BY DEF Serve!RestartKeepsRegistrationStep, Serve!Idle
<1>0. Serve!Quiet.op = "none"
  BY DEF Serve!Quiet
<1>1. CommandTyped(cmd) /\ cmd.pc # "idle" /\ cmd \in CommandSet
  BY <1>0 DEF ServiceInv, ServiceTyped, CommandTyped
<1>2. Serve!Start \/ Serve!Bootstrap \/ Serve!Run
  <2>1. ASSUME NEW result, Serve!StopEnds(result), result \notin {"done", "already"} PROVE FALSE
    <3>1. cmd.then # "end"
      BY <2>1 DEF Serve!StopEnds, Serve!End
    <3>2. cmd'.pc \in {cmd.then, "not installed"} /\ cmd.then \in {"start", "run"}
      BY <1>1, <2>1, <3>1, StopGoesOn DEF CommandSet
    <3> QED BY <3>2
  <2>2. ~Serve!Unregister /\ ~Serve!StillLoaded /\ ~Serve!RemoveFiles
    BY <1>1, <2>1 DEF Serve!Unregister, Serve!StillLoaded, Serve!RemoveFiles, Serve!End, Serve!Goto, CommandSet
  <2>3. ~Serve!Restart
    BY RestartBegins
  <2>4. ~Serve!Stop
    BY <1>1 DEF Serve!Stop, Serve!Goto, CommandSet
  <2>5. ~Serve!Kill
    BY <1>1 DEF Serve!Kill, Serve!End, CommandSet
  <2>6. ~(Serve!NotInstalled \/ Serve!Replace \/ Serve!Copy \/ Serve!Enable \/ Serve!BootOut \/ Serve!Signal \/ Serve!Cleanup \/ Serve!Sweep \/ Serve!Boot)
    BY <1>1 DEF Serve!NotInstalled, Serve!Replace, Serve!Copy, Serve!Enable, Serve!BootOut, Serve!Signal, Serve!Cleanup, Serve!Sweep, Serve!Boot, Serve!Goto, Serve!End, CommandSet
  <2>7. ~(Serve!Pour \/ Serve!Uninstall \/ UNCHANGED ServeVars) /\ ~(\E op \in Serve!Ops, root, all \in BOOLEAN : Serve!Command(op, root, all))
        /\ ~(\E domain \in Serve!Domains, l \in Serve!Labels : Serve!Exit(domain, l))
    BY <1>1 DEF Serve!Pour, Serve!Uninstall, ServeVars, Serve!Command, Serve!Exit, Serve!Idle
  <2> QED BY <2>2, <2>3, <2>4, <2>5, <2>6, <2>7 DEF Serve!Next
<1>3. plists' = plists /\ cmd.label \in KegLabels /\ cmd.pc \in {"start", "bootstrap", "run"}
  BY <1>1, <1>2 DEF Serve!Start, Serve!Bootstrap, Serve!Run, Serve!At, CommandTyped, Working
<1>4. cmd.pc = "start" => ~NothingLoaded
  <2>1. ASSUME cmd.pc = "start" PROVE ~NothingLoaded
    <3>1. Serve!Start
      BY <1>2, <2>1 DEF Serve!Bootstrap, Serve!Run, Serve!At
    <3>2. Serve!NothingToDo(cmd.root, cmd.label)
      BY <1>1, <3>1 DEF Serve!Start, Serve!Goto, CommandSet
    <3> QED BY <1>3, <3>2, NothingToDoIs
  <2> QED BY <2>1
<1>5. (cmd.before => plists # {}) /\ (~cmd.before /\ cmd.rerun => plists = {})
  BY <1>3, <1>4 DEF ServiceInv, RestartKnows
<1>6. stays <=> plists # {}
  BY <1>3, FilesAreKnown DEF Serve!Registered
<1> HIDE DEF stays
<1> QED BY <1>5, <1>6

-------------------------------------------------------------------------------
(* The links in the prefix *)
Paths == Prefix!Paths
Within(p, q) == p = q \/ p \in Prefix!Above(q)
Root == Prefix!Root

(* A path is in what it begins with. *)
LEMMA PathsAre ==
  ASSUME Prefix!Parameters, NEW p \in Paths
  PROVE  p \in Seq(PathNames) /\ Len(p) \in Nat \ {0} /\ p = SubSeq(p, 1, Len(p)) /\ p = [i \in 1..Len(p) |-> p[i]]
<1>1. p \in Seq(PathNames) /\ p # <<>>
  BY DEF Prefix!Parameters, Prefix!Root, Paths
<1> QED BY <1>1

LEMMA AboveAre ==
  ASSUME Prefix!Parameters, NEW p \in Paths, NEW d
  PROVE  d \in Prefix!Above(p) <=> d \in LinkDirs /\ Len(d) < Len(p) /\ d = SubSeq(p, 1, Len(d))
<1>1. ASSUME d \in LinkDirs, Prefix!IsStrictPrefix(d, p)
      PROVE  Len(d) < Len(p) /\ d = SubSeq(p, 1, Len(d))
  <2>1. d \in Paths
    BY <1>1 DEF Paths, Prefix!Paths
  <2>2. Len(d) <= Len(p) /\ d = SubSeq(p, 1, Len(d)) /\ d # p
    BY <1>1, <2>1, PathsAre DEF Prefix!IsStrictPrefix, Prefix!IsPrefix
  <2>3. Len(d) # Len(p)
    BY <2>1, <2>2, PathsAre
  <2> QED BY <2>1, <2>2, <2>3, PathsAre
<1>2. ASSUME d \in LinkDirs, Len(d) < Len(p), d = SubSeq(p, 1, Len(d))
      PROVE  Prefix!IsStrictPrefix(d, p)
  <2>1. d \in Paths
    BY <1>2 DEF Paths, Prefix!Paths
  <2>2. d = SubSeq(d, 1, Len(d)) /\ Len(d) <= Len(p) /\ d # p
    BY <1>2, <2>1, PathsAre
  <2> QED BY <1>2, <2>2 DEF Prefix!IsStrictPrefix, Prefix!IsPrefix
<1> QED BY <1>1, <1>2 DEF Prefix!Above

LEMMA AboveIn ==
  ASSUME Prefix!Parameters, NEW p
  PROVE  Prefix!Above(p) \subseteq LinkDirs /\ LinkDirs \subseteq Paths /\ LinkFiles \subseteq Paths
BY DEF Prefix!Above, Paths, Prefix!Paths

LEMMA WithinTrans ==
  ASSUME Prefix!Parameters, NEW p \in Paths, NEW q \in Paths, NEW r \in Paths, Within(p, q), Within(q, r)
  PROVE  Within(p, r) /\ (p # q => p \in Prefix!Above(r)) /\ (q # r => p \in Prefix!Above(r))
<1>1. CASE p = q \/ q = r
  BY <1>1 DEF Within
<1>2. CASE p \in Prefix!Above(q) /\ q \in Prefix!Above(r)
  <2>1. p \in LinkDirs /\ Len(p) < Len(q) /\ p = SubSeq(q, 1, Len(p)) /\ Len(q) < Len(r) /\ q = SubSeq(r, 1, Len(q))
    BY <1>2, AboveAre
  <2>2. p = SubSeq(r, 1, Len(p)) /\ Len(p) < Len(r)
    BY <2>1, PathsAre
  <2> QED BY <2>1, <2>2, AboveAre DEF Within
<1> QED BY <1>1, <1>2 DEF Within

LEMMA NotAboveItself ==
  ASSUME Prefix!Parameters, NEW p \in Paths, NEW q \in Paths, p \in Prefix!Above(q)
  PROVE  p # q /\ ~Within(q, p)
<1>1. Len(p) < Len(q) /\ Len(p) \in Nat /\ Len(q) \in Nat
  BY AboveAre, PathsAre
<1>2. q \in Prefix!Above(p) => Len(q) < Len(p)
  BY AboveAre
<1> QED BY <1>1, <1>2 DEF Within

LEMMA WithinLinear ==
  ASSUME Prefix!Parameters, NEW p \in Paths, NEW q \in Paths, NEW r \in Paths, Within(p, r), Within(q, r)
  PROVE  Within(p, q) \/ Within(q, p)
<1>1. CASE p = r \/ q = r
  BY <1>1 DEF Within
<1>2. CASE p \in Prefix!Above(r) /\ q \in Prefix!Above(r)
  <2>1. /\ p \in LinkDirs /\ Len(p) < Len(r) /\ p = SubSeq(r, 1, Len(p))
        /\ q \in LinkDirs /\ Len(q) < Len(r) /\ q = SubSeq(r, 1, Len(q))
    BY <1>2, AboveAre
  <2>2. Len(p) = Len(q) => p = q
    BY <2>1
  <2>3. Len(p) < Len(q) => p = SubSeq(q, 1, Len(p))
    BY <2>1, PathsAre
  <2>4. Len(q) < Len(p) => q = SubSeq(p, 1, Len(q))
    BY <2>1, PathsAre
  <2>5. Len(p) \in Nat /\ Len(q) \in Nat
    BY PathsAre
  <2>6. CASE Len(p) < Len(q)
    BY <2>1, <2>3, <2>6, AboveAre DEF Within
  <2>7. CASE Len(q) < Len(p)
    BY <2>1, <2>4, <2>7, AboveAre DEF Within
  <2> QED BY <2>2, <2>5, <2>6, <2>7 DEF Within
<1> QED BY <1>1, <1>2 DEF Within

(* What is in a directory. *)
LEMMA FrontIs ==
  ASSUME Prefix!Parameters, NEW c \in Paths
  PROVE  /\ Prefix!Front(c) = Root => Prefix!Above(c) = {}
         /\ Prefix!Front(c) \in LinkDirs => Prefix!Above(c) = Prefix!Above(Prefix!Front(c)) \cup {Prefix!Front(c)}
<1> DEFINE f == Prefix!Front(c)
<1>1. /\ c \in Seq(PathNames) /\ Len(c) \in Nat \ {0} /\ f = SubSeq(c, 1, Len(c) - 1)
      /\ Len(f) = Len(c) - 1 /\ Prefix!Front(c) = f
  <2>1. f = SubSeq(c, 1, Len(c) - 1)
    BY DEF Prefix!Front
  <2>2. c \in Seq(PathNames) /\ Len(c) \in Nat \ {0}
    BY PathsAre
  <2>3. Len(SubSeq(c, 1, Len(c) - 1)) = Len(c) - 1
    <3> DEFINE n == Len(c) - 1
    <3>1. n \in Nat /\ n <= Len(c)
      BY <2>2
    <3>2. Len(SubSeq(c, 1, n)) = n
      <4> HIDE DEF n
      <4> QED BY <2>2, <3>1
    <3> QED BY <3>2
  <2> QED BY <2>1, <2>2, <2>3
<1> HIDE DEF f
<1>0. Root \notin LinkDirs
  BY AboveIn DEF Prefix!Parameters, Root, Paths
<1>2. CASE f = Root
  <2>1. Len(c) = 1
    <3>1. Len(f) = 0
      BY <1>2 DEF Root, Prefix!Root
    <3> QED BY <1>1, <3>1
  <2>2. \A d \in Prefix!Above(c) : Len(d) < 1 /\ Len(d) \in Nat \ {0}
    <3> SUFFICES ASSUME NEW d \in Prefix!Above(c) PROVE Len(d) < 1 /\ Len(d) \in Nat \ {0}
      OBVIOUS
    <3>1. d \in Paths /\ Len(d) < Len(c)
      BY AboveAre, AboveIn
    <3>2. Len(d) \in Nat \ {0}
      BY <3>1, PathsAre
    <3> QED BY <2>1, <3>1, <3>2
  <2>3. Prefix!Above(c) = {}
    BY <2>2
  <2> QED BY <1>0, <1>1, <1>2, <2>3
<1>3. CASE f \in LinkDirs
  <2>1. f \in Paths
    BY <1>3, AboveIn
  <2>2. f \in Prefix!Above(c)
    <3>1. f = SubSeq(c, 1, Len(f)) /\ Len(f) < Len(c)
      BY <1>1
    <3> QED BY <1>3, <3>1, AboveAre
  <2>3. \A d \in Prefix!Above(f) : d \in Prefix!Above(c)
    BY <2>1, <2>2, AboveIn, WithinTrans DEF Within
  <2>4. ASSUME NEW d \in Prefix!Above(c), d # f PROVE d \in Prefix!Above(f)
    <3>1. d \in LinkDirs /\ Len(d) < Len(c) /\ d = SubSeq(c, 1, Len(d)) /\ d \in Paths
      BY AboveAre, AboveIn
    <3>2. Len(d) # Len(f)
      BY <1>1, <2>4, <3>1
    <3>3. Len(d) \in Nat /\ Len(d) < Len(f)
      BY <1>1, <3>1, <3>2, PathsAre
    <3>4. d = SubSeq(f, 1, Len(d))
      <4>1. f = SubSeq(c, 1, Len(f))
        BY <1>1
      <4> QED BY <1>1, <3>1, <3>3, <4>1
    <3> QED BY <2>1, <3>1, <3>3, <3>4, AboveAre
  <2>5. Prefix!Above(c) = Prefix!Above(f) \cup {f}
    BY <2>2, <2>3, <2>4
  <2> QED BY <1>0, <1>1, <1>3, <2>5
<1> QED BY <1>1, <1>2, <1>3

LEMMA ChildIs ==
  ASSUME Prefix!Parameters, NEW f \in Paths, NEW dir, dir = Root \/ dir \in Prefix!Above(f)
  PROVE  \E c \in Paths : Prefix!Front(c) = dir /\ Within(c, f)
<1>1. Len(dir) \in Nat /\ Len(dir) < Len(f) /\ dir = SubSeq(f, 1, Len(dir)) /\ f \in Seq(PathNames) /\ Len(f) \in Nat
  <2>1. CASE dir = Root
    BY <2>1, PathsAre DEF Root, Prefix!Root
  <2>2. CASE dir \in Prefix!Above(f)
    BY <2>2, AboveAre, AboveIn, PathsAre
  <2> QED BY <2>1, <2>2
<1>2. CASE Len(f) = Len(dir) + 1
  <2>1. Prefix!Front(f) = dir
    BY <1>1, <1>2 DEF Prefix!Front
  <2> QED BY <2>1 DEF Within
<1>3. CASE Len(f) # Len(dir) + 1
  <2> DEFINE c == SubSeq(f, 1, Len(dir) + 1)
  <2>1. c \in LinkDirs /\ c \in Paths
    <3> DEFINE n == Len(dir) + 1
    <3>1. n \in 1..(Len(f) - 1)
      BY <1>1, <1>3
    <3>2. \A p \in Paths : \A i \in 1..(Len(p) - 1) : SubSeq(p, 1, i) \in LinkDirs
      BY DEF Prefix!Parameters, Paths
    <3> HIDE DEF n
    <3>3. SubSeq(f, 1, n) \in LinkDirs
      BY <3>1, <3>2
    <3> QED BY <3>3, AboveIn DEF n
  <2>2. Len(c) = Len(dir) + 1 /\ Prefix!Front(c) = dir /\ c = SubSeq(f, 1, Len(c))
    BY <1>1, <1>3 DEF Prefix!Front
  <2> HIDE DEF c
  <2>3. c \in Prefix!Above(f)
    BY <1>1, <1>3, <2>1, <2>2, AboveAre
  <2> QED BY <2>1, <2>2, <2>3 DEF Within
<1> QED BY <1>2, <1>3

-------------------------------------------------------------------------------
(* What is left of a walk *)
Items == [keg : LinkedKegs, path : Paths, other : BOOLEAN]
Trees == [LinkedKegs -> SUBSET Paths]

Apart(s) == \A i, j \in DOMAIN s : i # j /\ s[i].other = s[j].other => ~Within(s[i].path, s[j].path)
OthersFirst(s) == \A i, j \in DOMAIN s : i < j /\ s[j].other => s[i].other
OfOneKeg(s) == \A i, j \in DOMAIN s : s[i].other /\ s[j].other => s[i].keg = s[j].keg
Ahead(s, k, p) == \E i \in DOMAIN s : s[i].keg = k /\ Within(s[i].path, p)

LEMMA ChildrenAre ==
  ASSUME Prefix!Parameters, tree \in Trees, NEW k \in LinkedKegs, NEW dir, NEW o \in BOOLEAN
  PROVE  LET s == Prefix!Children(k, dir, o) IN
         /\ s \in Seq(Items)
         /\ \A i \in DOMAIN s : /\ s[i] \in Items /\ s[i].keg = k /\ s[i].other = o
                                /\ s[i].path \in tree[k] /\ Prefix!Front(s[i].path) = dir
         /\ \A i, j \in DOMAIN s : s[i].path = s[j].path => i = j
         /\ \A p \in tree[k] : Prefix!Front(p) = dir => \E i \in DOMAIN s : s[i].path = p
<1> DEFINE set == {p \in tree[k] : Prefix!Front(p) = dir}
           paths == Sorted[set]
           s == [i \in DOMAIN paths |-> [keg |-> k, path |-> paths[i], other |-> o]]
<1>1. set \in SUBSET Paths /\ set \subseteq tree[k] /\ tree[k] \subseteq Paths
  BY DEF Trees
<1>2. /\ paths \in Seq(set) /\ set = {paths[i] : i \in DOMAIN paths}
      /\ \A i, j \in DOMAIN paths : paths[i] = paths[j] => i = j
  <2> HIDE DEF set
  <2> QED BY <1>1 DEF Prefix!Parameters, Paths
<1>3. Prefix!Children(k, dir, o) = s
  BY DEF Prefix!Children, Prefix!Item
<1>4. DOMAIN paths = 1..Len(paths) /\ Len(paths) \in Nat
  <2> HIDE DEF set
  <2> QED BY <1>2
<1>5. ASSUME NEW i \in DOMAIN paths PROVE s[i] \in Items /\ s[i] = [keg |-> k, path |-> paths[i], other |-> o] /\ paths[i] \in set
  <2>1. paths[i] \in set
    <3> HIDE DEF set
    <3> QED BY <1>2
  <2>2. paths[i] \in Paths
    BY <1>1, <2>1
  <2> HIDE DEF paths, set
  <2> QED BY <2>1, <2>2 DEF Items
<1>6. s \in Seq(Items)
  <2> HIDE DEF paths
  <2>1. s \in [1..Len(paths) -> Items]
    BY <1>4, <1>5
  <2> QED BY <1>4, <2>1
<1>7. \A p \in set : \E i \in DOMAIN paths : paths[i] = p
  BY <1>2
<1>8. DOMAIN s = DOMAIN paths
  OBVIOUS
<1>9. \A i \in DOMAIN paths : paths[i] \in tree[k] /\ Prefix!Front(paths[i]) = dir
  <2> SUFFICES ASSUME NEW i \in DOMAIN paths PROVE paths[i] \in tree[k] /\ Prefix!Front(paths[i]) = dir
    OBVIOUS
  <2>1. paths[i] \in set
    BY <1>5
  <2> HIDE DEF paths
  <2> QED BY <2>1
<1>10. \A p \in tree[k] : Prefix!Front(p) = dir => p \in set
  OBVIOUS
<1> HIDE DEF paths, set
<1>11. /\ \A i \in DOMAIN s : s[i].keg = k /\ s[i].other = o /\ s[i].path = paths[i] /\ s[i] \in Items
  BY <1>5, <1>8
<1> HIDE DEF s
<1> QED BY <1>2, <1>3, <1>6, <1>7, <1>8, <1>9, <1>10, <1>11

LEMMA ConcatIs ==
  ASSUME NEW S, NEW s \in Seq(S), NEW t \in Seq(S)
  PROVE  /\ s \o t \in Seq(S)
         /\ \A i \in DOMAIN (s \o t) :
              \/ i \in DOMAIN s /\ (s \o t)[i] = s[i]
              \/ i - Len(s) \in DOMAIN t /\ (s \o t)[i] = t[i - Len(s)] /\ i > Len(s)
         /\ \A i \in DOMAIN s : i \in DOMAIN (s \o t) /\ (s \o t)[i] = s[i]
         /\ \A i \in DOMAIN t : i + Len(s) \in DOMAIN (s \o t) /\ (s \o t)[i + Len(s)] = t[i]
BY SMTT(60)

LEMMA TailIs ==
  ASSUME NEW S, NEW s \in Seq(S), s # <<>>
  PROVE  /\ Tail(s) \in Seq(S) /\ Head(s) = s[1] /\ 1 \in DOMAIN s /\ Head(s) \in S
         /\ \A i \in DOMAIN Tail(s) : i + 1 \in DOMAIN s /\ Tail(s)[i] = s[i + 1] /\ i \in Nat \ {0}
         /\ \A i \in DOMAIN s : i = 1 \/ (i - 1 \in DOMAIN Tail(s) /\ Tail(s)[i - 1] = s[i])
OBVIOUS

(* Walks that follow each other are apart when each is and they are of each other. *)
LEMMA ConcatApart ==
  ASSUME NEW s \in Seq(Items), NEW t \in Seq(Items), Apart(s), Apart(t),
         \A i \in DOMAIN s, j \in DOMAIN t :
            s[i].other = t[j].other => ~Within(s[i].path, t[j].path) /\ ~Within(t[j].path, s[i].path)
  PROVE  Apart(s \o t)
<1> DEFINE st == s \o t
<1>1. /\ \A i \in DOMAIN st : \/ i \in DOMAIN s /\ st[i] = s[i]
                              \/ i - Len(s) \in DOMAIN t /\ st[i] = t[i - Len(s)]
      /\ DOMAIN st \subseteq Nat /\ Len(s) \in Nat
  BY ConcatIs
<1> HIDE DEF st
<1> SUFFICES ASSUME NEW i \in DOMAIN st, NEW j \in DOMAIN st, i # j, st[i].other = st[j].other
             PROVE  ~Within(st[i].path, st[j].path)
  BY DEF Apart, st
<1>2. CASE i \in DOMAIN s /\ st[i] = s[i] /\ j \in DOMAIN s /\ st[j] = s[j]
  BY <1>2 DEF Apart
<1>3. CASE i - Len(s) \in DOMAIN t /\ st[i] = t[i - Len(s)] /\ j - Len(s) \in DOMAIN t /\ st[j] = t[j - Len(s)]
  <2>1. i - Len(s) # j - Len(s)
    BY <1>1
  <2> QED BY <1>3, <2>1 DEF Apart
<1>4. CASE i \in DOMAIN s /\ st[i] = s[i] /\ j - Len(s) \in DOMAIN t /\ st[j] = t[j - Len(s)]
  BY <1>4
<1>5. CASE i - Len(s) \in DOMAIN t /\ st[i] = t[i - Len(s)] /\ j \in DOMAIN s /\ st[j] = s[j]
  BY <1>5
<1> QED BY <1>1, <1>2, <1>3, <1>4, <1>5

LEMMA ConcatOthersFirst ==
  ASSUME NEW s \in Seq(Items), NEW t \in Seq(Items), OthersFirst(s), OthersFirst(t),
         (\A i \in DOMAIN s : s[i].other) \/ (\A i \in DOMAIN t : ~t[i].other)
  PROVE  OthersFirst(s \o t)
<1> DEFINE st == s \o t
<1>1. /\ \A i \in DOMAIN st : \/ i \in DOMAIN s /\ st[i] = s[i]
                              \/ i - Len(s) \in DOMAIN t /\ st[i] = t[i - Len(s)] /\ i > Len(s)
      /\ DOMAIN st \subseteq Nat /\ Len(s) \in Nat /\ DOMAIN s = 1..Len(s)
  BY ConcatIs
<1> HIDE DEF st
<1> SUFFICES ASSUME NEW i \in DOMAIN st, NEW j \in DOMAIN st, i < j, st[j].other
             PROVE  st[i].other
  BY DEF OthersFirst, st
<1>2. CASE i \in DOMAIN s /\ st[i] = s[i] /\ j \in DOMAIN s /\ st[j] = s[j]
  BY <1>2 DEF OthersFirst
<1>3. CASE i - Len(s) \in DOMAIN t /\ st[i] = t[i - Len(s)] /\ j - Len(s) \in DOMAIN t /\ st[j] = t[j - Len(s)]
  <2>1. i - Len(s) < j - Len(s)
    BY <1>1
  <2> QED BY <1>3, <2>1 DEF OthersFirst
<1>4. CASE i \in DOMAIN s /\ st[i] = s[i] /\ j - Len(s) \in DOMAIN t /\ st[j] = t[j - Len(s)]
  BY <1>4
<1>5. CASE i > Len(s) /\ j \in DOMAIN s
  BY <1>1, <1>5
<1> QED BY <1>1, <1>2, <1>3, <1>4, <1>5

LEMMA ConcatAhead ==
  ASSUME NEW s \in Seq(Items), NEW t \in Seq(Items), NEW k, NEW p
  PROVE  Ahead(s \o t, k, p) <=> Ahead(s, k, p) \/ Ahead(t, k, p)
<1> DEFINE st == s \o t
<1>1. /\ \A i \in DOMAIN st : (i \in DOMAIN s /\ st[i] = s[i]) \/ (i - Len(s) \in DOMAIN t /\ st[i] = t[i - Len(s)])
      /\ \A i \in DOMAIN s : i \in DOMAIN st /\ st[i] = s[i]
      /\ \A i \in DOMAIN t : i + Len(s) \in DOMAIN st /\ st[i + Len(s)] = t[i]
  BY ConcatIs
<1> HIDE DEF st
<1>2. Ahead(st, k, p) => Ahead(s, k, p) \/ Ahead(t, k, p)
  BY <1>1 DEF Ahead
<1>3. Ahead(s, k, p) \/ Ahead(t, k, p) => Ahead(st, k, p)
  BY <1>1 DEF Ahead
<1> QED BY <1>2, <1>3 DEF st
LEMMA ConcatHolds ==
  ASSUME NEW s \in Seq(Items), NEW t \in Seq(Items), NEW i \in DOMAIN (s \o t)
  PROVE  (\E j \in DOMAIN s : (s \o t)[i] = s[j]) \/ (\E j \in DOMAIN t : (s \o t)[i] = t[j])
BY ConcatIs

LEMMA TailAhead ==
  ASSUME NEW s \in Seq(Items), s # <<>>, NEW k, NEW p, Ahead(s, k, p)
  PROVE  Ahead(Tail(s), k, p) \/ (s[1].keg = k /\ Within(s[1].path, p))
<1>1. PICK i \in DOMAIN s : s[i].keg = k /\ Within(s[i].path, p)
  BY DEF Ahead
<1>2. i = 1 \/ (i - 1 \in DOMAIN Tail(s) /\ Tail(s)[i - 1] = s[i])
  BY TailIs
<1> QED BY <1>1, <1>2 DEF Ahead

(* The children of one directory. *)
LEMMA ChildrenApart ==
  ASSUME Prefix!Parameters, tree \in Trees, NEW k \in LinkedKegs, NEW dir, dir = Root \/ dir \in LinkDirs, NEW o \in BOOLEAN
  PROVE  Apart(Prefix!Children(k, dir, o)) /\ OthersFirst(Prefix!Children(k, dir, o)) /\ OfOneKeg(Prefix!Children(k, dir, o))
<1> DEFINE s == Prefix!Children(k, dir, o)
<1>1. /\ \A i \in DOMAIN s : s[i].keg = k /\ s[i].other = o /\ s[i].path \in Paths /\ Prefix!Front(s[i].path) = dir
      /\ \A i, j \in DOMAIN s : s[i].path = s[j].path => i = j
  BY ChildrenAre DEF Items
<1>2. ASSUME NEW p \in Paths, NEW q \in Paths, Prefix!Front(p) = dir, Prefix!Front(q) = dir, p \in Prefix!Above(q)
      PROVE  FALSE
  <2>1. Prefix!Above(p) = Prefix!Above(q)
    BY <1>2, FrontIs
  <2>2. p \notin Prefix!Above(p)
    BY NotAboveItself
  <2> QED BY <1>2, <2>1, <2>2
<1> HIDE DEF s
<1> QED BY <1>1, <1>2 DEF Apart, OthersFirst, OfOneKeg, Within, s

LEMMA ChildrenAhead ==
  ASSUME Prefix!Parameters, tree \in Trees, NEW k \in LinkedKegs, NEW dir, NEW o \in BOOLEAN, NEW f \in tree[k],
         Prefix!Above(f) \subseteq tree[k], dir = Root \/ dir \in Prefix!Above(f)
  PROVE  Ahead(Prefix!Children(k, dir, o), k, f)
<1>1. f \in Paths
  BY DEF Trees
<1>2. PICK c \in Paths : Prefix!Front(c) = dir /\ Within(c, f)
  BY <1>1, ChildIs
<1>3. c \in tree[k]
  BY <1>2 DEF Within
<1> DEFINE s == Prefix!Children(k, dir, o)
<1>4. /\ \A i \in DOMAIN s : s[i].keg = k
      /\ \A p \in tree[k] : Prefix!Front(p) = dir => \E i \in DOMAIN s : s[i].path = p
  BY ChildrenAre
<1> HIDE DEF s
<1> QED BY <1>2, <1>3, <1>4 DEF Ahead, s

-------------------------------------------------------------------------------
(* What the prefix holds *)
LinkTo(k, p) == [keg |-> k, path |-> p]
Nodes == [Paths -> {None, RealDir, UserFile} \cup Prefix!Links]

(* None of the directories that p is in is a link; nothing is at p or below. *)
Bare(n, p) == \A d \in Prefix!Above(p) : ~Prefix!IsLink(n[d])
Fresh(n, p) == \A q \in Paths : Within(p, q) => n[q] = None
(* A file of k's is reached through a link to it or to a directory it is in. *)
Reached(n, k, f) == \E p \in Paths : Within(p, f) /\ n[p] = LinkTo(k, p)

(* What is there is in directories, and links lead to the same path of a keg of W. *)
NodesOk(tr, n, W) ==
  \A p \in Paths :
    /\ n[p] # None => \A d \in Prefix!Above(p) : n[d] = RealDir
    /\ n[p] = RealDir => p \in LinkDirs
    /\ n[p] = UserFile => p \in LinkFiles
    /\ Prefix!IsLink(n[p]) => n[p].path = p /\ n[p].keg \in W /\ p \in tr[n[p].keg]

LEMMA LinksAre ==
  ASSUME Prefix!Parameters, NEW k \in LinkedKegs, NEW p \in Paths
  PROVE  LinkTo(k, p) \in Prefix!Links /\ Prefix!IsLink(LinkTo(k, p))
<1>1. LinkTo(k, p) \in Prefix!Links
  BY DEF LinkTo, Prefix!Links, Paths
<1> QED BY <1>1 DEF Prefix!Parameters, Prefix!IsLink

LEMMA NodeIs ==
  ASSUME Prefix!Parameters, NEW tr, NEW n \in Nodes, NEW W, NodesOk(tr, n, W), NEW p \in Paths
  PROVE  /\ Prefix!IsLink(n[p]) => n[p] \in Prefix!Links /\ n[p].keg \in LinkedKegs /\ n[p] = LinkTo(n[p].keg, p)
         /\ n[p] # None => Bare(n, p)
         /\ n[p] # RealDir => \A q \in Paths : p \in Prefix!Above(q) => n[q] = None
<1>1. Prefix!IsLink(n[p]) => n[p] \in Prefix!Links /\ n[p].path = p
  BY DEF Nodes, NodesOk, Prefix!IsLink
<1>2. n[p] \in Prefix!Links => n[p] = [keg |-> n[p].keg, path |-> n[p].path] /\ n[p].keg \in LinkedKegs
  BY DEF Prefix!Links
<1>3. n[p] # None => Bare(n, p)
  BY DEF NodesOk, Bare, Prefix!IsLink
<1>4. n[p] # RealDir => \A q \in Paths : p \in Prefix!Above(q) => n[q] = None
  BY DEF NodesOk
<1> QED BY <1>1, <1>2, <1>3, <1>4 DEF LinkTo

(* What the code sees at a path. *)
LEMMA BareIsShown ==
  ASSUME NEW p, Bare(node, p)
  PROVE  Prefix!Via(p) = {} /\ Prefix!Shown(p) = node[p]
<1>1. Prefix!Via(p) = {}
  BY DEF Bare, Prefix!Via
<1> QED BY <1>1 DEF Prefix!Shown

LEMMA ReachedIsShown ==
  ASSUME Prefix!Parameters, node \in Nodes, NEW W, NodesOk(tree, node, W), NEW k \in LinkedKegs, NEW f \in Paths, f \in tree[k],
         Reached(node, k, f)
  PROVE  Prefix!Shown(f) = LinkTo(k, f)
<1>1. PICK p \in Paths : Within(p, f) /\ node[p] = LinkTo(k, p)
  BY DEF Reached
<1>2. Prefix!IsLink(node[p]) /\ Bare(node, p) /\ node[p] # RealDir /\ node[p].keg = k
  BY <1>1, LinksAre, NodeIs DEF Prefix!IsLink, LinkTo
<1>3. CASE p = f
  BY <1>1, <1>2, <1>3, BareIsShown
<1>4. CASE p \in Prefix!Above(f)
  <2>1. ASSUME NEW e \in Prefix!Above(f), Prefix!IsLink(node[e]) PROVE e = p
    <3>1. e \in Paths /\ (Within(e, p) \/ Within(p, e))
      BY <1>1, <1>4, AboveIn, WithinLinear DEF Within
    <3>2. e \notin Prefix!Above(p)
      BY <1>2, <2>1 DEF Bare
    <3>3. p \notin Prefix!Above(e)
      BY <1>2, <2>1, <3>1, NodeIs DEF Prefix!IsLink
    <3> QED BY <3>1, <3>2, <3>3 DEF Within
  <2>2. {e \in Prefix!Above(f) : Prefix!IsLink(node[e])} = {p}
    BY <1>2, <1>4, <2>1
  <2>3. Prefix!Via(f) = {k}
    BY <1>2, <2>2 DEF Prefix!Via
  <2> QED BY <2>3 DEF Prefix!Shown, LinkTo
<1> QED BY <1>1, <1>3, <1>4 DEF Within

-------------------------------------------------------------------------------
(* What is done to the prefix: something is placed, a link is removed. *)
Placed(n, path, target) ==
  [p \in Paths |-> IF p = path THEN target ELSE IF p \in Prefix!Above(path) /\ n[p] = None THEN RealDir ELSE n[p]]

LEMMA PlacedIs ==
  ASSUME Prefix!Parameters, NEW tr, NEW n \in Nodes, NEW W, NodesOk(tr, n, W), NEW path \in Paths, Bare(n, path), NEW target,
         \/ target = RealDir /\ path \in LinkDirs
         \/ \E k \in LinkedKegs \cap W : target = LinkTo(k, path) /\ path \in tr[k] /\ n[path] # RealDir
  PROVE  LET m == Placed(n, path, target) IN
         /\ m \in Nodes /\ NodesOk(tr, m, W)
         /\ m[path] = target /\ \A p \in Paths : p # path => m[p] = n[p] \/ (n[p] = None /\ m[p] = RealDir)
         /\ \A p \in Paths : Bare(n, p) /\ (target = RealDir \/ path \notin Prefix!Above(p)) => Bare(m, p)
         /\ \A p \in Paths : Fresh(n, p) /\ ~Within(p, path) => Fresh(m, p)
<1> DEFINE m == Placed(n, path, target)
<1>1. /\ m[path] = target /\ \A p \in Paths : p # path => m[p] = n[p] \/ (n[p] = None /\ m[p] = RealDir)
      /\ \A p \in Paths : p # path /\ m[p] # n[p] => p \in Prefix!Above(path)
  BY DEF Placed
<1>2. \A p \in Prefix!Above(path) : m[p] = RealDir /\ p # path /\ p \in Paths
  <2> SUFFICES ASSUME NEW p \in Prefix!Above(path) PROVE m[p] = RealDir /\ p # path /\ p \in Paths
    OBVIOUS
  <2>1. p \in LinkDirs /\ p \in Paths /\ p # path /\ p \notin LinkFiles
    BY AboveIn, NotAboveItself DEF Prefix!Parameters
  <2>2. n[p] \in {None, RealDir}
    BY <2>1 DEF Bare, NodesOk, Prefix!IsLink
  <2> QED BY <2>1, <2>2 DEF Placed
<1>3. (target = RealDir /\ path \in LinkDirs) \/ (target \in Prefix!Links /\ Prefix!IsLink(target) /\ target.path = path /\ target.keg \in W
                           /\ path \in tr[target.keg] /\ n[path] # RealDir)
  BY LinksAre DEF LinkTo
<1>4. m \in Nodes
  BY <1>3 DEF Nodes, Placed
<1> HIDE DEF m
<1>5. ASSUME NEW p \in Paths, m[p] # None PROVE \A d \in Prefix!Above(p) : m[d] = RealDir
  <2>1. CASE Within(p, path)
    BY <1>2, <2>1, AboveIn, WithinTrans DEF Within
  <2>2. CASE ~Within(p, path)
    <3>1. m[p] = n[p]
      BY <1>1, <2>2 DEF Within
    <3> SUFFICES ASSUME NEW d \in Prefix!Above(p) PROVE m[d] = RealDir
      OBVIOUS
    <3>2. n[d] = RealDir /\ d \in Paths
      BY <1>5, <3>1, AboveIn DEF NodesOk
    <3>3. CASE d = path
      BY <1>1, <1>3, <3>2, <3>3
    <3>4. CASE d # path
      BY <1>1, <3>2, <3>4 DEF Prefix!Parameters
    <3> QED BY <3>3, <3>4
  <2> QED BY <2>1, <2>2
<1>6. ASSUME NEW p \in Paths
      PROVE  /\ m[p] = RealDir => p \in LinkDirs
             /\ m[p] = UserFile => p \in LinkFiles
             /\ Prefix!IsLink(m[p]) => m[p].path = p /\ m[p].keg \in W /\ p \in tr[m[p].keg]
  <2>1. CASE p = path
    <3>1. CASE target = RealDir
      BY <1>1, <1>3, <2>1, <3>1 DEF Prefix!IsLink, Prefix!Parameters
    <3>2. CASE target # RealDir
      <4>1. target # UserFile
        BY <1>3, <3>2 DEF Prefix!IsLink
      <4> QED BY <1>1, <1>3, <2>1, <3>2, <4>1
    <3> QED BY <3>1, <3>2
  <2>2. CASE p # path /\ m[p] = n[p]
    BY <2>2 DEF NodesOk
  <2>3. CASE p # path /\ m[p] # n[p]
    BY <1>1, <1>2, <2>3, AboveIn DEF Prefix!IsLink, Prefix!Parameters
  <2> QED BY <2>1, <2>2, <2>3
<1>7. NodesOk(tr, m, W)
  BY <1>5, <1>6 DEF NodesOk
<1>8. ASSUME NEW p \in Paths, Bare(n, p), target = RealDir \/ path \notin Prefix!Above(p) PROVE Bare(m, p)
  <2> SUFFICES ASSUME NEW d \in Prefix!Above(p) PROVE ~Prefix!IsLink(m[d])
    BY DEF Bare
  <2>1. ~Prefix!IsLink(n[d]) /\ d \in Paths
    BY <1>8, AboveIn DEF Bare
  <2> QED BY <1>1, <1>8, <2>1 DEF Prefix!IsLink
<1>9. ASSUME NEW p \in Paths, Fresh(n, p), ~Within(p, path) PROVE Fresh(m, p)
  <2> SUFFICES ASSUME NEW q \in Paths, Within(p, q) PROVE m[q] = None
    BY DEF Fresh
  <2>1. n[q] = None /\ ~Within(q, path)
    BY <1>9, WithinTrans DEF Fresh
  <2> QED BY <1>1, <2>1 DEF Within
<1> QED BY <1>1, <1>4, <1>7, <1>8, <1>9 DEF m

LEMMA ClearedIs ==
  ASSUME Prefix!Parameters, NEW tr, NEW n \in Nodes, NEW W, NodesOk(tr, n, W), NEW path \in Paths, n[path] # RealDir
  PROVE  LET m == [n EXCEPT ![path] = None] IN
         /\ m \in Nodes /\ NodesOk(tr, m, W)
         /\ m[path] = None /\ \A p \in Paths : p # path => m[p] = n[p]
         /\ Fresh(m, path)
         /\ \A p \in Paths : Bare(n, p) => Bare(m, p)
         /\ \A p \in Paths : Fresh(n, p) => Fresh(m, p)
<1> DEFINE m == [n EXCEPT ![path] = None]
<1>1. m \in Nodes /\ m[path] = None /\ \A p \in Paths : p # path => m[p] = n[p]
  BY DEF Nodes
<1> HIDE DEF m
<1>2. \A p \in Paths : p \in Paths => (path \in Prefix!Above(p) => n[p] = None)
  BY NodeIs
<1>3. NodesOk(tr, m, W)
  <2> SUFFICES ASSUME NEW p \in Paths
               PROVE  /\ m[p] # None => \A d \in Prefix!Above(p) : m[d] = RealDir
                      /\ m[p] = RealDir => p \in LinkDirs
                      /\ m[p] = UserFile => p \in LinkFiles
                      /\ Prefix!IsLink(m[p]) => m[p].path = p /\ m[p].keg \in W /\ p \in tr[m[p].keg]
    BY DEF NodesOk
  <2>1. CASE p = path
    BY <1>1, <2>1 DEF Prefix!IsLink, Prefix!Parameters
  <2>2. CASE p # path
    BY <1>1, <1>2, <2>2, AboveIn DEF NodesOk
  <2> QED BY <2>1, <2>2
<1>4. Fresh(m, path)
  BY <1>1, <1>2 DEF Fresh, Within
<1>5. \A p \in Paths : Bare(n, p) => Bare(m, p)
  BY <1>1, AboveIn DEF Bare, Prefix!IsLink
<1>6. \A p \in Paths : Fresh(n, p) => Fresh(m, p)
  BY <1>1 DEF Fresh
<1> QED BY <1>1, <1>3, <1>4, <1>5, <1>6 DEF m

(* A file that was reached still is, unless its link went. *)
LEMMA ReachedStays ==
  ASSUME Prefix!Parameters, NEW n, NEW m, NEW k \in LinkedKegs, NEW f \in Paths, Reached(n, k, f),
         \A p \in Paths : Within(p, f) /\ n[p] = LinkTo(k, p) => m[p] = n[p]
  PROVE  Reached(m, k, f)
BY DEF Reached

-------------------------------------------------------------------------------
(* What is known while a keg is linked, while its links are removed, and between. *)
Linkers == [pc : {"idle", "link", "unlink", "undo"}, overwrite : BOOLEAN, globs : SUBSET LinkFiles,
            todo : Seq(Items), dirs : SUBSET Paths, moved : SUBSET LinkFiles]
Busy(k) == proc[k].pc # "idle"
Known == linked \cup half
Owners == Known \cup {k \in LinkedKegs : Busy(k)}

LinkTyped ==
  /\ tree \in Trees /\ node \in Nodes /\ user \subseteq UserFiles /\ linked \subseteq LinkedKegs /\ half \subseteq LinkedKegs
  /\ proc \in [LinkedKegs -> Linkers]
  /\ \A k \in LinkedKegs : \A p \in tree[k] : Prefix!Above(p) \subseteq tree[k]

(* What a link has left of another keg's directory it has removed the link to, and
   comes to before its own, and it is one keg's; neither holds a path within a path. *)
ItemOk(tr, n, L, k, item) ==
  /\ item.path \in tr[item.keg] /\ item.keg \in L \cup {k} /\ Bare(n, item.path)
  /\ IF item.other THEN Fresh(n, item.path) ELSE item.keg = k
WalkOk(tr, n, L, k, s) == Apart(s) /\ OthersFirst(s) /\ OfOneKeg(s) /\ \A i \in DOMAIN s : ItemOk(tr, n, L, k, s[i])
(* Each link of a keg whose links are removed is ahead. *)
UnwalkOk(tr, n, k, s) ==
  /\ \A i \in DOMAIN s : s[i].keg = k /\ s[i].path \in tr[k]
  /\ \A p \in Paths : n[p] = LinkTo(k, p) => Ahead(s, k, p)
(* In place of what was moved away is the keg's link, or nothing when that was undone. *)
MovedOk(n, k, moved, gone) ==
  \A q \in moved : Bare(n, q) /\ (n[q] = LinkTo(k, q) \/ (gone /\ n[q] = None))
(* A file of a linked keg is reached, was taken, or is ahead. *)
There(n, R, k, f) == Reached(n, k, f) \/ <<k, f>> \in R
Covered(n, R, s, k, f) == There(n, R, k, f) \/ Ahead(s, k, f)

LinkInv ==
  /\ LinkTyped /\ NodesOk(tree, node, Owners) /\ inside = [k \in LinkedKegs |-> {}] /\ recorded \subseteq Known
  /\ \A j, k \in LinkedKegs : Busy(j) /\ Busy(k) => j = k
  /\ \A k \in LinkedKegs : proc[k].pc = "link" =>
       /\ WalkOk(tree, node, Known, k, proc[k].todo) /\ MovedOk(node, k, proc[k].moved, FALSE)
       /\ \A j \in linked \cup {k} : \A f \in Prefix!Linkable(j) : Covered(node, replaced, proc[k].todo, j, f)
  /\ \A k \in LinkedKegs : proc[k].pc \in {"unlink", "undo"} =>
       /\ UnwalkOk(tree, node, k, proc[k].todo) /\ MovedOk(node, k, proc[k].moved, TRUE)
       /\ \A j \in linked \ {k} : \A f \in Prefix!Linkable(j) : There(node, replaced, j, f)
  /\ (\A k \in LinkedKegs : ~Busy(k)) => \A j \in linked : \A f \in Prefix!Linkable(j) : There(node, replaced, j, f)

(* Only one keg is at work, and others stay as they are. *)
LinkFrame == tree' = tree /\ rule' = rule /\ user' = user /\ inside' = inside
NoneRecorded == linked' = linked /\ half' = half /\ recorded' = recorded

LEMMA LinkableSame ==
  ASSUME LinkFrame, NEW k
  PROVE  Prefix!Linkable(k)' = Prefix!Linkable(k)
BY DEF LinkFrame, Prefix!Linkable, Prefix!Above

LEMMA IdleIs ==
  Prefix!Idle \in Linkers /\ Prefix!Idle.pc = "idle" /\ Prefix!Idle.moved = {}
BY DEF Prefix!Idle, Linkers

LEMMA OthersIdle ==
  ASSUME LinkInv, NEW k \in LinkedKegs, \A j \in LinkedKegs : Busy(j) => j = k, NEW r \in Linkers, proc' = [proc EXCEPT ![k] = r]
  PROVE  /\ proc' \in [LinkedKegs -> Linkers] /\ proc'[k] = r
         /\ \A j \in LinkedKegs : j # k => proc'[j] = proc[j] /\ proc'[j].pc = "idle"
BY DEF LinkInv, LinkTyped, Busy

LEMMA WalkStep ==
  ASSUME Prefix!Parameters, LinkInv, LinkFrame, NEW k \in LinkedKegs, \A j \in LinkedKegs : Busy(j) => j = k,
         NEW r \in Linkers, proc' = [proc EXCEPT ![k] = r], r.pc = "link", NoneRecorded,
         node' \in Nodes, NodesOk(tree, node', Known \cup {k}),
         WalkOk(tree, node', Known, k, r.todo), MovedOk(node', k, r.moved, FALSE),
         \A j \in linked \cup {k} : \A f \in Prefix!Linkable(j) : Covered(node', replaced', r.todo, j, f)
  PROVE  LinkInv'
<1>1. /\ proc' \in [LinkedKegs -> Linkers] /\ proc'[k] = r
      /\ \A j \in LinkedKegs : j # k => proc'[j].pc = "idle"
  BY OthersIdle
<1>0. linked' = linked /\ Known' = Known /\ recorded' = recorded
  BY DEF NoneRecorded, Known
<1>2. Owners' = Known \cup {k}
  BY <1>0, <1>1 DEF Owners, Busy
<1>3. LinkTyped'
  BY <1>0, <1>1 DEF LinkInv, LinkTyped, LinkFrame, NoneRecorded, Trees, Nodes, Prefix!Above
<1>4. NodesOk(tree, node, Owners)'
  BY <1>2 DEF LinkFrame, NodesOk, Prefix!Above, Prefix!IsLink
<1>5. \A i, j \in LinkedKegs : Busy(i)' /\ Busy(j)' => i = j
  BY <1>1 DEF Busy
<1>6. ASSUME NEW j \in LinkedKegs, proc'[j].pc = "link"
      PROVE  /\ WalkOk(tree', node', Known', j, proc'[j].todo) /\ MovedOk(node', j, proc'[j].moved, FALSE)
             /\ \A i \in linked' \cup {j} : \A f \in Prefix!Linkable(i)' : Covered(node', replaced', proc'[j].todo, i, f)
  BY <1>0, <1>1, <1>6, LinkableSame DEF LinkFrame
<1>7. ASSUME NEW j \in LinkedKegs, proc'[j].pc \in {"unlink", "undo"} PROVE FALSE
  BY <1>1, <1>7
<1>8. Busy(k)'
  BY <1>1 DEF Busy
<1>9. inside' = [j \in LinkedKegs |-> {}] /\ recorded' \subseteq Known'
  BY <1>0 DEF LinkInv, LinkFrame
<1> QED BY <1>3, <1>4, <1>5, <1>6, <1>7, <1>8, <1>9 DEF LinkInv

LEMMA UnwalkStep ==
  ASSUME Prefix!Parameters, LinkInv, LinkFrame, NEW k \in LinkedKegs, \A j \in LinkedKegs : Busy(j) => j = k,
         NEW r \in Linkers, proc' = [proc EXCEPT ![k] = r], r.pc \in {"unlink", "undo"},
         linked' \subseteq linked, half' \subseteq LinkedKegs, Known \subseteq Known', Known' \subseteq Known \cup {k}, recorded' = recorded,
         node' \in Nodes, NodesOk(tree, node', Known \cup {k}),
         UnwalkOk(tree, node', k, r.todo), MovedOk(node', k, r.moved, TRUE),
         \A j \in linked' \ {k} : \A f \in Prefix!Linkable(j) : There(node', replaced', j, f)
  PROVE  LinkInv'
<1>1. /\ proc' \in [LinkedKegs -> Linkers] /\ proc'[k] = r
      /\ \A j \in LinkedKegs : j # k => proc'[j].pc = "idle"
  BY OthersIdle
<1>2. Owners' = Known \cup {k}
  BY <1>1 DEF Owners, Busy
<1>3. LinkTyped'
  BY <1>1 DEF LinkInv, LinkTyped, LinkFrame, Trees, Nodes, Prefix!Above
<1>4. NodesOk(tree, node, Owners)'
  BY <1>2 DEF LinkFrame, NodesOk, Prefix!Above, Prefix!IsLink
<1>5. \A i, j \in LinkedKegs : Busy(i)' /\ Busy(j)' => i = j
  BY <1>1 DEF Busy
<1>6. ASSUME NEW j \in LinkedKegs, proc'[j].pc \in {"unlink", "undo"}
      PROVE  /\ UnwalkOk(tree', node', j, proc'[j].todo) /\ MovedOk(node', j, proc'[j].moved, TRUE)
             /\ \A i \in linked' \ {j} : \A f \in Prefix!Linkable(i)' : There(node', replaced', i, f)
  BY <1>1, <1>6, LinkableSame DEF LinkFrame
<1>7. ASSUME NEW j \in LinkedKegs, proc'[j].pc = "link" PROVE FALSE
  BY <1>1, <1>7
<1>8. Busy(k)'
  BY <1>1 DEF Busy
<1>9. inside' = [j \in LinkedKegs |-> {}] /\ recorded' \subseteq Known'
  BY DEF LinkInv, LinkFrame
<1> QED BY <1>3, <1>4, <1>5, <1>6, <1>7, <1>8, <1>9 DEF LinkInv

LEMMA RestStep ==
  ASSUME Prefix!Parameters, LinkInv, LinkFrame, NEW k \in LinkedKegs, \A j \in LinkedKegs : Busy(j) => j = k,
         NEW r \in Linkers, proc' = [proc EXCEPT ![k] = r], r.pc = "idle",
         linked' \subseteq LinkedKegs, half' \subseteq LinkedKegs, recorded' \subseteq Known',
         node' \in Nodes, NodesOk(tree, node', Known'),
         \A j \in linked' : \A f \in Prefix!Linkable(j) : There(node', replaced', j, f)
  PROVE  LinkInv'
<1>1. /\ proc' \in [LinkedKegs -> Linkers]
      /\ \A j \in LinkedKegs : proc'[j].pc = "idle"
  BY OthersIdle
<1>2. Owners' = Known'
  BY <1>1 DEF Owners, Busy
<1>3. LinkTyped'
  BY <1>1 DEF LinkInv, LinkTyped, LinkFrame, Trees, Nodes, Prefix!Above
<1>4. NodesOk(tree, node, Owners)'
  BY <1>2 DEF LinkFrame, NodesOk, Prefix!Above, Prefix!IsLink
<1>5. \A j \in LinkedKegs : ~Busy(j)'
  BY <1>1 DEF Busy
<1>6. \A j \in linked' : \A f \in Prefix!Linkable(j)' : There(node', replaced', j, f)
  BY LinkableSame
<1>7. inside' = [j \in LinkedKegs |-> {}] /\ recorded' \subseteq Known'
  BY DEF LinkInv, LinkFrame
<1> QED BY <1>1, <1>3, <1>4, <1>5, <1>6, <1>7 DEF LinkInv

-------------------------------------------------------------------------------
(* What a link knows at the head of its walk. *)
LEMMA LinkingKnows ==
  ASSUME Prefix!Parameters, LinkInv, NEW k \in LinkedKegs, proc[k].pc = "link", proc[k].todo # <<>>
  PROVE  LET s == proc[k].todo
             h == s[1]
             t == Tail(s) IN
         /\ s \in Seq(Items) /\ t \in Seq(Items) /\ h = Prefix!First(k) /\ t = Prefix!Rest(k) /\ proc[k] \in Linkers
         /\ h.keg \in LinkedKegs /\ h.keg \in Known \cup {k} /\ h.path \in Paths /\ h.other \in BOOLEAN
         /\ h.path \in tree[h.keg] /\ Bare(node, h.path) /\ (h.other => Fresh(node, h.path)) /\ (~h.other => h.keg = k)
         /\ Prefix!Shown(h.path) = node[h.path] /\ Prefix!Via(h.path) = {}
         /\ tree \in Trees /\ node \in Nodes /\ NodesOk(tree, node, Known \cup {k}) /\ WalkOk(tree, node, Known, k, s)
         /\ \A j \in LinkedKegs : Busy(j) => j = k
         /\ linked \cup {k} \subseteq LinkedKegs /\ Known \cup {k} \subseteq LinkedKegs
         /\ MovedOk(node, k, proc[k].moved, FALSE) /\ proc[k].moved \subseteq LinkFiles
         /\ \A j \in linked \cup {k} : \A f \in Prefix!Linkable(j) : Covered(node, replaced, s, j, f)
<1> DEFINE s == proc[k].todo
<1>1. proc[k] \in Linkers /\ tree \in Trees /\ node \in Nodes /\ linked \cup {k} \subseteq LinkedKegs /\ Known \cup {k} \subseteq LinkedKegs
  BY DEF LinkInv, LinkTyped, Known
<1>2. s \in Seq(Items) /\ s # <<>> /\ proc[k].moved \subseteq LinkFiles
  BY <1>1 DEF Linkers
<1>3. /\ WalkOk(tree, node, Known, k, s) /\ MovedOk(node, k, proc[k].moved, FALSE)
      /\ \A j \in linked \cup {k} : \A f \in Prefix!Linkable(j) : Covered(node, replaced, s, j, f)
  BY DEF LinkInv
<1>4. \A j \in LinkedKegs : Busy(j) => j = k
  BY DEF LinkInv, Busy
<1>5. Owners = Known \cup {k} /\ NodesOk(tree, node, Owners)
  BY <1>4 DEF LinkInv, Owners, Busy
<1>6. Head(s) = s[1] /\ 1 \in DOMAIN s /\ Tail(s) \in Seq(Items) /\ s[1] \in Items
  BY <1>2, TailIs
<1>7. ItemOk(tree, node, Known, k, s[1])
  BY <1>3, <1>6 DEF WalkOk
<1>8. s[1] = Prefix!First(k) /\ Tail(s) = Prefix!Rest(k)
  BY <1>6 DEF Prefix!First, Prefix!Rest
<1>9. s[1].keg \in LinkedKegs /\ s[1].path \in Paths /\ s[1].other \in BOOLEAN
  BY <1>6 DEF Items
<1> HIDE DEF s
<1>10. /\ s[1].path \in tree[s[1].keg] /\ Bare(node, s[1].path) /\ (s[1].other => Fresh(node, s[1].path)) /\ (~s[1].other => s[1].keg = k)
       /\ s[1].keg \in Known \cup {k}
  BY <1>7, <1>9 DEF ItemOk
<1>11. Prefix!Shown(s[1].path) = node[s[1].path] /\ Prefix!Via(s[1].path) = {}
  BY <1>10, BareIsShown
<1> QED BY <1>1, <1>2, <1>3, <1>4, <1>5, <1>6, <1>8, <1>9, <1>10, <1>11 DEF s

(* What is left behind the head. *)
LEMMA RestIs ==
  ASSUME Prefix!Parameters, NEW tr, NEW n, NEW L, NEW k, NEW s \in Seq(Items), s # <<>>, WalkOk(tr, n, L, k, s)
  PROVE  LET t == Tail(s) IN
         /\ Apart(t) /\ OthersFirst(t) /\ OfOneKeg(t)
         /\ \A i \in DOMAIN t :
              /\ t[i] \in Items /\ ItemOk(tr, n, L, k, t[i])
              /\ t[i].other => s[1].other /\ t[i].keg = s[1].keg
              /\ t[i].other = s[1].other => ~Within(t[i].path, s[1].path) /\ ~Within(s[1].path, t[i].path)
<1> DEFINE t == Tail(s)
<1>1. /\ t \in Seq(Items) /\ 1 \in DOMAIN s
      /\ \A i \in DOMAIN t : i + 1 \in DOMAIN s /\ t[i] = s[i + 1] /\ i \in Nat \ {0}
  BY TailIs
<1> HIDE DEF t
<1>2. \A i \in DOMAIN t : t[i] \in Items
  BY <1>1
<1>3. Apart(t)
  <2> SUFFICES ASSUME NEW i \in DOMAIN t, NEW j \in DOMAIN t, i # j, t[i].other = t[j].other PROVE ~Within(t[i].path, t[j].path)
    BY DEF Apart
  <2>1. i + 1 # j + 1
    BY SMTT(60), <1>1
  <2> QED BY <1>1, <2>1 DEF WalkOk, Apart
<1>4. OthersFirst(t)
  <2> SUFFICES ASSUME NEW i \in DOMAIN t, NEW j \in DOMAIN t, i < j, t[j].other PROVE t[i].other
    BY DEF OthersFirst
  <2>1. i + 1 < j + 1
    BY <1>1
  <2> QED BY <1>1, <2>1 DEF WalkOk, OthersFirst
<1>5. ASSUME NEW i \in DOMAIN t
      PROVE  /\ ItemOk(tr, n, L, k, t[i]) /\ (t[i].other => s[1].other /\ t[i].keg = s[1].keg)
             /\ t[i].other = s[1].other => ~Within(t[i].path, s[1].path) /\ ~Within(s[1].path, t[i].path)
  <2>1. i + 1 \in DOMAIN s /\ t[i] = s[i + 1] /\ 1 < i + 1 /\ i + 1 # 1 /\ 1 \in DOMAIN s
    BY <1>1
  <2> QED BY <2>1 DEF WalkOk, Apart, OthersFirst, OfOneKeg
<1>6. OfOneKeg(t)
  BY <1>1 DEF WalkOk, OfOneKeg
<1> QED BY <1>2, <1>3, <1>4, <1>5, <1>6 DEF t

(* The walk goes on with what is in the head. *)
LEMMA EnteredWalk ==
  ASSUME Prefix!Parameters, NEW tr, NEW n, NEW L, NEW k, NEW s \in Seq(Items), s # <<>>, WalkOk(tr, n, L, k, s),
         s[1].path \in LinkDirs, NEW c \in Seq(Items), Apart(c), OthersFirst(c), OfOneKeg(c),
         \A i \in DOMAIN c : Prefix!Front(c[i].path) = s[1].path,
         (\A i \in DOMAIN c : c[i].other = s[1].other /\ c[i].keg = s[1].keg) \/ ~s[1].other
  PROVE  Apart(c \o Tail(s)) /\ OthersFirst(c \o Tail(s)) /\ OfOneKeg(c \o Tail(s))
<1> DEFINE t == Tail(s)
<1>1. /\ Apart(t) /\ OthersFirst(t) /\ OfOneKeg(t) /\ t \in Seq(Items) /\ s[1] \in Items
      /\ \A i \in DOMAIN t : /\ t[i] \in Items /\ (t[i].other => s[1].other /\ t[i].keg = s[1].keg)
                             /\ t[i].other = s[1].other => ~Within(t[i].path, s[1].path) /\ ~Within(s[1].path, t[i].path)
  BY RestIs, TailIs
<1>2. \A i \in DOMAIN c : c[i] \in Items
  OBVIOUS
<1> HIDE DEF t
<1>3. ASSUME NEW i \in DOMAIN c, NEW j \in DOMAIN t, c[i].other = t[j].other
      PROVE  ~Within(c[i].path, t[j].path) /\ ~Within(t[j].path, c[i].path)
  <2> DEFINE d == s[1].path
             p == c[i].path
             q == t[j].path
  <2>1. d \in LinkDirs /\ d \in Paths /\ p \in Paths /\ q \in Paths /\ Prefix!Front(p) = d
    BY <1>1, <1>2, AboveIn DEF Items
  <2>2. ~Within(q, d) /\ ~Within(d, q)
    BY <1>1, <1>3, <1>2 DEF Items
  <2> HIDE DEF d, p, q
  <2>3. Prefix!Above(p) = Prefix!Above(d) \cup {d}
    BY <2>1, FrontIs
  <2>4. ~Within(p, q)
    BY <2>1, <2>2, <2>3, WithinTrans DEF Within
  <2>5. ~Within(q, p)
    BY <2>1, <2>2, <2>3 DEF Within
  <2> QED BY <2>4, <2>5 DEF p, q
<1>4. Apart(c \o t)
  BY <1>1, <1>3, ConcatApart
<1>5. (\A i \in DOMAIN c : c[i].other) \/ (\A i \in DOMAIN t : ~t[i].other)
  BY <1>1
<1>6. OthersFirst(c \o t)
  BY <1>1, <1>5, ConcatOthersFirst
<1>7. OfOneKeg(c \o t)
  <2>1. \A i \in DOMAIN (c \o t) : (\E j \in DOMAIN c : (c \o t)[i] = c[j]) \/ (\E j \in DOMAIN t : (c \o t)[i] = t[j])
    BY <1>1, ConcatHolds
  <2>2. ASSUME NEW i \in DOMAIN c, NEW j \in DOMAIN t, c[i].other, t[j].other PROVE c[i].keg = t[j].keg
    BY <1>1, <2>2
  <2> QED BY <1>1, <2>1, <2>2 DEF OfOneKeg
<1> QED BY <1>4, <1>6, <1>7 DEF t

-------------------------------------------------------------------------------
(* The ways a link goes on.  Nothing is done for the head. *)
LEMMA LinkPasses ==
  ASSUME Prefix!Parameters, LinkInv, LinkFrame, NEW k \in LinkedKegs, proc[k].pc = "link", proc[k].todo # <<>>, NoneRecorded,
         proc' = [proc EXCEPT ![k] = [proc[k] EXCEPT !.todo = Prefix!Rest(k)]],
         node' = node, replaced' = replaced,
         \A f \in Prefix!Linkable(Prefix!First(k).keg) : Within(Prefix!First(k).path, f) => Reached(node, Prefix!First(k).keg, f)
  PROVE  LinkInv'
<1> DEFINE s == proc[k].todo
           t == Tail(s)
           r == [proc[k] EXCEPT !.todo = t]
<1>1. /\ s \in Seq(Items) /\ s # <<>> /\ t \in Seq(Items) /\ s[1] = Prefix!First(k) /\ t = Prefix!Rest(k) /\ proc[k] \in Linkers
      /\ node \in Nodes /\ NodesOk(tree, node, Known \cup {k}) /\ WalkOk(tree, node, Known, k, s)
      /\ \A j \in LinkedKegs : Busy(j) => j = k
      /\ MovedOk(node, k, proc[k].moved, FALSE)
      /\ \A j \in linked \cup {k} : \A f \in Prefix!Linkable(j) : Covered(node, replaced, s, j, f)
  BY LinkingKnows
<1>2. r \in Linkers /\ r.pc = "link" /\ r.todo = t /\ r.moved = proc[k].moved /\ proc' = [proc EXCEPT ![k] = r]
  BY <1>1 DEF Linkers
<1> HIDE DEF r, t, s
<1>3. WalkOk(tree, node, Known, k, t)
  BY <1>1, RestIs DEF WalkOk, s, t
<1>4. ASSUME NEW j \in linked \cup {k}, NEW f \in Prefix!Linkable(j) PROVE Covered(node, replaced, t, j, f)
  <2>1. Ahead(s, j, f) => Ahead(t, j, f) \/ (s[1].keg = j /\ Within(s[1].path, f))
    BY <1>1, TailAhead DEF t
  <2>2. s[1].keg = j /\ Within(s[1].path, f) => Reached(node, j, f)
    BY <1>1
  <2>3. There(node, replaced, j, f) \/ Ahead(s, j, f)
    BY <1>1 DEF Covered
  <2> QED BY <2>1, <2>2, <2>3 DEF Covered, There
<1>5. /\ node' \in Nodes /\ NodesOk(tree, node', Known \cup {k}) /\ WalkOk(tree, node', Known, k, r.todo)
      /\ MovedOk(node', k, r.moved, FALSE)
  BY <1>1, <1>2, <1>3
<1>6. /\ \A j \in linked \cup {k} : \A f \in Prefix!Linkable(j) : Covered(node', replaced', r.todo, j, f)
  BY <1>1, <1>2, <1>4
<1> QED BY <1>1, <1>2, <1>5, <1>6, WalkStep

(* A link is made for the head: in an empty place, or in that of another file. *)
LEMMA LinkPlaces ==
  ASSUME Prefix!Parameters, LinkInv, LinkFrame, NEW k \in LinkedKegs, proc[k].pc = "link", proc[k].todo # <<>>, NoneRecorded,
         NEW r \in Linkers, proc' = [proc EXCEPT ![k] = r], r.pc = "link", r.todo = Prefix!Rest(k),
         NEW h, h = Prefix!First(k), node' = Placed(node, h.path, LinkTo(h.keg, h.path)),
         h.path \in LinkFiles \/ (node[h.path] = None /\ ~h.other),
         node[h.path] # LinkTo(h.keg, h.path), node[h.path] # RealDir,
         r.moved \subseteq proc[k].moved \/ (h.keg = k /\ r.moved \subseteq proc[k].moved \cup {h.path}),
         replaced \subseteq replaced', \A j \in LinkedKegs : node[h.path] = LinkTo(j, h.path) => <<j, h.path>> \in replaced'
  PROVE  LinkInv'
<1> DEFINE s == proc[k].todo
           t == Tail(s)
           path == h.path
<1>1. /\ s \in Seq(Items) /\ s # <<>> /\ t \in Seq(Items) /\ s[1] = h /\ t = r.todo
      /\ h.keg \in LinkedKegs /\ h.keg \in Known \cup {k} /\ path \in Paths /\ h.other \in BOOLEAN
      /\ path \in tree[h.keg] /\ Bare(node, path) /\ (h.other => Fresh(node, path)) /\ (~h.other => h.keg = k)
      /\ node \in Nodes /\ NodesOk(tree, node, Known \cup {k}) /\ WalkOk(tree, node, Known, k, s)
      /\ \A j \in LinkedKegs : Busy(j) => j = k
      /\ linked \cup {k} \subseteq LinkedKegs /\ Known \cup {k} \subseteq LinkedKegs
      /\ MovedOk(node, k, proc[k].moved, FALSE) /\ proc[k].moved \subseteq LinkFiles
      /\ \A j \in linked \cup {k} : \A f \in Prefix!Linkable(j) : Covered(node, replaced, s, j, f)
  BY LinkingKnows
<1> HIDE DEF s, t, path
<1>2. h.keg \in LinkedKegs \cap (Known \cup {k}) /\ path \in tree[h.keg] /\ node[path] # RealDir
  BY <1>1 DEF path
<1> DEFINE target == LinkTo(h.keg, path)
<1>3. /\ node' \in Nodes /\ NodesOk(tree, node', Known \cup {k})
      /\ node'[path] = target /\ \A p \in Paths : p # path => node'[p] = node[p] \/ (node[p] = None /\ node'[p] = RealDir)
      /\ \A p \in Paths : Bare(node, p) /\ path \notin Prefix!Above(p) => Bare(node', p)
      /\ \A p \in Paths : Fresh(node, p) /\ ~Within(p, path) => Fresh(node', p)
  BY SMTT(60), <1>1, <1>2, PlacedIs DEF path
<1> HIDE DEF target
<1>4. path \in LinkFiles \/ (node[path] = None /\ ~h.other /\ path \in LinkDirs)
  BY <1>1 DEF path, Paths, Prefix!Paths
<1>5. path \in LinkFiles => \A p \in Paths : path \notin Prefix!Above(p)
  BY AboveIn DEF Prefix!Parameters
<1>6. WalkOk(tree, node', Known, k, t)
  <2>1. /\ Apart(t) /\ OthersFirst(t) /\ OfOneKeg(t)
        /\ \A i \in DOMAIN t :
              /\ t[i] \in Items /\ ItemOk(tree, node, Known, k, t[i])
              /\ t[i].other => s[1].other
              /\ t[i].other = s[1].other => ~Within(t[i].path, s[1].path) /\ ~Within(s[1].path, t[i].path)
    BY <1>1, RestIs DEF t
  <2>2. ASSUME NEW i \in DOMAIN t PROVE ItemOk(tree, node', Known, k, t[i])
    <3>1. t[i].path \in Paths /\ t[i].other \in BOOLEAN /\ s[1].path = path /\ s[1].other = h.other /\ ItemOk(tree, node, Known, k, t[i])
      BY <1>1, <2>1 DEF Items, path
    <3>2. path \notin Prefix!Above(t[i].path)
      BY <1>1, <1>4, <1>5, <2>1, <3>1 DEF Within
    <3>3. t[i].other => ~Within(t[i].path, path)
      BY <1>1, <2>1, <3>1
    <3> QED BY <1>3, <3>1, <3>2, <3>3 DEF ItemOk
  <2> QED BY <2>1, <2>2 DEF WalkOk
<1>7. MovedOk(node', k, r.moved, FALSE)
  <2>1. ASSUME NEW q \in proc[k].moved PROVE Bare(node', q) /\ node'[q] = LinkTo(k, q)
    <3>1. q \in Paths /\ node[q] = LinkTo(k, q) /\ Bare(node, q) /\ q \in LinkFiles
      BY <1>1, AboveIn DEF MovedOk
    <3>2. node[q] # None
      BY <3>1, LinksAre DEF Prefix!IsLink
    <3>3. q # path
      <4>1. CASE h.other
        BY <1>1, <3>2, <4>1 DEF Fresh, Within
      <4>2. CASE ~h.other
        BY <1>1, <3>1, <4>2 DEF path
      <4> QED BY <1>1, <4>1, <4>2
    <3>4. path \notin Prefix!Above(q)
      BY <1>1, <1>4, <1>5, <3>1, <3>2, NodeIs DEF NodesOk, Prefix!Parameters
    <3> QED BY <1>3, <3>1, <3>2, <3>3, <3>4
  <2>2. h.keg = k => Bare(node', path) /\ node'[path] = LinkTo(k, path)
    <3>1. path \notin Prefix!Above(path)
      BY <1>1, NotAboveItself
    <3> QED BY <1>1, <1>3, <3>1 DEF target
  <2> QED BY <2>1, <2>2 DEF MovedOk, path
<1>8. ASSUME NEW j \in linked \cup {k}, NEW f \in Prefix!Linkable(j) PROVE Covered(node', replaced', t, j, f)
  <2>1. f \in Paths /\ f \in LinkFiles /\ j \in LinkedKegs
    BY <1>1, AboveIn DEF Prefix!Linkable
  <2>2. CASE Ahead(s, j, f)
    <3>1. CASE Ahead(t, j, f)
      BY <3>1 DEF Covered
    <3>2. CASE s[1].keg = j /\ Within(s[1].path, f)
      BY <1>1, <1>3, <3>2 DEF Covered, There, Reached, target, path
    <3> QED BY <1>1, <2>2, <3>1, <3>2, TailAhead DEF t
  <2>3. CASE <<j, f>> \in replaced
    BY <2>3 DEF Covered, There
  <2>4. CASE Reached(node, j, f)
    <3>1. PICK p \in Paths : Within(p, f) /\ node[p] = LinkTo(j, p)
      BY <2>4 DEF Reached
    <3>2. node[p] # None
      BY <2>1, <3>1, LinksAre DEF Prefix!IsLink
    <3>3. CASE p # path
      BY <1>3, <3>1, <3>2, <3>3 DEF Covered, There, Reached
    <3>4. CASE p = path
      <4>1. path \in LinkFiles
        BY <1>4, <3>2, <3>4
      <4>2. path = f
        BY <1>5, <2>1, <3>1, <3>4, <4>1 DEF Within
      <4> QED BY <2>1, <3>1, <3>4, <4>2 DEF Covered, There, path
    <3> QED BY <3>3, <3>4
  <2> QED BY <1>1, <2>2, <2>3, <2>4 DEF Covered, There
<1> QED BY <1>1, <1>3, <1>6, <1>7, <1>8, WalkStep

(* The walk goes on with c, what is in the head. *)
LEMMA LinkWalksIn ==
  ASSUME Prefix!Parameters, LinkInv, LinkFrame, NEW k \in LinkedKegs, proc[k].pc = "link", proc[k].todo # <<>>, NoneRecorded,
         NEW h, h = Prefix!First(k), h.path \in LinkDirs, NEW c \in Seq(Items),
         proc' = [proc EXCEPT ![k] = [proc[k] EXCEPT !.todo = c \o Prefix!Rest(k)]],
         Apart(c), OthersFirst(c), OfOneKeg(c), (\A i \in DOMAIN c : c[i].other = h.other /\ c[i].keg = h.keg) \/ ~h.other,
         \A i \in DOMAIN c : Prefix!Front(c[i].path) = h.path /\ ItemOk(tree, node', Known, k, c[i]),
         \A f \in Prefix!Linkable(h.keg) : h.path \in Prefix!Above(f) => Ahead(c, h.keg, f),
         node' \in Nodes, NodesOk(tree, node', Known \cup {k}),
         \A p \in Paths : Bare(node, p) => Bare(node', p),
         h.other => \A p \in Paths : Fresh(node, p) /\ ~Within(p, h.path) => Fresh(node', p),
         \A p \in Paths : node[p] # None => node'[p] = node[p] \/ p = h.path,
         \A j \in LinkedKegs : \A f \in Prefix!Linkable(j) :
            node[h.path] = LinkTo(j, h.path) /\ h.path \in Prefix!Above(f) => Ahead(c, j, f),
         replaced' = replaced
  PROVE  LinkInv'
<1> DEFINE s == proc[k].todo
           t == Tail(s)
           r == [proc[k] EXCEPT !.todo = c \o t]
<1>1. /\ s \in Seq(Items) /\ s # <<>> /\ t \in Seq(Items) /\ s[1] = h /\ t = Prefix!Rest(k) /\ proc[k] \in Linkers
      /\ h.path \in Paths /\ h.other \in BOOLEAN
      /\ node \in Nodes /\ NodesOk(tree, node, Known \cup {k}) /\ WalkOk(tree, node, Known, k, s)
      /\ \A j \in LinkedKegs : Busy(j) => j = k
      /\ linked \cup {k} \subseteq LinkedKegs /\ Known \cup {k} \subseteq LinkedKegs
      /\ MovedOk(node, k, proc[k].moved, FALSE) /\ proc[k].moved \subseteq LinkFiles
      /\ \A j \in linked \cup {k} : \A f \in Prefix!Linkable(j) : Covered(node, replaced, s, j, f)
  BY LinkingKnows
<1>2. c \o t \in Seq(Items)
  BY <1>1, ConcatIs
<1>3. r \in Linkers /\ r.pc = "link" /\ r.todo = c \o t /\ r.moved = proc[k].moved /\ proc' = [proc EXCEPT ![k] = r]
  BY <1>1, <1>2 DEF Linkers
<1> HIDE DEF r, t, s
<1>4. Apart(c \o t) /\ OthersFirst(c \o t) /\ OfOneKeg(c \o t)
  BY <1>1, EnteredWalk DEF t
<1>5. \A i \in DOMAIN (c \o t) : ItemOk(tree, node', Known, k, (c \o t)[i])
  <2>1. \A i \in DOMAIN t :
          /\ t[i] \in Items /\ ItemOk(tree, node, Known, k, t[i])
          /\ t[i].other => h.other
          /\ t[i].other = h.other => ~Within(t[i].path, h.path)
    BY SMTT(60), <1>1, RestIs DEF t
  <2>2. ASSUME NEW i \in DOMAIN t PROVE ItemOk(tree, node', Known, k, t[i])
    BY <1>1, <2>1, <2>2 DEF ItemOk, Items
  <2>3. \A i \in DOMAIN (c \o t) : (\E j \in DOMAIN c : (c \o t)[i] = c[j]) \/ (\E j \in DOMAIN t : (c \o t)[i] = t[j])
    BY <1>1, ConcatHolds
  <2> QED BY <2>2, <2>3
<1>6. WalkOk(tree, node', Known, k, c \o t)
  BY <1>4, <1>5 DEF WalkOk
<1>7. \A f \in LinkFiles : f \in Paths /\ f # h.path
  <2>1. LinkFiles \cap LinkDirs = {} /\ LinkFiles \subseteq Paths
    BY DEF Prefix!Parameters, Paths, Prefix!Paths
  <2> QED BY <2>1
<1>8. MovedOk(node', k, proc[k].moved, FALSE)
  <2> SUFFICES ASSUME NEW q \in proc[k].moved PROVE Bare(node', q) /\ node'[q] = LinkTo(k, q)
    BY DEF MovedOk
  <2>1. q \in Paths /\ q # h.path /\ Bare(node, q) /\ node[q] = LinkTo(k, q)
    BY <1>1, <1>7 DEF MovedOk
  <2>2. node[q] # None
    BY <2>1, LinksAre DEF Prefix!IsLink
  <2> QED BY <2>1, <2>2
<1>9. ASSUME NEW j \in linked \cup {k}, NEW f \in Prefix!Linkable(j) PROVE Covered(node', replaced', c \o t, j, f)
  <2>1. f \in Paths /\ f \in LinkFiles /\ j \in LinkedKegs /\ f # h.path
    BY <1>1, <1>7 DEF Prefix!Linkable
  <2>2. Ahead(c \o t, j, f) <=> Ahead(c, j, f) \/ Ahead(t, j, f)
    BY <1>1, ConcatAhead
  <2>3. CASE Ahead(s, j, f)
    <3>1. Ahead(t, j, f) \/ (h.keg = j /\ Within(h.path, f))
      BY <1>1, <2>3, TailAhead DEF t
    <3>2. h.keg = j /\ Within(h.path, f) => Ahead(c, j, f)
      BY <2>1 DEF Within
    <3> QED BY <2>2, <3>1, <3>2 DEF Covered
  <2>4. CASE <<j, f>> \in replaced
    BY <2>4 DEF Covered, There
  <2>5. CASE Reached(node, j, f)
    <3>1. PICK p \in Paths : Within(p, f) /\ node[p] = LinkTo(j, p)
      BY <2>5 DEF Reached
    <3>2. node[p] # None
      BY <2>1, <3>1, LinksAre DEF Prefix!IsLink
    <3>3. CASE p # h.path
      BY <3>1, <3>2, <3>3 DEF Covered, There, Reached
    <3>4. CASE p = h.path
      BY <2>1, <2>2, <3>1, <3>4 DEF Within, Covered
    <3> QED BY <3>3, <3>4
  <2> QED BY <1>1, <2>3, <2>4, <2>5 DEF Covered, There
<1>11. WalkOk(tree, node', Known, k, r.todo) /\ MovedOk(node', k, r.moved, FALSE)
  BY <1>3, <1>6, <1>8
<1>12. \A j \in linked \cup {k} : \A f \in Prefix!Linkable(j) : Covered(node', replaced', r.todo, j, f)
  BY <1>3, <1>9
<1> QED BY <1>1, <1>3, <1>11, <1>12, WalkStep

(* The head is entered: it is a directory, or one is made there. *)
LEMMA LinkEnters ==
  ASSUME Prefix!Parameters, LinkInv, LinkFrame, NEW k \in LinkedKegs, proc[k].pc = "link", proc[k].todo # <<>>, NoneRecorded,
         NEW h, h = Prefix!First(k), h.path \in LinkDirs,
         proc' = [proc EXCEPT ![k] = [proc[k] EXCEPT !.todo = Prefix!Children(h.keg, h.path, h.other) \o Prefix!Rest(k)]],
         \/ node[h.path] = RealDir /\ node' = node
         \/ node[h.path] = None /\ node' = Placed(node, h.path, RealDir),
         replaced' = replaced
  PROVE  LinkInv'
<1> DEFINE c == Prefix!Children(h.keg, h.path, h.other)
           path == h.path
<1>1. /\ h.keg \in LinkedKegs /\ h.keg \in Known \cup {k} /\ path \in Paths /\ h.other \in BOOLEAN
      /\ path \in tree[h.keg] /\ Bare(node, path) /\ (h.other => Fresh(node, path)) /\ (~h.other => h.keg = k)
      /\ tree \in Trees /\ node \in Nodes /\ NodesOk(tree, node, Known \cup {k})
      /\ linked \cup {k} \subseteq LinkedKegs /\ Known \cup {k} \subseteq LinkedKegs
  BY LinkingKnows
<1> HIDE DEF path
<1>2. /\ c \in Seq(Items)
      /\ \A i \in DOMAIN c : /\ c[i] \in Items /\ c[i].keg = h.keg /\ c[i].other = h.other
                             /\ c[i].path \in tree[h.keg] /\ Prefix!Front(c[i].path) = path
      /\ Apart(c) /\ OthersFirst(c) /\ OfOneKeg(c)
  BY SMTT(60), <1>1, ChildrenAre, ChildrenApart DEF path
<1> HIDE DEF c
<1>3. /\ node' \in Nodes /\ NodesOk(tree, node', Known \cup {k}) /\ node'[path] = RealDir
      /\ \A p \in Paths : p # path => node'[p] = node[p] \/ (node[p] = None /\ node'[p] = RealDir)
      /\ \A p \in Paths : Bare(node, p) => Bare(node', p)
      /\ \A p \in Paths : Fresh(node, p) /\ ~Within(p, path) => Fresh(node', p)
  <2>1. CASE node[path] = RealDir /\ node' = node
    BY <1>1, <2>1
  <2>2. CASE node[path] = None /\ node' = Placed(node, path, RealDir)
    BY <1>1, <2>2, PlacedIs DEF path
  <2> QED BY <2>1, <2>2 DEF path
<1>4. ASSUME NEW i \in DOMAIN c PROVE ItemOk(tree, node', Known, k, c[i])
  <2> DEFINE p == c[i].path
  <2>1. p \in Paths /\ p \in tree[h.keg] /\ Prefix!Front(p) = path /\ path \in LinkDirs
    BY <1>2 DEF Items, path
  <2> HIDE DEF p
  <2>2. Prefix!Above(p) = Prefix!Above(path) \cup {path}
    BY <2>1, FrontIs
  <2>3. Bare(node', p)
    BY <1>1, <1>3, <2>2 DEF Bare, Prefix!IsLink
  <2>4. ~Within(p, path) /\ path \in Prefix!Above(p)
    BY <1>1, <2>1, <2>2, NotAboveItself
  <2>5. Fresh(node, path) => Fresh(node, p)
    BY <1>1, <2>1, <2>4, WithinTrans DEF Fresh, Within
  <2> QED BY <1>1, <1>2, <1>3, <2>1, <2>3, <2>4, <2>5 DEF ItemOk, p
<1>5. ASSUME NEW f \in Prefix!Linkable(h.keg), path \in Prefix!Above(f) PROVE Ahead(c, h.keg, f)
  <2>1. f \in tree[h.keg] /\ Prefix!Above(f) \subseteq tree[h.keg]
    BY <1>1 DEF Prefix!Linkable, LinkInv, LinkTyped
  <2> QED BY <1>1, <1>5, <2>1, ChildrenAhead DEF c, path
<1>6. ASSUME NEW j \in LinkedKegs PROVE node[path] # LinkTo(j, path)
  BY <1>1, LinksAre DEF path, Prefix!IsLink
<1>7. \A p \in Paths : node[p] # None => node'[p] = node[p] \/ p = path
  BY <1>3
<1>8. proc' = [proc EXCEPT ![k] = [proc[k] EXCEPT !.todo = c \o Prefix!Rest(k)]]
  BY DEF path, c
<1>9. /\ \A i \in DOMAIN c : Prefix!Front(c[i].path) = path /\ ItemOk(tree, node', Known, k, c[i])
      /\ (\A i \in DOMAIN c : c[i].other = h.other /\ c[i].keg = h.keg) \/ ~h.other
  BY <1>2, <1>4
<1>10. \A j \in LinkedKegs : \A f \in Prefix!Linkable(j) :
          node[path] = LinkTo(j, path) /\ path \in Prefix!Above(f) => Ahead(c, j, f)
  BY <1>6
<1> QED BY <1>2, <1>3, <1>5, <1>7, <1>8, <1>9, <1>10, LinkWalksIn DEF path

(* The link at the head, to another keg's directory, gives way to what is in both. *)
LEMMA LinkExpands ==
  ASSUME Prefix!Parameters, LinkInv, LinkFrame, NEW k \in LinkedKegs, proc[k].pc = "link", proc[k].todo # <<>>, NoneRecorded,
         NEW h, h = Prefix!First(k), h.path \in LinkDirs, Prefix!IsLink(node[h.path]),
         proc' = [proc EXCEPT ![k] = [proc[k] EXCEPT !.todo =
                    Prefix!Children(node[h.path].keg, h.path, TRUE) \o Prefix!Children(h.keg, h.path, h.other) \o Prefix!Rest(k)]],
         node' = [node EXCEPT ![h.path] = None], replaced' = replaced
  PROVE  LinkInv'
<1> DEFINE path == h.path
           j0 == node[path].keg
           a == Prefix!Children(j0, path, TRUE)
           b == Prefix!Children(h.keg, path, h.other)
           c == a \o b
<1>1. /\ h.keg \in LinkedKegs /\ h.keg \in Known \cup {k} /\ path \in Paths /\ h.other \in BOOLEAN
      /\ path \in tree[h.keg] /\ Bare(node, path) /\ (h.other => Fresh(node, path)) /\ (~h.other => h.keg = k)
      /\ tree \in Trees /\ node \in Nodes /\ NodesOk(tree, node, Known \cup {k})
      /\ linked \cup {k} \subseteq LinkedKegs /\ Known \cup {k} \subseteq LinkedKegs
  BY LinkingKnows
<1> HIDE DEF path
<1>2. ~h.other /\ h.keg = k
  BY <1>1 DEF Fresh, Within, Prefix!IsLink, path
<1>3. j0 \in LinkedKegs /\ j0 \in Known \cup {k} /\ node[path] = LinkTo(j0, path) /\ path \in LinkDirs
  BY ZenonT(120), <1>1, NodeIs DEF path, NodesOk
<1> HIDE DEF j0
<1>0. ASSUME NEW j \in LinkedKegs, NEW o \in BOOLEAN
      PROVE  LET u == Prefix!Children(j, path, o) IN
             /\ u \in Seq(Items)
             /\ \A i \in DOMAIN u : u[i].keg = j /\ u[i].other = o /\ u[i].path \in tree[j] /\ Prefix!Front(u[i].path) = path
             /\ Apart(u) /\ OthersFirst(u) /\ OfOneKeg(u)
  <2>1. path \in LinkDirs
    BY DEF path
  <2> QED BY <1>1, <2>1, ChildrenAre, ChildrenApart
<1>4. /\ a \in Seq(Items)
      /\ \A i \in DOMAIN a : a[i].keg = j0 /\ a[i].other = TRUE /\ a[i].path \in tree[j0] /\ Prefix!Front(a[i].path) = path
      /\ Apart(a) /\ OthersFirst(a) /\ OfOneKeg(a)
  BY <1>0, <1>3 DEF a
<1>5. /\ b \in Seq(Items)
      /\ \A i \in DOMAIN b : b[i].keg = k /\ b[i].other = FALSE /\ b[i].path \in tree[k] /\ Prefix!Front(b[i].path) = path
      /\ Apart(b) /\ OthersFirst(b) /\ OfOneKeg(b)
  BY <1>0, <1>1, <1>2 DEF b
<1> HIDE DEF a, b
<1>6. c \in Seq(Items)
  BY <1>4, <1>5, ConcatIs
<1>7. Apart(c)
  BY <1>4, <1>5, ConcatApart
<1>8. OthersFirst(c)
  BY <1>4, <1>5, ConcatOthersFirst
<1>9. \A i \in DOMAIN c : (\E j \in DOMAIN a : c[i] = a[j]) \/ (\E j \in DOMAIN b : c[i] = b[j])
  BY <1>4, <1>5, ConcatHolds
<1>10. \A j, f : Ahead(c, j, f) <=> Ahead(a, j, f) \/ Ahead(b, j, f)
  BY <1>4, <1>5, ConcatAhead
<1>20. OfOneKeg(c)
  BY <1>4, <1>5, <1>9 DEF OfOneKeg
<1> HIDE DEF c
<1>11. /\ node' \in Nodes /\ NodesOk(tree, node', Known \cup {k})
       /\ node'[path] = None /\ \A p \in Paths : p # path => node'[p] = node[p]
       /\ Fresh(node', path)
       /\ \A p \in Paths : Bare(node, p) => Bare(node', p)
  <2>1. node[path] # RealDir
    BY DEF Prefix!IsLink, path
  <2>2. node' = [node EXCEPT ![path] = None]
    BY DEF path
  <2> DEFINE m == [node EXCEPT ![path] = None]
  <2>3. /\ m \in Nodes /\ NodesOk(tree, m, Known \cup {k})
        /\ m[path] = None /\ \A p \in Paths : p # path => m[p] = node[p]
        /\ Fresh(m, path)
        /\ \A p \in Paths : Bare(node, p) => Bare(m, p)
    BY ZenonT(120), <1>1, <2>1, ClearedIs
  <2> HIDE DEF m
  <2>4. node' = m
    BY <2>2 DEF m
  <2> QED BY <2>3, <2>4
<1>12. ASSUME NEW p \in Paths, Prefix!Front(p) = path PROVE Bare(node', p) /\ Fresh(node', p)
  <2>1. Prefix!Above(p) = Prefix!Above(path) \cup {path}
    BY <1>3, <1>12, FrontIs
  <2>2. Bare(node', p)
    BY <1>1, <1>11, <2>1 DEF Bare, Prefix!IsLink
  <2>3. Fresh(node', p)
    BY <1>1, <1>11, <2>1, WithinTrans DEF Fresh, Within
  <2> QED BY <2>2, <2>3
<1>13. ASSUME NEW i \in DOMAIN c PROVE Prefix!Front(c[i].path) = path /\ ItemOk(tree, node', Known, k, c[i])
  <2>1. \/ c[i].keg = j0 /\ c[i].other = TRUE /\ c[i].path \in tree[j0] /\ Prefix!Front(c[i].path) = path
        \/ c[i].keg = k /\ c[i].other = FALSE /\ c[i].path \in tree[k] /\ Prefix!Front(c[i].path) = path
    BY <1>4, <1>5, <1>9
  <2>2. c[i].path \in Paths
    BY <1>1, <1>3, <2>1 DEF Trees
  <2> QED BY <1>3, <1>12, <2>1, <2>2 DEF ItemOk
<1>14. ASSUME NEW j \in LinkedKegs, NEW f \in Prefix!Linkable(j), path \in Prefix!Above(f), NEW o \in BOOLEAN
       PROVE  Ahead(Prefix!Children(j, path, o), j, f)
  <2>1. f \in tree[j] /\ Prefix!Above(f) \subseteq tree[j]
    BY <1>1 DEF Prefix!Linkable, LinkInv, LinkTyped
  <2> QED BY <1>1, <1>14, <2>1, ChildrenAhead
<1>15. ASSUME NEW f \in Prefix!Linkable(h.keg), path \in Prefix!Above(f) PROVE Ahead(c, h.keg, f)
  BY <1>1, <1>10, <1>14, <1>15 DEF b
<1>16. ASSUME NEW j \in LinkedKegs, NEW f \in Prefix!Linkable(j), node[path] = LinkTo(j, path), path \in Prefix!Above(f)
       PROVE  Ahead(c, j, f)
  <2>1. j = j0
    BY <1>3, <1>16 DEF LinkTo
  <2> QED BY <1>10, <1>14, <1>16, <2>1 DEF a
<1>17. \A p \in Paths : node[p] # None => node'[p] = node[p] \/ p = path
  BY SMTT(60), <1>11
<1>18. a \o b \o Prefix!Rest(k) = c \o Prefix!Rest(k)
  BY SMTT(60) DEF c
<1>19. proc' = [proc EXCEPT ![k] = [proc[k] EXCEPT !.todo = c \o Prefix!Rest(k)]]
  BY <1>18 DEF a, b, j0, path
<1> QED BY ZenonT(120), <1>2, <1>3, <1>6, <1>7, <1>8, <1>20, <1>11, <1>13, <1>15, <1>16, <1>17, <1>19, LinkWalksIn DEF path

(* Each link of a keg is ahead of a walk of the keg that starts. *)
LEMMA UnwalkStarts ==
  ASSUME Prefix!Parameters, LinkInv, NEW k \in LinkedKegs
  PROVE  LET s == Prefix!Children(k, Root, FALSE) IN
         s \in Seq(Items) /\ UnwalkOk(tree, node, k, s)
<1> DEFINE s == Prefix!Children(k, Root, FALSE)
<1>1. /\ tree \in Trees /\ node \in Nodes /\ NodesOk(tree, node, Owners)
      /\ \A p \in tree[k] : Prefix!Above(p) \subseteq tree[k]
  BY DEF LinkInv, LinkTyped
<1>0. ASSUME NEW o \in BOOLEAN
      PROVE  LET u == Prefix!Children(k, Root, o) IN
             u \in Seq(Items) /\ \A i \in DOMAIN u : u[i].keg = k /\ u[i].path \in tree[k]
  BY <1>1, ChildrenAre
<1>2. s \in Seq(Items) /\ \A i \in DOMAIN s : s[i].keg = k /\ s[i].path \in tree[k]
  BY <1>0
<1>3. ASSUME NEW p \in Paths, node[p] = LinkTo(k, p) PROVE Ahead(s, k, p)
  <2>1. Prefix!IsLink(node[p]) /\ node[p].keg = k
    BY <1>3, LinksAre DEF LinkTo
  <2>2. p \in tree[k]
    BY <1>1, <2>1 DEF NodesOk
  <2> QED BY <1>1, <2>2, ChildrenAhead
<1> HIDE DEF s
<1> QED BY <1>2, <1>3 DEF UnwalkOk, s

LEMMA ClearedNode ==
  ASSUME Prefix!Parameters, node \in Nodes, NEW W, NodesOk(tree, node, W), NEW path \in Paths, node[path] # RealDir,
         node' = [node EXCEPT ![path] = None]
  PROVE  /\ node' \in Nodes /\ NodesOk(tree, node', W)
         /\ node'[path] = None /\ \A p \in Paths : p # path => node'[p] = node[p]
         /\ \A p \in Paths : Bare(node, p) => Bare(node', p)
<1> DEFINE m == [node EXCEPT ![path] = None]
<1>1. /\ m \in Nodes /\ NodesOk(tree, m, W)
      /\ m[path] = None /\ \A p \in Paths : p # path => m[p] = node[p]
      /\ \A p \in Paths : Bare(node, p) => Bare(m, p)
  BY ZenonT(60), ClearedIs
<1>2. node' = m
  OBVIOUS
<1> HIDE DEF m
<1> QED BY <1>1, <1>2

(* What a link that fails at h may have done to what is there, of which it has moved away what is in moved. *)
Gone(k, h, moved) ==
  /\ node' = node \/ (node' = [node EXCEPT ![h.path] = None] /\ h.path \in LinkFiles)
  /\ \A q \in moved : q \in proc[k].moved \/ (q = h.path /\ node'[q] = None)
  /\ replaced \subseteq replaced'
  /\ \A j \in LinkedKegs : node[h.path] = LinkTo(j, h.path) => node' = node \/ <<j, h.path>> \in replaced'

(* A link fails at an item: of another keg's directory the links that were to come are missing. *)
LEMMA LinkFailed ==
  ASSUME Prefix!Parameters, LinkInv, LinkFrame, NEW k \in LinkedKegs, proc[k].pc = "link", proc[k].todo # <<>>,
         NEW h, h = Prefix!First(k), NEW cut, cut = (IF h.other THEN {h.keg} ELSE {}),
         linked' = linked \ cut, half' = half \cup cut, recorded' = recorded,
         NEW moved \in SUBSET LinkFiles, Gone(k, h, moved),
         proc' = [proc EXCEPT ![k] = [proc[k] EXCEPT !.pc = "undo", !.todo = Prefix!Children(k, Root, FALSE), !.moved = moved]]
  PROVE  LinkInv'
<1> DEFINE s == proc[k].todo
           c == Prefix!Children(k, Root, FALSE)
           r == [proc[k] EXCEPT !.pc = "undo", !.todo = c, !.moved = moved]
<1>0. /\ s \in Seq(Items) /\ s # <<>> /\ s[1] = Prefix!First(k) /\ proc[k] \in Linkers
      /\ s[1].keg \in LinkedKegs /\ s[1].keg \in Known \cup {k} /\ s[1].path \in Paths /\ s[1].other \in BOOLEAN
      /\ Bare(node, s[1].path) /\ (s[1].other => Fresh(node, s[1].path))
      /\ node \in Nodes /\ NodesOk(tree, node, Known \cup {k}) /\ WalkOk(tree, node, Known, k, s)
      /\ \A j \in LinkedKegs : Busy(j) => j = k
      /\ linked \cup {k} \subseteq LinkedKegs
      /\ MovedOk(node, k, proc[k].moved, FALSE) /\ proc[k].moved \subseteq LinkFiles
      /\ \A j \in linked \cup {k} : \A f \in Prefix!Linkable(j) : Covered(node, replaced, s, j, f)
  BY ZenonT(120), LinkingKnows
<1>1. /\ s \in Seq(Items) /\ s # <<>> /\ s[1] = Prefix!First(k) /\ proc[k] \in Linkers
      /\ h.keg \in LinkedKegs /\ h.keg \in Known \cup {k} /\ h.path \in Paths /\ h.other \in BOOLEAN
      /\ Bare(node, h.path) /\ (h.other => Fresh(node, h.path))
      /\ node \in Nodes /\ NodesOk(tree, node, Known \cup {k}) /\ WalkOk(tree, node, Known, k, s)
      /\ \A j \in LinkedKegs : Busy(j) => j = k
      /\ linked \cup {k} \subseteq LinkedKegs
      /\ MovedOk(node, k, proc[k].moved, FALSE) /\ proc[k].moved \subseteq LinkFiles
      /\ \A j \in linked \cup {k} : \A f \in Prefix!Linkable(j) : Covered(node, replaced, s, j, f)
  BY <1>0
<1>2. c \in Seq(Items) /\ UnwalkOk(tree, node, k, c)
  BY UnwalkStarts
<1>3. proc' = [proc EXCEPT ![k] = r]
  OBVIOUS
<1>12. /\ node' = node \/ (node' = [node EXCEPT ![h.path] = None] /\ h.path \in LinkFiles)
       /\ \A q \in moved : q \in proc[k].moved \/ (q = h.path /\ node'[q] = None)
       /\ replaced \subseteq replaced'
       /\ \A j \in LinkedKegs : node[h.path] = LinkTo(j, h.path) => node' = node \/ <<j, h.path>> \in replaced'
  BY DEF Gone
<1> HIDE DEF c
<1>4. r \in Linkers /\ r.pc = "undo" /\ r.todo = c /\ r.moved = moved
  BY <1>1, <1>2 DEF Linkers
<1> HIDE DEF r, s
<1>5. \A i \in DOMAIN s : s[i].keg \in {k} \cup cut
  <2> SUFFICES ASSUME NEW i \in DOMAIN s PROVE s[i].keg \in {k} \cup cut
    OBVIOUS
  <2>1. i = 1 \/ 1 < i
    BY <1>1
  <2>2. 1 \in DOMAIN s
    BY <1>1
  <2>3. CASE s[i].other
    <3>1. h.other /\ s[i].keg = h.keg
      BY <1>1, <2>1, <2>2, <2>3 DEF WalkOk, OthersFirst, OfOneKeg
    <3> QED BY <3>1
  <2>4. CASE ~s[i].other
    BY <1>1, <2>4 DEF WalkOk, ItemOk
  <2> QED BY <2>3, <2>4
<1>6. /\ node' \in Nodes /\ NodesOk(tree, node', Known \cup {k})
      /\ \A p \in Paths : node'[p] = node[p] \/ (p = h.path /\ node'[p] = None)
      /\ \A p \in Paths : Bare(node, p) => Bare(node', p)
  <2>1. CASE node' = node
    BY <1>1, <2>1
  <2>2. CASE node' = [node EXCEPT ![h.path] = None] /\ h.path \in LinkFiles
    <3>1. node[h.path] # RealDir
      BY <1>1, <2>2 DEF NodesOk, Prefix!Parameters
    <3> DEFINE path == h.path
    <3>2. path \in Paths /\ node[path] # RealDir /\ node' = [node EXCEPT ![path] = None]
      BY <1>1, <2>2, <3>1
    <3> HIDE DEF path
    <3>3. /\ node' \in Nodes /\ NodesOk(tree, node', Known \cup {k})
          /\ node'[path] = None /\ \A p \in Paths : p # path => node'[p] = node[p]
          /\ \A p \in Paths : Bare(node, p) => Bare(node', p)
      BY <1>1, <3>2, ClearedNode
    <3> QED BY <3>3 DEF path
  <2> QED BY <1>12, <2>1, <2>2
<1>7. ASSUME NEW j \in linked' \ {k}, NEW f \in Prefix!Linkable(j) PROVE There(node', replaced', j, f)
  <2>1. j \in linked /\ j \in LinkedKegs /\ j \notin {k} \cup cut /\ f \in LinkFiles
    BY <1>1, <1>7 DEF Prefix!Linkable
  <2>2. ~Ahead(s, j, f)
    BY <1>5, <2>1 DEF Ahead
  <2>3. There(node, replaced, j, f)
    BY <1>1, <2>1, <2>2 DEF Covered
  <2>4. CASE Reached(node, j, f)
    <3>1. PICK p \in Paths : Within(p, f) /\ node[p] = LinkTo(j, p)
      BY <2>4 DEF Reached
    <3>2. CASE node'[p] = node[p]
      BY <3>1, <3>2 DEF There, Reached
    <3>3. CASE node'[p] # node[p]
      <4>1. p = h.path /\ node' # node
        BY <1>6, <3>3
      <4>2. p \in LinkFiles
        BY <1>12, <4>1
      <4>3. p = f
        BY <2>1, <3>1, <4>2, AboveIn DEF Within, Prefix!Parameters
      <4> QED BY <1>12, <2>1, <3>1, <4>1, <4>3 DEF There
    <3> QED BY <3>2, <3>3
  <2> QED BY <1>12, <2>3, <2>4 DEF There
<1>8. UnwalkOk(tree, node', k, r.todo)
  <2>1. \A p \in Paths : node'[p] = LinkTo(k, p) => node[p] = LinkTo(k, p)
    <3> SUFFICES ASSUME NEW p \in Paths, node'[p] = LinkTo(k, p) PROVE node'[p] = node[p]
      OBVIOUS
    <3>1. node'[p] # None
      BY LinksAre DEF Prefix!IsLink
    <3> QED BY <1>6, <3>1
  <2> QED BY <1>2, <1>4, <2>1 DEF UnwalkOk
<1>9. MovedOk(node', k, r.moved, TRUE)
  <2> SUFFICES ASSUME NEW q \in moved PROVE Bare(node', q) /\ (node'[q] = LinkTo(k, q) \/ node'[q] = None)
    BY <1>4 DEF MovedOk
  <2>1. q \in Paths
    BY AboveIn
  <2>2. CASE q \in proc[k].moved
    BY <1>1, <1>6, <2>1, <2>2 DEF MovedOk
  <2>3. CASE q = h.path /\ node'[q] = None
    BY <1>1, <1>6, <2>1, <2>3
  <2> QED BY <1>12, <2>2, <2>3
<1>10. linked' \subseteq linked /\ half' \subseteq LinkedKegs
  BY <1>1 DEF LinkInv, LinkTyped
<1>11. Known \subseteq Known' /\ Known' \subseteq Known \cup {k}
  BY <1>1 DEF Known
<1> QED BY <1>1, <1>3, <1>4, <1>6, <1>7, <1>8, <1>9, <1>10, <1>11, UnwalkStep

-------------------------------------------------------------------------------
(* The actions. *)
LEMMA FailIs ==
  ASSUME LinkTyped, NEW k \in LinkedKegs, Prefix!Fail(k)
  PROVE  proc' = [proc EXCEPT ![k] = [proc[k] EXCEPT !.pc = "undo", !.todo = Prefix!Children(k, Root, FALSE), !.moved = proc[k].moved]]
<1> DEFINE c == Prefix!Children(k, Root, FALSE)
<1>1. proc' = [proc EXCEPT ![k].pc = "undo", ![k].todo = c]
  BY DEF Prefix!Fail, Root
<1> HIDE DEF c
<1>2. proc \in [LinkedKegs -> Linkers] /\ proc[k] \in Linkers
  BY DEF LinkTyped
<1>3. [proc[k] EXCEPT !.pc = "undo", !.todo = c] = [proc[k] EXCEPT !.pc = "undo", !.todo = c, !.moved = proc[k].moved]
  BY <1>2 DEF Linkers
<1>4. proc' = [proc EXCEPT ![k] = [proc[k] EXCEPT !.pc = "undo", !.todo = c]]
  BY <1>1, <1>2
<1> QED BY <1>3, <1>4 DEF c

LEMMA SymlinkKeeps ==
  ASSUME Prefix!Parameters, LinkInv, NEW k \in LinkedKegs, proc[k].pc = "link", proc[k].todo # <<>>,
         Prefix!Symlink(k), tree' = tree, rule' = rule, user' = user, NoneRecorded,
         \/ Prefix!First(k).path \in LinkFiles
         \/ node[Prefix!First(k).path] = None /\ ~Prefix!First(k).other
  PROVE  LinkInv'
<1> DEFINE h == Prefix!First(k)
           path == h.path
           target == LinkTo(h.keg, path)
<1>1. /\ h.keg \in LinkedKegs /\ path \in Paths /\ h.other \in BOOLEAN /\ proc[k] \in Linkers
      /\ Prefix!Rest(k) \in Seq(Items)
      /\ Bare(node, path) /\ (h.other => Fresh(node, path)) /\ (~h.other => h.keg = k)
      /\ Prefix!Shown(path) = node[path] /\ Prefix!Via(path) = {} /\ node \in Nodes /\ NodesOk(tree, node, Known \cup {k})
  BY ZenonT(120), LinkingKnows
<1>2. \A t : Prefix!Place(path, t) <=> node' = Placed(node, path, t) /\ inside' = inside
  BY <1>1 DEF Prefix!Place, Placed, Paths
<1>3. path \in LinkFiles => node[path] # RealDir
  BY <1>1 DEF NodesOk, Prefix!Parameters
<1>4. node[path] # None => ~h.other
  BY <1>1 DEF Fresh, Within
<1>5. node[path] = None => node[path] # target /\ node[path] # RealDir /\ node[path] # UserFile
  BY <1>1, LinksAre DEF Prefix!IsLink, Prefix!Parameters
<1>6. proc \in [LinkedKegs -> Linkers] /\ inside = inside
  BY DEF LinkInv, LinkTyped
<1>7. CASE node[path] = target
  <2>1. Prefix!Todo(k, Prefix!Rest(k)) /\ node' = node /\ inside' = inside /\ replaced' = replaced
    BY <1>1, <1>7 DEF Prefix!Symlink, LinkTo
  <2>2. proc' = [proc EXCEPT ![k] = [proc[k] EXCEPT !.todo = Prefix!Rest(k)]]
    BY <1>6, <2>1 DEF Prefix!Todo
  <2>3. \A f \in Prefix!Linkable(h.keg) : Within(path, f) => Reached(node, h.keg, f)
    BY <1>1, <1>7 DEF Reached
  <2> QED BY <2>1, <2>2, <2>3, LinkPasses DEF LinkFrame
<1>8. CASE node[path] = None
  <2> DEFINE r == [proc[k] EXCEPT !.todo = Prefix!Rest(k)]
  <2>1. /\ Prefix!Place(path, target) /\ Prefix!Todo(k, Prefix!Rest(k)) /\ replaced' = replaced
    BY <1>1, <1>5, <1>8 DEF Prefix!Symlink, LinkTo
  <2>2. proc' = [proc EXCEPT ![k] = r]
    BY <1>6, <2>1 DEF Prefix!Todo
  <2>3. r \in Linkers /\ r.pc = "link" /\ r.todo = Prefix!Rest(k) /\ r.moved = proc[k].moved
    BY <1>1 DEF Linkers
  <2>4. \A j \in LinkedKegs : node[path] # LinkTo(j, path)
    BY <1>1, <1>8, LinksAre DEF Prefix!IsLink
  <2> HIDE DEF r
  <2>5. path \in LinkFiles \/ (node[path] = None /\ ~h.other)
    OBVIOUS
  <2> QED BY ZenonT(120), <1>2, <1>5, <1>8, <2>1, <2>2, <2>3, <2>4, <2>5, LinkPlaces DEF LinkFrame
<1>9. CASE node[path] \notin {None, target} /\ proc[k].overwrite
  <2> DEFINE r == [proc[k] EXCEPT !.todo = Prefix!Rest(k)]
  <2>1. /\ Prefix!Place(path, target) /\ Prefix!Todo(k, Prefix!Rest(k))
        /\ replaced' = replaced \cup {<<IF Prefix!IsLink(node[path]) THEN node[path].keg ELSE None, path>>}
    BY <1>1, <1>4, <1>9 DEF Prefix!Symlink, LinkTo
  <2>2. proc' = [proc EXCEPT ![k] = r]
    BY <1>6, <2>1 DEF Prefix!Todo
  <2>3. r \in Linkers /\ r.pc = "link" /\ r.todo = Prefix!Rest(k) /\ r.moved = proc[k].moved
    BY <1>1 DEF Linkers
  <2>4. \A j \in LinkedKegs : node[path] = LinkTo(j, path) => <<j, path>> \in replaced'
    BY <1>1, <2>1, LinksAre DEF LinkTo
  <2> HIDE DEF r
  <2>6. path \in LinkFiles
    BY <1>9
  <2> QED BY <1>2, <1>3, <1>9, <2>1, <2>2, <2>3, <2>4, <2>6, LinkPlaces DEF LinkFrame
<1>10. CASE node[path] \notin {None, target} /\ ~proc[k].overwrite /\ Prefix!OverwriteAllowed(k, path)
  <2> DEFINE r == [proc[k] EXCEPT !.todo = Prefix!Rest(k), !.moved = @ \cup {path}]
  <2>1. /\ Prefix!Place(path, target) /\ replaced' = replaced
        /\ proc' = [proc EXCEPT ![k].todo = Prefix!Rest(k), ![k].moved = @ \cup {path}]
    BY <1>1, <1>4, <1>10 DEF Prefix!Symlink, LinkTo
  <2>2. proc' = [proc EXCEPT ![k] = r]
    BY <1>6, <2>1
  <2>6. path \in LinkFiles
    BY <1>10
  <2>3. r \in Linkers /\ r.pc = "link" /\ r.todo = Prefix!Rest(k) /\ r.moved = proc[k].moved \cup {path}
    BY <1>1, <2>6 DEF Linkers
  <2>4. \A j \in LinkedKegs : node[path] # LinkTo(j, path)
    BY <1>1, <1>10, LinksAre DEF Prefix!OverwriteAllowed
  <2>5. /\ h.keg = k /\ r.moved \subseteq proc[k].moved \cup {path} /\ replaced \subseteq replaced'
        /\ node[path] # target /\ node[path] # RealDir
        /\ node' = Placed(node, path, target) /\ LinkFrame
    BY <1>1, <1>2, <1>3, <1>4, <1>10, <2>1, <2>3, <2>6 DEF LinkFrame
  <2> HIDE DEF r
  <2> QED BY <2>2, <2>3, <2>4, <2>5, <2>6, LinkPlaces
<1>11. CASE node[path] \notin {None, target} /\ ~proc[k].overwrite /\ ~Prefix!OverwriteAllowed(k, path)
  <2>1. Prefix!Fail(k) /\ node' = node /\ inside' = inside /\ replaced' = replaced
    BY <1>1, <1>11 DEF Prefix!Symlink, LinkTo
  <2>2. /\ LinkTyped /\ LinkFrame /\ ~h.other /\ replaced \subseteq replaced' /\ proc[k].moved \in SUBSET LinkFiles
        /\ linked' = linked \ {} /\ half' = half \cup {} /\ recorded' = recorded
    BY <1>1, <1>4, <1>11, <2>1 DEF LinkInv, LinkFrame, NoneRecorded, Linkers
  <2>3. proc' = [proc EXCEPT ![k] = [proc[k] EXCEPT !.pc = "undo", !.todo = Prefix!Children(k, Root, FALSE), !.moved = proc[k].moved]]
    BY <2>1, <2>2, FailIs
  <2>4. Gone(k, h, proc[k].moved)
    BY <2>1, <2>2 DEF Gone
  <2> DEFINE m == proc[k].moved
             cut == {}
  <2>5. /\ Gone(k, h, m) /\ m \in SUBSET LinkFiles /\ linked' = linked \ cut /\ half' = half \cup cut
        /\ cut = (IF h.other THEN {h.keg} ELSE {})
        /\ proc' = [proc EXCEPT ![k] = [proc[k] EXCEPT !.pc = "undo", !.todo = Prefix!Children(k, Root, FALSE), !.moved = m]]
    BY <2>2, <2>3, <2>4
  <2>6. h = Prefix!First(k)
    OBVIOUS
  <2> HIDE DEF m, cut, h
  <2> QED BY ZenonT(60), <2>2, <2>5, <2>6, LinkFailed
<1> QED BY <1>7, <1>8, <1>9, <1>10, <1>11

LEMMA LinkFileKeeps ==
  ASSUME Prefix!Parameters, LinkInv, NEW k \in LinkedKegs, Prefix!LinkFile(k)
  PROVE  LinkInv'
BY SymlinkKeeps DEF Prefix!LinkFile, Prefix!Working, NoneRecorded

LEMMA LinkFailsKeeps ==
  ASSUME Prefix!Parameters, LinkInv, NEW k \in LinkedKegs, Prefix!LinkFails(k)
  PROVE  LinkInv'
<1> DEFINE h == Prefix!First(k)
           path == h.path
           there == Prefix!Shown(path)
           cut == IF h.other THEN {h.keg} ELSE {}
           taken == <<IF Prefix!IsLink(there) THEN there.keg ELSE None, path>>
           moved == proc[k].moved
           gone == [proc[k] EXCEPT !.pc = "undo", !.todo = Prefix!Children(k, Root, FALSE), !.moved = moved \cup {path}]
<1>1. /\ proc[k].pc = "link" /\ proc[k].todo # <<>> /\ tree' = tree /\ rule' = rule /\ user' = user /\ recorded' = recorded
      /\ linked' = linked \ cut /\ half' = half \cup cut
  BY DEF Prefix!LinkFails, Prefix!Working
<1>2. /\ there = node[path] /\ Prefix!Via(path) = {} /\ moved \in SUBSET LinkFiles /\ path \in Paths /\ LinkTyped
      /\ proc[k] \in Linkers /\ node \in Nodes
  BY <1>1, LinkingKnows DEF LinkInv
<1>3. \/ Prefix!Fail(k) /\ node' = node /\ inside' = inside /\ replaced' = replaced
      \/ path \in LinkFiles /\ Prefix!Clear(path) /\ Prefix!Fail(k) /\ replaced' = replaced \cup {taken}
      \/ /\ path \in LinkFiles /\ Prefix!OverwriteAllowed(k, path) /\ Prefix!Clear(path) /\ replaced' = replaced
         /\ proc' = [proc EXCEPT ![k].pc = "undo", ![k].todo = Prefix!Children(k, Prefix!Root, FALSE), ![k].moved = @ \cup {path}]
  BY DEF Prefix!LinkFails
<1>4. Prefix!Clear(path) => node' = [node EXCEPT ![path] = None] /\ inside' = inside
  BY <1>2 DEF Prefix!Clear
<1>5. ASSUME NEW j \in LinkedKegs, node[path] = LinkTo(j, path) PROVE taken = <<j, path>>
  BY <1>2, <1>5, LinksAre DEF LinkTo
<1>6. Prefix!OverwriteAllowed(k, path) => \A j \in LinkedKegs : node[path] # LinkTo(j, path)
  BY <1>2, LinksAre DEF Prefix!OverwriteAllowed
<1>7. ASSUME path \in LinkFiles,
             proc' = [proc EXCEPT ![k].pc = "undo", ![k].todo = Prefix!Children(k, Prefix!Root, FALSE), ![k].moved = @ \cup {path}]
      PROVE  proc' = [proc EXCEPT ![k] = gone]
  <2> DEFINE c == Prefix!Children(k, Prefix!Root, FALSE)
  <2>1. proc' = [proc EXCEPT ![k].pc = "undo", ![k].todo = c, ![k].moved = @ \cup {path}]
    BY <1>7
  <2>2. gone = [proc[k] EXCEPT !.pc = "undo", !.todo = c, !.moved = moved \cup {path}]
    BY DEF Root
  <2> HIDE DEF c, gone
  <2>3. proc \in [LinkedKegs -> Linkers]
    BY <1>2 DEF LinkTyped
  <2> QED BY <2>1, <2>2, <2>3
<1>11. /\ h = Prefix!First(k) /\ path = h.path /\ cut = (IF h.other THEN {h.keg} ELSE {})
       /\ moved = proc[k].moved
  OBVIOUS
<1> HIDE DEF h, path, there, cut, taken, moved
<1>12. ASSUME NEW m \in SUBSET LinkFiles, LinkFrame, Gone(k, h, m),
              proc' = [proc EXCEPT ![k] = [proc[k] EXCEPT !.pc = "undo", !.todo = Prefix!Children(k, Root, FALSE), !.moved = m]]
       PROVE  LinkInv'
  BY ZenonT(60), <1>1, <1>11, <1>12, LinkFailed
<1>8. CASE Prefix!Fail(k) /\ node' = node /\ inside' = inside /\ replaced' = replaced
  <2>1. LinkFrame
    BY <1>1, <1>8 DEF LinkFrame
  <2>2. proc' = [proc EXCEPT ![k] = [proc[k] EXCEPT !.pc = "undo", !.todo = Prefix!Children(k, Root, FALSE), !.moved = moved]]
    BY <1>2, <1>8, FailIs DEF moved
  <2>3. Gone(k, h, moved)
    BY <1>8, <1>11 DEF Gone
  <2> QED BY <1>2, <1>12, <2>1, <2>2, <2>3
<1>9. CASE path \in LinkFiles /\ Prefix!Clear(path) /\ Prefix!Fail(k) /\ replaced' = replaced \cup {taken}
  <2>1. LinkFrame /\ replaced \subseteq replaced' /\ node' = [node EXCEPT ![path] = None]
        /\ \A j \in LinkedKegs : node[path] = LinkTo(j, path) => <<j, path>> \in replaced'
    BY <1>1, <1>4, <1>5, <1>9 DEF LinkFrame
  <2>2. proc' = [proc EXCEPT ![k] = [proc[k] EXCEPT !.pc = "undo", !.todo = Prefix!Children(k, Root, FALSE), !.moved = moved]]
    BY <1>2, <1>9, FailIs DEF moved
  <2>3. Gone(k, h, moved)
    BY <1>9, <1>11, <2>1 DEF Gone
  <2> QED BY <1>2, <1>12, <2>1, <2>2, <2>3
<1>10. CASE /\ path \in LinkFiles /\ Prefix!OverwriteAllowed(k, path) /\ Prefix!Clear(path) /\ replaced' = replaced
            /\ proc' = [proc EXCEPT ![k].pc = "undo", ![k].todo = Prefix!Children(k, Prefix!Root, FALSE), ![k].moved = @ \cup {path}]
  <2> DEFINE m == moved \cup {path}
  <2>1. LinkFrame /\ node' = [node EXCEPT ![path] = None] /\ node'[path] = None
        /\ \A j \in LinkedKegs : node[path] # LinkTo(j, path)
    BY <1>1, <1>2, <1>4, <1>6, <1>10 DEF LinkFrame, Nodes
  <2>2. proc' = [proc EXCEPT ![k] = gone]
    BY <1>7, <1>10
  <2>3. m \in SUBSET LinkFiles /\ \A q \in m : q \in moved \/ q = path
    BY <1>2, <1>10
  <2>4. gone = [proc[k] EXCEPT !.pc = "undo", !.todo = Prefix!Children(k, Root, FALSE), !.moved = m]
    OBVIOUS
  <2> HIDE DEF m, gone
  <2>5. Gone(k, h, m)
    BY <1>10, <1>11, <2>1, <2>3 DEF Gone
  <2> QED BY <1>12, <2>1, <2>2, <2>3, <2>4, <2>5
<1> QED BY <1>3, <1>8, <1>9, <1>10

LEMMA LinkDirKeeps ==
  ASSUME Prefix!Parameters, LinkInv, NEW k \in LinkedKegs, Prefix!LinkDir(k)
  PROVE  LinkInv'
<1> DEFINE h == Prefix!First(k)
           path == h.path
           inner == Prefix!Children(h.keg, path, h.other)
<1>0. proc[k].pc = "link" /\ proc[k].todo # <<>> /\ path \in LinkDirs /\ tree' = tree /\ rule' = rule /\ user' = user /\ NoneRecorded
  BY DEF Prefix!LinkDir, Prefix!Working, NoneRecorded
<1>1. /\ h.keg \in LinkedKegs /\ path \in Paths /\ h.other \in BOOLEAN /\ proc[k] \in Linkers
      /\ Bare(node, path) /\ (h.other => Fresh(node, path)) /\ (~h.other => h.keg = k)
      /\ Prefix!Shown(path) = node[path] /\ Prefix!Via(path) = {} /\ node \in Nodes /\ NodesOk(tree, node, Known \cup {k})
  BY ZenonT(120), <1>0, LinkingKnows
<1>2. \A t : Prefix!Place(path, t) <=> node' = Placed(node, path, t) /\ inside' = inside
  BY <1>1 DEF Prefix!Place, Placed, Paths
<1>3. proc \in [LinkedKegs -> Linkers]
  BY DEF LinkInv, LinkTyped
<1>4. node[path] # UserFile
  BY <1>0, <1>1 DEF NodesOk, Prefix!Parameters
<1>5. \A todo1 : Prefix!Todo(k, todo1) => proc' = [proc EXCEPT ![k] = [proc[k] EXCEPT !.todo = todo1]]
  BY <1>3 DEF Prefix!Todo
<1>6. CASE node[path] = RealDir
  <2>1. Prefix!Todo(k, inner \o Prefix!Rest(k)) /\ node' = node /\ inside' = inside /\ replaced' = replaced
    BY <1>1, <1>6 DEF Prefix!LinkDir
  <2> QED BY <1>0, <1>5, <1>6, <2>1, LinkEnters DEF LinkFrame
<1>7. CASE node[path] # RealDir /\ Prefix!RuleOf(h) = "skip"
  <2>1. Prefix!Todo(k, Prefix!Rest(k)) /\ node' = node /\ inside' = inside /\ replaced' = replaced
    BY <1>1, <1>7 DEF Prefix!LinkDir
  <2>2. rule[path] = "skip"
    BY <1>7 DEF Prefix!RuleOf
  <2>3. ASSUME NEW f \in Prefix!Linkable(h.keg), Within(path, f) PROVE FALSE
    <3>1. f \in LinkFiles /\ f # path
      BY <1>0 DEF Prefix!Linkable, Prefix!Parameters
    <3> QED BY SMTT(60), <2>2, <2>3, <3>1 DEF Within, Prefix!Linkable
  <2> QED BY <1>0, <1>5, <2>1, <2>3, LinkPasses DEF LinkFrame
<1>8. CASE node[path] # RealDir /\ Prefix!RuleOf(h) # "skip" /\ Prefix!IsLink(node[path])
  <2>1. Prefix!Expand(k)
    BY <1>1, <1>8 DEF Prefix!LinkDir
  <2>2. /\ node' = [node EXCEPT ![path] = None] /\ inside' = inside /\ replaced' = replaced /\ backup' = backup
        /\ Prefix!Todo(k, Prefix!Children(node[path].keg, path, TRUE) \o inner \o Prefix!Rest(k))
    BY <1>1, <2>1 DEF Prefix!Expand
  <2> QED BY <1>0, <1>5, <1>8, <2>2, LinkExpands DEF LinkFrame
<1>9. CASE node[path] # RealDir /\ Prefix!RuleOf(h) # "skip" /\ ~Prefix!IsLink(node[path])
  <2>1. node[path] = None
    BY <1>1, <1>4, <1>9 DEF Prefix!IsLink
  <2>2. CASE Prefix!RuleOf(h) = "mkpath"
    <3>1. Prefix!Place(path, RealDir) /\ Prefix!Todo(k, inner \o Prefix!Rest(k)) /\ replaced' = replaced
      BY <1>1, <1>9, <2>1, <2>2 DEF Prefix!LinkDir
    <3> QED BY <1>0, <1>2, <1>5, <2>1, <3>1, LinkEnters DEF LinkFrame
  <2>3. CASE Prefix!RuleOf(h) # "mkpath"
    <3>1. Prefix!Symlink(k)
      BY <1>1, <1>9, <2>1, <2>3 DEF Prefix!LinkDir
    <3>2. ~h.other
      BY <1>1, <2>3 DEF Prefix!RuleOf
    <3> QED BY <1>0, <2>1, <3>1, <3>2, SymlinkKeeps
  <2> QED BY <2>2, <2>3
<1> QED BY <1>6, <1>7, <1>8, <1>9

LEMMA FinishLinkKeeps ==
  ASSUME Prefix!Parameters, LinkInv, NEW k \in LinkedKegs, Prefix!FinishLink(k)
  PROVE  LinkInv'
<1>1. /\ proc[k].pc = "link" /\ proc[k].todo = <<>> /\ linked' = linked \cup {k} /\ half' = half \ {k}
      /\ recorded' \subseteq recorded \cup {k} /\ proc' = [proc EXCEPT ![k] = Prefix!Idle]
      /\ tree' = tree /\ rule' = rule /\ node' = node /\ inside' = inside /\ user' = user /\ replaced' = replaced
  BY DEF Prefix!FinishLink
<1>2. Prefix!Idle \in Linkers /\ Prefix!Idle.pc = "idle"
  BY IdleIs
<1>3. (\A j \in LinkedKegs : Busy(j) => j = k) /\ Owners = Known \cup {k}
  BY <1>1 DEF LinkInv, LinkTyped, Busy, Owners
<1>4. node \in Nodes /\ NodesOk(tree, node, Known \cup {k})
  BY <1>3 DEF LinkInv, LinkTyped
<1>5. \A j \in linked \cup {k} : \A f \in Prefix!Linkable(j) : There(node, replaced, j, f)
  <2>1. \A j, f : ~Ahead(<<>>, j, f)
    BY DEF Ahead
  <2>2. \A j \in linked \cup {k} : \A f \in Prefix!Linkable(j) : Covered(node, replaced, <<>>, j, f)
    BY <1>1 DEF LinkInv
  <2> QED BY <2>1, <2>2 DEF Covered
<1>6. Known' = Known \cup {k} /\ linked' \subseteq LinkedKegs /\ half' \subseteq LinkedKegs /\ recorded' \subseteq Known'
  BY <1>1 DEF LinkInv, LinkTyped, Known
<1> QED BY <1>1, <1>2, <1>3, <1>4, <1>5, <1>6, RestStep DEF LinkFrame

LEMMA StartLinkKeeps ==
  ASSUME Prefix!Parameters, LinkInv, Prefix!Quiet, NEW k \in LinkedKegs, NEW overwrite \in BOOLEAN, NEW globs \in {{}, UserFiles},
         Prefix!StartLink(k, overwrite, globs)
  PROVE  LinkInv'
<1> DEFINE c == Prefix!Children(k, Root, FALSE)
           r == [Prefix!Idle EXCEPT !.pc = "link", !.overwrite = overwrite, !.globs = globs, !.todo = c]
<1>1. /\ \A j \in LinkedKegs : ~Busy(j)
      /\ proc' = [proc EXCEPT ![k] = r] /\ replaced' = {q \in replaced : q[1] # k} /\ node' = node
      /\ LinkFrame /\ NoneRecorded
  <2>1. \A j \in LinkedKegs : ~Busy(j)
    BY DEF Prefix!Quiet, Busy
  <2>2. proc' = [proc EXCEPT ![k] = r]
    BY DEF Prefix!StartLink, Root
  <2>3. /\ replaced' = {q \in replaced : q[1] # k} /\ node' = node
        /\ LinkFrame /\ NoneRecorded
    BY DEF Prefix!StartLink, LinkFrame, NoneRecorded
  <2> QED BY <2>1, <2>2, <2>3
<1>2. /\ tree \in Trees /\ node \in Nodes /\ linked \cup {k} \subseteq LinkedKegs /\ Known \cup {k} \subseteq LinkedKegs /\ NodesOk(tree, node, Owners) /\ Owners = Known
      /\ \A j \in linked : \A f \in Prefix!Linkable(j) : There(node, replaced, j, f)
      /\ user \subseteq LinkFiles
  BY <1>1 DEF LinkInv, LinkTyped, Owners, Known, Prefix!Parameters
<1>3. NodesOk(tree, node, Known \cup {k})
  BY <1>2 DEF NodesOk
<1>0. ASSUME NEW o \in BOOLEAN
      PROVE  LET u == Prefix!Children(k, Root, o) IN
             /\ u \in Seq(Items)
             /\ \A i \in DOMAIN u : u[i].keg = k /\ u[i].other = o /\ u[i].path \in tree[k] /\ Prefix!Front(u[i].path) = Root
             /\ Apart(u) /\ OthersFirst(u) /\ OfOneKeg(u)
  <2> DEFINE u == Prefix!Children(k, Root, o)
  <2>1. /\ u \in Seq(Items)
        /\ \A i \in DOMAIN u : u[i].keg = k /\ u[i].other = o /\ u[i].path \in tree[k] /\ Prefix!Front(u[i].path) = Root
    BY <1>2, ChildrenAre
  <2>2. Apart(u) /\ OthersFirst(u) /\ OfOneKeg(u)
    BY <1>2, ChildrenApart
  <2> QED BY <2>1, <2>2
<1>4. /\ c \in Seq(Items)
      /\ \A i \in DOMAIN c : c[i].keg = k /\ c[i].other = FALSE /\ c[i].path \in tree[k] /\ Prefix!Front(c[i].path) = Root
      /\ Apart(c) /\ OthersFirst(c) /\ OfOneKeg(c)
  BY <1>0
<1>5. ASSUME NEW f \in Prefix!Linkable(k) PROVE Ahead(c, k, f)
  <2>1. f \in tree[k] /\ Prefix!Above(f) \subseteq tree[k]
    BY DEF Prefix!Linkable, LinkInv, LinkTyped
  <2> QED BY <1>2, <2>1, ChildrenAhead
<1> HIDE DEF c
<1>6. r \in Linkers /\ r.pc = "link" /\ r.todo = c /\ r.moved = {}
  BY <1>4, IdleIs DEF Linkers, Prefix!Parameters
<1> HIDE DEF r
<1>7. WalkOk(tree, node', Known, k, r.todo)
  <2>1. ASSUME NEW i \in DOMAIN c PROVE ItemOk(tree, node, Known, k, c[i])
    <3>1. c[i].path \in Paths /\ Prefix!Above(c[i].path) = {}
      BY <1>2, <1>4, FrontIs DEF Trees
    <3> QED BY <1>4, <3>1 DEF ItemOk, Bare
  <2> QED BY <1>1, <1>4, <1>6, <2>1 DEF WalkOk
<1>8. MovedOk(node', k, r.moved, FALSE)
  BY <1>6 DEF MovedOk
<1>9. ASSUME NEW j \in linked \cup {k}, NEW f \in Prefix!Linkable(j) PROVE Covered(node', replaced', r.todo, j, f)
  <2>1. CASE j = k
    BY <1>5, <1>6, <2>1 DEF Covered
  <2>2. CASE j # k
    <3>1. There(node, replaced, j, f) /\ <<j, f>>[1] # k
      BY <1>2, <2>2
    <3> QED BY <1>1, <3>1 DEF Covered, There
  <2> QED BY <2>1, <2>2
<1> QED BY <1>1, <1>2, <1>3, <1>6, <1>7, <1>8, <1>9, WalkStep

(* What is known at the head while a keg's links are removed. *)
LEMMA UnlinkingKnows ==
  ASSUME Prefix!Parameters, LinkInv, NEW k \in LinkedKegs, proc[k].pc \in {"unlink", "undo"}
  PROVE  /\ proc[k] \in Linkers /\ tree \in Trees /\ node \in Nodes /\ NodesOk(tree, node, Known \cup {k})
         /\ (\A j \in LinkedKegs : Busy(j) => j = k) /\ linked \cup {k} \subseteq LinkedKegs /\ Known \cup {k} \subseteq LinkedKegs
         /\ UnwalkOk(tree, node, k, proc[k].todo) /\ MovedOk(node, k, proc[k].moved, TRUE) /\ proc[k].moved \subseteq LinkFiles
         /\ \A j \in linked \ {k} : \A f \in Prefix!Linkable(j) : There(node, replaced, j, f)
         /\ user \subseteq LinkFiles /\ LinkFiles \subseteq Paths
<1>1. (\A j \in LinkedKegs : Busy(j) => j = k) /\ Owners = Known \cup {k}
  BY DEF LinkInv, Busy, Owners
<1>2. /\ proc[k] \in Linkers /\ tree \in Trees /\ node \in Nodes /\ linked \cup {k} \subseteq LinkedKegs /\ Known \cup {k} \subseteq LinkedKegs
      /\ user \subseteq LinkFiles /\ LinkFiles \subseteq Paths
  BY AboveIn DEF LinkInv, LinkTyped, Known, Prefix!Parameters
<1>3. proc[k].moved \subseteq LinkFiles
  BY <1>2 DEF Linkers
<1> QED BY <1>1, <1>2, <1>3 DEF LinkInv

LEMMA StartUnlinkKeeps ==
  ASSUME Prefix!Parameters, LinkInv, Prefix!Quiet, NEW k \in LinkedKegs, Prefix!StartUnlink(k)
  PROVE  LinkInv'
<1> DEFINE c == Prefix!Children(k, Root, FALSE)
           r == [Prefix!Idle EXCEPT !.pc = "unlink", !.todo = c]
<1>1. /\ \A j \in LinkedKegs : ~Busy(j)
      /\ proc' = [proc EXCEPT ![k] = r] /\ replaced' = replaced /\ node' = node
      /\ LinkFrame /\ NoneRecorded
  <2>1. \A j \in LinkedKegs : ~Busy(j)
    BY DEF Prefix!Quiet, Busy
  <2>2. proc' = [proc EXCEPT ![k] = r]
    BY DEF Prefix!StartUnlink, Root
  <2>3. /\ replaced' = replaced /\ node' = node
        /\ LinkFrame /\ NoneRecorded
    BY DEF Prefix!StartUnlink, LinkFrame, NoneRecorded
  <2> QED BY <2>1, <2>2, <2>3
<1>2. /\ node \in Nodes /\ linked \cup {k} \subseteq LinkedKegs /\ Known \cup {k} \subseteq LinkedKegs /\ NodesOk(tree, node, Owners) /\ Owners = Known
      /\ \A j \in linked : \A f \in Prefix!Linkable(j) : There(node, replaced, j, f)
  BY <1>1 DEF LinkInv, LinkTyped, Owners, Known
<1>3. NodesOk(tree, node, Known \cup {k})
  BY <1>2 DEF NodesOk
<1>4. c \in Seq(Items) /\ UnwalkOk(tree, node, k, c)
  BY UnwalkStarts
<1> HIDE DEF c
<1>5. r \in Linkers /\ r.pc = "unlink" /\ r.todo = c /\ r.moved = {}
  BY <1>4, IdleIs DEF Linkers
<1> HIDE DEF r
<1>6. /\ node' \in Nodes /\ NodesOk(tree, node', Known \cup {k})
      /\ UnwalkOk(tree, node', k, r.todo) /\ MovedOk(node', k, r.moved, TRUE)
      /\ \A j \in linked \ {k} : \A f \in Prefix!Linkable(j) : There(node', replaced', j, f)
  BY <1>1, <1>2, <1>3, <1>4, <1>5 DEF MovedOk
<1>7. linked' = linked /\ half' \subseteq LinkedKegs /\ Known' = Known /\ recorded' = recorded
  BY <1>1 DEF NoneRecorded, Known, LinkInv, LinkTyped
<1> QED BY <1>1, <1>5, <1>6, <1>7, UnwalkStep

LEMMA UnlinkItemKeeps ==
  ASSUME Prefix!Parameters, LinkInv, NEW k \in LinkedKegs, Prefix!UnlinkItem(k)
  PROVE  LinkInv'
<1> DEFINE s == proc[k].todo
           t == Tail(s)
           path == s[1].path
           ours == node[path] = LinkTo(k, path)
           c == Prefix!Children(k, path, FALSE)
<1>1. /\ proc[k].pc \in {"unlink", "undo"} /\ s # <<>> /\ LinkFrame /\ NoneRecorded /\ replaced' = replaced
  BY DEF Prefix!UnlinkItem, Prefix!Unlinks, Prefix!Unlinking, LinkFrame, NoneRecorded
<1>2. /\ proc[k] \in Linkers /\ tree \in Trees /\ node \in Nodes /\ NodesOk(tree, node, Known \cup {k})
      /\ (\A j \in LinkedKegs : Busy(j) => j = k) /\ linked \cup {k} \subseteq LinkedKegs /\ Known \cup {k} \subseteq LinkedKegs
      /\ UnwalkOk(tree, node, k, s) /\ MovedOk(node, k, proc[k].moved, TRUE) /\ proc[k].moved \subseteq LinkFiles
      /\ \A j \in linked \ {k} : \A f \in Prefix!Linkable(j) : There(node, replaced, j, f)
      /\ user \subseteq LinkFiles /\ LinkFiles \subseteq Paths
      /\ proc \in [LinkedKegs -> Linkers]
  BY <1>1, UnlinkingKnows DEF LinkInv, LinkTyped
<1>3. s \in Seq(Items) /\ t \in Seq(Items) /\ proc[k].dirs \subseteq Paths
  BY <1>1, <1>2, TailIs DEF Linkers
<1>4. /\ 1 \in DOMAIN s /\ s[1] = Prefix!First(k) /\ t = Prefix!Rest(k) /\ s[1] \in Items
      /\ \A i \in DOMAIN t : i + 1 \in DOMAIN s /\ t[i] = s[i + 1]
  BY <1>1, <1>3, TailIs DEF Prefix!First, Prefix!Rest
<1>5. path \in Paths /\ path \in tree[k]
  BY <1>2, <1>4 DEF UnwalkOk, Items
<1>6. ours <=> Prefix!Via(path) = {} /\ node[path] = [keg |-> k, path |-> path]
  <2>1. ours => Prefix!Via(path) = {}
    BY SMTT(60), <1>2, <1>5, LinksAre, NodeIs, BareIsShown DEF Prefix!IsLink
  <2> QED BY <2>1 DEF LinkTo
<1>7. /\ node' = IF ours THEN [node EXCEPT ![path] = None] ELSE node
      /\ \E dirs \in SUBSET Paths :
           proc' = [proc EXCEPT ![k].todo = IF path \in LinkDirs /\ ~ours THEN c \o t ELSE t, ![k].dirs = dirs]
  <2>1. node' = IF ours THEN [node EXCEPT ![path] = None] ELSE node
    BY <1>4, <1>6 DEF Prefix!UnlinkItem, Prefix!Ours
  <2> DEFINE dirs == IF Prefix!Via(path) = {} /\ node[path] = RealDir THEN proc[k].dirs \cup {path} ELSE proc[k].dirs
  <2>2. dirs \in SUBSET Paths
    BY <1>3, <1>5
  <2>3. proc' = [proc EXCEPT ![k].todo = IF path \in LinkDirs /\ ~ours THEN c \o t ELSE t, ![k].dirs = dirs]
    <3>1. proc' = [proc EXCEPT
             ![k].todo = IF path \in LinkDirs /\ ~(Prefix!Via(path) = {} /\ node[path] = [keg |-> k, path |-> path]) THEN c \o t ELSE t,
             ![k].dirs = IF Prefix!Via(path) = {} /\ node[path] = RealDir THEN @ \cup {path} ELSE @]
      BY <1>4 DEF Prefix!UnlinkItem, Prefix!Ours
    <3> HIDE DEF ours, c, t, path, s
    <3> QED BY ZenonT(120), <1>2, <1>6, <3>1 DEF ours
  <2> QED BY <2>1, <2>2, <2>3
<1>8. PICK dirs \in SUBSET Paths :
        proc' = [proc EXCEPT ![k].todo = IF path \in LinkDirs /\ ~ours THEN c \o t ELSE t, ![k].dirs = dirs]
  BY <1>7
<1> HIDE DEF s, t, path, ours, c
<1> DEFINE todo1 == IF path \in LinkDirs /\ ~ours THEN c \o t ELSE t
           r == [proc[k] EXCEPT !.todo = todo1, !.dirs = dirs]
<1>0. ASSUME NEW o \in BOOLEAN
      PROVE  LET u == Prefix!Children(k, path, o) IN
             u \in Seq(Items) /\ \A i \in DOMAIN u : u[i].keg = k /\ u[i].path \in tree[k]
  BY <1>2, ChildrenAre
<1>9. c \in Seq(Items) /\ \A i \in DOMAIN c : c[i].keg = k /\ c[i].path \in tree[k]
  BY <1>0 DEF c
<1>10. todo1 \in Seq(Items)
  BY <1>3, <1>9, ConcatIs
<1>11. \A i \in DOMAIN todo1 : todo1[i].keg = k /\ todo1[i].path \in tree[k]
  <2>1. \A i \in DOMAIN t : t[i].keg = k /\ t[i].path \in tree[k]
    BY <1>2, <1>4 DEF UnwalkOk
  <2>2. \A i \in DOMAIN (c \o t) : (\E j \in DOMAIN c : (c \o t)[i] = c[j]) \/ (\E j \in DOMAIN t : (c \o t)[i] = t[j])
    BY <1>3, <1>9, ConcatHolds
  <2>3. \A i \in DOMAIN (c \o t) : (c \o t)[i].keg = k /\ (c \o t)[i].path \in tree[k]
    BY <1>9, <2>1, <2>2
  <2> QED BY <2>1, <2>3
<1>12. ASSUME NEW p \in Paths, node'[p] = LinkTo(k, p) PROVE Ahead(todo1, k, p)
  <2>1. node[p] = LinkTo(k, p) /\ (ours => p # path)
    <3>1. CASE ours /\ p = path
      BY <1>2, <1>5, <1>7, <1>12, <3>1, LinksAre DEF Nodes, Prefix!IsLink
    <3>2. CASE ~(ours /\ p = path)
      BY <1>2, <1>7, <1>12, <3>2 DEF Nodes
    <3> QED BY <3>1, <3>2
  <2>2. Ahead(t, k, p) \/ Within(path, p)
    BY <1>1, <1>2, <1>3, <2>1, TailAhead DEF t, path, UnwalkOk
  <2>3. Ahead(c \o t, k, p) <=> Ahead(c, k, p) \/ Ahead(t, k, p)
    BY <1>3, <1>9, ConcatAhead
  <2>4. CASE Ahead(t, k, p)
    BY <2>3, <2>4
  <2>5. CASE Within(path, p)
    <3>1. path # p
      BY <2>1 DEF ours
    <3>2. path \in Prefix!Above(p)
      BY <2>5, <3>1 DEF Within
    <3>3. ~ours
      <4>1. node[p] # None
        BY <1>2, <2>1, LinksAre DEF Prefix!IsLink
      <4>2. ours => node[path] # RealDir
        BY <1>2, <1>5, LinksAre DEF ours, Prefix!IsLink
      <4> QED BY <1>2, <1>5, <3>2, <4>1, <4>2, NodeIs
    <3>4. p \in tree[k] /\ Prefix!Above(p) \subseteq tree[k]
      <4>1. Prefix!IsLink(node[p]) /\ node[p].keg = k
        BY <2>1, LinksAre DEF LinkTo
      <4>2. p \in tree[k]
        BY <1>2, <4>1 DEF NodesOk
      <4> QED BY <4>2 DEF LinkInv, LinkTyped
    <3>5. Ahead(c, k, p)
      BY <1>2, <3>2, <3>4, ChildrenAhead DEF c
    <3> QED BY <2>3, <3>2, <3>3, <3>5, AboveIn
  <2> QED BY <2>2, <2>4, <2>5
<1> HIDE DEF todo1
<1>13. r \in Linkers /\ r.pc \in {"unlink", "undo"} /\ r.todo = todo1 /\ r.moved = proc[k].moved /\ proc' = [proc EXCEPT ![k] = r]
  BY <1>1, <1>2, <1>8, <1>10 DEF Linkers, todo1
<1> HIDE DEF r
<1>14. /\ node' \in Nodes /\ NodesOk(tree, node', Known \cup {k})
       /\ \A p \in Paths : node'[p] = node[p] \/ (node[p] = LinkTo(k, p) /\ node'[p] = None)
       /\ \A p \in Paths : Bare(node, p) => Bare(node', p)
  <2>1. CASE ours
    <3>1. node[path] # RealDir
      BY <1>2, <1>5, <2>1, LinksAre DEF ours, Prefix!IsLink
    <3> DEFINE m == [node EXCEPT ![path] = None]
    <3>2. /\ m \in Nodes /\ NodesOk(tree, m, Known \cup {k})
          /\ m[path] = None /\ \A p \in Paths : p # path => m[p] = node[p]
          /\ \A p \in Paths : Bare(node, p) => Bare(m, p)
      BY ZenonT(120), <1>2, <1>5, <3>1, ClearedIs
    <3>3. node' = m
      BY <1>7, <2>1
    <3> HIDE DEF m
    <3> QED BY <2>1, <3>2, <3>3 DEF ours
  <2>2. CASE ~ours
    BY <1>2, <1>7, <2>2
  <2> QED BY <2>1, <2>2
<1>15. UnwalkOk(tree, node', k, r.todo)
  BY <1>11, <1>12, <1>13 DEF UnwalkOk
<1>16. MovedOk(node', k, r.moved, TRUE)
  <2> SUFFICES ASSUME NEW q \in proc[k].moved PROVE Bare(node', q) /\ (node'[q] = LinkTo(k, q) \/ node'[q] = None)
    BY <1>13 DEF MovedOk
  <2>1. q \in Paths
    BY <1>2
  <2> QED BY <1>2, <1>14, <2>1 DEF MovedOk
<1>17. ASSUME NEW j \in linked \ {k}, NEW f \in Prefix!Linkable(j) PROVE There(node', replaced', j, f)
  <2>1. There(node, replaced, j, f)
    BY <1>2
  <2>2. CASE Reached(node, j, f)
    <3>1. PICK p \in Paths : Within(p, f) /\ node[p] = LinkTo(j, p)
      BY <2>2 DEF Reached
    <3>2. LinkTo(j, p) # LinkTo(k, p)
      BY DEF LinkTo
    <3> QED BY <1>14, <3>1, <3>2 DEF There, Reached
  <2> QED BY <1>1, <2>1, <2>2 DEF There
<1>18. linked' = linked /\ half' \subseteq LinkedKegs /\ Known' = Known /\ recorded' = recorded
  BY <1>1 DEF NoneRecorded, Known, LinkInv, LinkTyped
<1> QED BY <1>1, <1>2, <1>13, <1>14, <1>15, <1>16, <1>17, <1>18, UnwalkStep

(* Directories that nothing else is in are removed. *)
LEMMA PrunedIs ==
  ASSUME Prefix!Parameters, NEW tr, NEW n \in Nodes, NEW W, NodesOk(tr, n, W), NEW dirs \in SUBSET Paths
  PROVE  LET m == Prefix!Pruned(n, dirs) IN
         m \in Nodes /\ NodesOk(tr, m, W) /\ \A p \in Paths : m[p] = n[p] \/ (n[p] = RealDir /\ m[p] = None)
<1> DEFINE goes(p) == p \in dirs /\ n[p] = RealDir
           empty == {d \in dirs : goes(d) /\ \A p \in Paths : d \in Prefix!Above(p) => n[p] = None \/ goes(p)}
           m == [p \in Paths |-> IF p \in empty THEN None ELSE n[p]]
<1>1. Prefix!Pruned(n, dirs) = m
  BY DEF Prefix!Pruned, Paths
<1>2. m \in Nodes /\ \A p \in Paths : m[p] = n[p] \/ (n[p] = RealDir /\ m[p] = None)
  BY DEF Nodes
<1>3. ASSUME NEW p \in Paths, m[p] # None, NEW d \in Prefix!Above(p) PROVE m[d] = RealDir
  <2>1. p \notin empty /\ n[p] # None
    BY <1>3
  <2>2. n[d] = RealDir /\ d \in Paths
    BY <2>1, AboveIn DEF NodesOk
  <2>3. d \notin empty
    <3> SUFFICES ASSUME d \in empty PROVE FALSE
      OBVIOUS
    <3>1. goes(p)
      BY <2>1
    <3>2. PICK q \in Paths : p \in Prefix!Above(q) /\ n[q] # None /\ ~goes(q)
      BY <2>1, <3>1
    <3>3. d \in Prefix!Above(q)
      BY <1>3, <2>2, <3>2, WithinTrans DEF Within
    <3> QED BY <3>2, <3>3
  <2> QED BY <2>2, <2>3
<1> HIDE DEF m
<1>4. ASSUME NEW p \in Paths
      PROVE  /\ m[p] = RealDir => p \in LinkDirs
             /\ m[p] = UserFile => p \in LinkFiles
             /\ Prefix!IsLink(m[p]) => m[p].path = p /\ m[p].keg \in W /\ p \in tr[m[p].keg]
  BY <1>2 DEF NodesOk, Prefix!IsLink, Prefix!Parameters
<1>5. NodesOk(tr, m, W)
  BY <1>3, <1>4 DEF NodesOk
<1> QED BY <1>1, <1>2, <1>5

(* What was moved away goes back, with the directories it is in. *)
LEMMA RestoredIs ==
  ASSUME Prefix!Parameters, NEW k, NEW tr, NEW n \in Nodes, NEW W, NodesOk(tr, n, W), proc[k].moved \subseteq LinkFiles,
         Prefix!Back(k) = proc[k].moved, \A q \in proc[k].moved : Bare(n, q)
  PROVE  LET m == Prefix!Restored(k, n) IN
         /\ m \in Nodes /\ NodesOk(tr, m, W)
         /\ \A p \in proc[k].moved : m[p] = UserFile
         /\ \A p \in Paths \ proc[k].moved : m[p] = n[p] \/ (p \in LinkDirs /\ m[p] = RealDir /\ ~Prefix!IsLink(n[p]))
<1> DEFINE moved == proc[k].moved
           m == [p \in Paths |-> IF p \in moved THEN UserFile ELSE IF \E q \in moved : p \in Prefix!Above(q) THEN RealDir ELSE n[p]]
<1>1. Prefix!Restored(k, n) = m
  BY DEF Prefix!Restored, Paths
<1>2. moved \subseteq LinkFiles /\ moved \subseteq Paths /\ moved \cap LinkDirs = {}
  BY AboveIn DEF Prefix!Parameters
<1> HIDE DEF moved
<1>3. m \in Nodes
  BY DEF Nodes
<1>4. /\ \A p \in moved : m[p] = UserFile
      /\ \A p \in Paths \ moved, q \in moved : p \in Prefix!Above(q) => m[p] = RealDir
      /\ \A p \in Paths \ moved : (\A q \in moved : p \notin Prefix!Above(q)) => m[p] = n[p]
  BY <1>2
<1> HIDE DEF m
<1>5. ASSUME NEW p \in Paths, m[p] # None, NEW d \in Prefix!Above(p) PROVE m[d] = RealDir
  <2>1. d \in LinkDirs /\ d \in Paths /\ d \notin moved
    BY <1>2, AboveIn
  <2>2. CASE p \in moved
    BY <1>4, <1>5, <2>1, <2>2
  <2>3. CASE \E q \in moved : p \in Prefix!Above(q)
    <3>1. PICK q \in moved : p \in Prefix!Above(q)
      BY <2>3
    <3>2. d \in Prefix!Above(q)
      BY <1>2, <1>5, <2>1, <3>1, WithinTrans DEF Within
    <3> QED BY <1>4, <2>1, <3>2
  <2>4. CASE p \notin moved /\ \A q \in moved : p \notin Prefix!Above(q)
    <3>1. n[d] = RealDir
      BY <1>4, <1>5, <2>4 DEF NodesOk
    <3>2. CASE \E q \in moved : d \in Prefix!Above(q)
      BY <1>4, <2>1, <3>2
    <3>3. CASE \A q \in moved : d \notin Prefix!Above(q)
      BY <1>4, <2>1, <3>1, <3>3
    <3> QED BY <3>2, <3>3
  <2> QED BY <2>2, <2>3, <2>4
<1>6. ASSUME NEW p \in Paths \ moved PROVE m[p] = n[p] \/ (p \in LinkDirs /\ m[p] = RealDir /\ ~Prefix!IsLink(n[p]))
  <2>1. CASE \E q \in moved : p \in Prefix!Above(q)
    BY <1>4, <2>1, AboveIn DEF Bare, moved
  <2>2. CASE \A q \in moved : p \notin Prefix!Above(q)
    BY <1>4, <2>2
  <2> QED BY <2>1, <2>2
<1>7. ASSUME NEW p \in Paths
      PROVE  /\ m[p] = RealDir => p \in LinkDirs
             /\ m[p] = UserFile => p \in LinkFiles
             /\ Prefix!IsLink(m[p]) => m[p].path = p /\ m[p].keg \in W /\ p \in tr[m[p].keg]
  <2>1. CASE p \in moved
    BY <1>2, <1>4, <2>1 DEF Prefix!IsLink, Prefix!Parameters
  <2>2. CASE p \notin moved /\ m[p] = n[p]
    BY <2>2 DEF NodesOk
  <2>3. CASE p \notin moved /\ p \in LinkDirs /\ m[p] = RealDir
    BY <2>3 DEF Prefix!IsLink, Prefix!Parameters
  <2> QED BY <1>6, <2>1, <2>2, <2>3
<1>8. NodesOk(tr, m, W)
  BY <1>5, <1>7 DEF NodesOk
<1> QED BY <1>1, <1>3, <1>4, <1>6, <1>8 DEF moved

(* The end of an unlinking: nothing is put into a keg, and others' links stay. *)
LEMMA RestoreIs ==
  ASSUME Prefix!Parameters, LinkInv, NEW k \in LinkedKegs, proc[k].pc \in {"unlink", "undo"},
         NEW n \in Nodes, NEW W, NodesOk(tree, n, W), Prefix!Restore(k, n),
         \A p \in Paths : n[p] = node[p] \/ (node[p] = RealDir /\ n[p] = None)
  PROVE  /\ node' \in Nodes /\ NodesOk(tree, node', W) /\ inside' = inside
         /\ \A j \in LinkedKegs \ {k} : \A p \in Paths : node[p] = LinkTo(j, p) => node'[p] = node[p]
<1> DEFINE moved == proc[k].moved
<1>1. MovedOk(node, k, moved, TRUE) /\ moved \subseteq LinkFiles /\ moved \subseteq Paths /\ inside = [j \in LinkedKegs |-> {}]
  BY UnlinkingKnows DEF LinkInv
<1>2. \A q \in moved : q \in Paths /\ Bare(node, q) /\ Prefix!Via(q) = {}
  BY <1>1, BareIsShown DEF MovedOk
<1>3. Prefix!Back(k) = moved
  BY <1>2 DEF Prefix!Back
<1>4. \A q \in moved : Bare(n, q)
  <2> SUFFICES ASSUME NEW q \in moved, NEW d \in Prefix!Above(q) PROVE ~Prefix!IsLink(n[d])
    BY DEF Bare
  <2>1. d \in Paths /\ ~Prefix!IsLink(node[d])
    BY <1>2, AboveIn DEF Bare
  <2> QED BY <2>1 DEF Prefix!IsLink
<1>5. ASSUME NEW j \in LinkedKegs \ {k}, NEW p \in Paths, node[p] = LinkTo(j, p)
      PROVE  n[p] = node[p] /\ p \notin moved /\ Prefix!IsLink(n[p])
  <2>1. Prefix!IsLink(node[p]) /\ node[p] # RealDir /\ node[p] # None
    BY <1>5, LinksAre DEF Prefix!IsLink
  <2>2. node[p] # LinkTo(k, p)
    BY <1>5 DEF LinkTo
  <2> QED BY <1>1, <2>1, <2>2 DEF MovedOk
<1>6. CASE proc[k].pc = "undo"
  <2>1. node' = Prefix!Restored(k, n) /\ inside' = [j \in LinkedKegs |-> inside[j] \cup {p \in moved : j \in Prefix!Via(p)}]
    BY <1>6 DEF Prefix!Restore
  <2>2. inside' = inside
    <3>1. \A j \in LinkedKegs : inside[j] \cup {p \in moved : j \in Prefix!Via(p)} = {}
      BY <1>1, <1>2
    <3> QED BY <1>1, <2>1, <3>1
  <2> HIDE DEF moved
  <2> DEFINE R == Prefix!Restored(k, n)
  <2>3. /\ R \in Nodes /\ NodesOk(tree, R, W)
        /\ \A p \in moved : R[p] = UserFile
        /\ \A p \in Paths \ moved : R[p] = n[p] \/ (p \in LinkDirs /\ R[p] = RealDir /\ ~Prefix!IsLink(n[p]))
    BY <1>1, <1>3, <1>4, RestoredIs DEF moved
  <2> HIDE DEF R
  <2>4. node' = R
    BY <2>1 DEF R
  <2> QED BY <1>5, <2>2, <2>3, <2>4
<1>7. CASE proc[k].pc # "undo"
  <2>1. node' = n /\ inside' = inside
    BY <1>7 DEF Prefix!Restore
  <2> QED BY <1>5, <2>1
<1> QED BY <1>6, <1>7

LEMMA FinishUnlinkKeeps ==
  ASSUME Prefix!Parameters, LinkInv, NEW k \in LinkedKegs, Prefix!FinishUnlink(k)
  PROVE  LinkInv'
<1> DEFINE m == Prefix!Pruned(node, proc[k].dirs)
           W == Known \ {k}
<1>1. /\ proc[k].pc \in {"unlink", "undo"} /\ proc[k].todo = <<>> /\ linked' = linked \ {k} /\ replaced' = replaced
      /\ proc' = [proc EXCEPT ![k] = Prefix!Idle] /\ tree' = tree /\ rule' = rule /\ user' = user
      /\ (recorded' = recorded \ {k} /\ half' = half \ {k}) \/ (recorded' = recorded /\ half' = half \cup {k})
      /\ Prefix!Restore(k, m)
  BY DEF Prefix!FinishUnlink, Prefix!Unlinking
<1>2. /\ proc[k] \in Linkers /\ node \in Nodes /\ NodesOk(tree, node, Known \cup {k})
      /\ (\A j \in LinkedKegs : Busy(j) => j = k) /\ Known \cup {k} \subseteq LinkedKegs
      /\ UnwalkOk(tree, node, k, <<>>)
      /\ \A j \in linked \ {k} : \A f \in Prefix!Linkable(j) : There(node, replaced, j, f)
  BY <1>1, UnlinkingKnows
<1> HIDE DEF m
<1>3. \A p \in Paths : node[p] # LinkTo(k, p)
  BY <1>2 DEF UnwalkOk, Ahead
<1>4. NodesOk(tree, node, W)
  <2> SUFFICES ASSUME NEW p \in Paths, Prefix!IsLink(node[p]) PROVE node[p].keg # k
    BY <1>2 DEF NodesOk
  <2> QED BY <1>2, <1>3, NodeIs
<1>5. m \in Nodes /\ NodesOk(tree, m, W) /\ \A p \in Paths : m[p] = node[p] \/ (node[p] = RealDir /\ m[p] = None)
  <2>1. proc[k].dirs \in SUBSET Paths
    BY <1>2 DEF Linkers
  <2> DEFINE dirs == proc[k].dirs
             P == Prefix!Pruned(node, dirs)
  <2>2. node \in Nodes /\ dirs \in SUBSET Paths
    BY <1>2, <2>1
  <2> HIDE DEF dirs, W
  <2>3. P \in Nodes /\ NodesOk(tree, P, W) /\ \A p \in Paths : P[p] = node[p] \/ (node[p] = RealDir /\ P[p] = None)
    BY <1>4, <2>2, PrunedIs
  <2>4. P = m
    BY DEF m, dirs
  <2> HIDE DEF P
  <2> QED BY <2>3, <2>4
<1> HIDE DEF W
<1>6. /\ node' \in Nodes /\ NodesOk(tree, node', W) /\ inside' = inside
      /\ \A j \in LinkedKegs \ {k} : \A p \in Paths : node[p] = LinkTo(j, p) => node'[p] = node[p]
  BY <1>1, <1>5, RestoreIs
<1>7. LinkFrame /\ W \subseteq Known' /\ linked' \subseteq LinkedKegs /\ half' \subseteq LinkedKegs /\ recorded' \subseteq Known'
  BY <1>1, <1>6 DEF LinkFrame, LinkInv, LinkTyped, Known, W
<1>8. NodesOk(tree, node', Known')
  BY <1>6, <1>7 DEF NodesOk
<1>9. ASSUME NEW j \in linked', NEW f \in Prefix!Linkable(j) PROVE There(node', replaced', j, f)
  <2>1. There(node, replaced, j, f) /\ j \in LinkedKegs \ {k}
    BY <1>1, <1>2, <1>7
  <2>2. CASE Reached(node, j, f)
    BY <1>6, <2>1, <2>2 DEF There, Reached
  <2> QED BY <1>1, <2>1, <2>2 DEF There
<1> QED BY <1>1, <1>2, <1>6, <1>7, <1>8, <1>9, IdleIs, RestStep

LEMMA UnlinkFailsKeeps ==
  ASSUME Prefix!Parameters, LinkInv, NEW k \in LinkedKegs, Prefix!UnlinkFails(k)
  PROVE  LinkInv'
<1>1. /\ proc[k].pc \in {"unlink", "undo"} /\ linked' = linked \ {k} /\ half' = half \cup {k} /\ replaced' = replaced
      /\ proc' = [proc EXCEPT ![k] = Prefix!Idle] /\ tree' = tree /\ rule' = rule /\ user' = user /\ recorded' = recorded
      /\ Prefix!Restore(k, node)
  BY DEF Prefix!UnlinkFails, Prefix!Unlinks, Prefix!Unlinking
<1>2. /\ node \in Nodes /\ NodesOk(tree, node, Known \cup {k})
      /\ (\A j \in LinkedKegs : Busy(j) => j = k)
      /\ \A j \in linked \ {k} : \A f \in Prefix!Linkable(j) : There(node, replaced, j, f)
  BY <1>1, UnlinkingKnows
<1>3. /\ node' \in Nodes /\ NodesOk(tree, node', Known \cup {k}) /\ inside' = inside
      /\ \A j \in LinkedKegs \ {k} : \A p \in Paths : node[p] = LinkTo(j, p) => node'[p] = node[p]
  BY <1>1, <1>2, RestoreIs
<1>4. LinkFrame /\ Known' = Known \cup {k} /\ linked' \subseteq LinkedKegs /\ half' \subseteq LinkedKegs /\ recorded' \subseteq Known'
  BY <1>1, <1>3 DEF LinkFrame, LinkInv, LinkTyped, Known
<1>5. ASSUME NEW j \in linked', NEW f \in Prefix!Linkable(j) PROVE There(node', replaced', j, f)
  <2>1. There(node, replaced, j, f) /\ j \in LinkedKegs \ {k}
    BY <1>1, <1>2, <1>4
  <2>2. CASE Reached(node, j, f)
    BY <1>3, <2>1, <2>2 DEF There, Reached
  <2> QED BY <1>1, <2>1, <2>2 DEF There
<1> QED BY <1>1, <1>2, <1>3, <1>4, <1>5, IdleIs, RestStep

-------------------------------------------------------------------------------
LEMMA LinkInvInit ==
  ASSUME Prefix!Parameters, Prefix!Init
  PROVE  LinkInv
<1>1. /\ inside = [k \in LinkedKegs |-> {}] /\ linked = {} /\ half = {} /\ recorded = {} /\ proc = [k \in LinkedKegs |-> Prefix!Idle]
      /\ user \subseteq UserFiles /\ UserFiles \subseteq LinkFiles
  BY DEF Prefix!Init, Prefix!Parameters
<1>2. \A k \in LinkedKegs : ~Busy(k)
  BY <1>1, IdleIs DEF Busy
<1>3. ASSUME NEW set, set \subseteq LinkFiles, NEW p \in Prefix!Closed(set)
      PROVE  p \in Paths /\ Prefix!Above(p) \subseteq Prefix!Closed(set) /\ (p \notin set => p \in LinkDirs)
  <2>1. CASE p \in set
    BY <1>3, <2>1, AboveIn DEF Prefix!Closed
  <2>2. CASE p \notin set
    <3>1. PICK f \in set : p \in Prefix!Above(f)
      BY <2>2 DEF Prefix!Closed
    <3>2. p \in Paths /\ f \in Paths /\ p \in LinkDirs
      BY <1>3, <3>1, AboveIn
    <3>3. \A d \in Prefix!Above(p) : d \in Prefix!Above(f)
      BY <3>1, <3>2, AboveIn, WithinTrans DEF Within
    <3> QED BY <3>2, <3>3 DEF Prefix!Closed
  <2> QED BY <2>1, <2>2
<1>4. tree \in Trees /\ \A k \in LinkedKegs : \A p \in tree[k] : Prefix!Above(p) \subseteq tree[k]
  <2>1. tree \in [LinkedKegs -> {Prefix!Closed(files) : files \in (SUBSET LinkFiles) \ {{}}}]
    BY DEF Prefix!Init
  <2>2. ASSUME NEW k \in LinkedKegs PROVE tree[k] \subseteq Paths /\ \A p \in tree[k] : Prefix!Above(p) \subseteq tree[k]
    <3>1. PICK set \in SUBSET LinkFiles : tree[k] = Prefix!Closed(set)
      BY <2>1
    <3> QED BY <1>3, <3>1
  <2> QED BY <2>1, <2>2 DEF Trees
<1>5. node = [p \in Paths |-> IF p \in user THEN UserFile ELSE IF p \in Prefix!Closed(user) THEN RealDir ELSE None]
  BY DEF Prefix!Init, Paths
<1>6. node \in Nodes
  BY <1>5 DEF Nodes
<1>7. NodesOk(tree, node, Owners)
  <2> SUFFICES ASSUME NEW p \in Paths
               PROVE  /\ node[p] # None => \A d \in Prefix!Above(p) : node[d] = RealDir
                      /\ node[p] = RealDir => p \in LinkDirs
                      /\ node[p] = UserFile => p \in LinkFiles
                      /\ ~Prefix!IsLink(node[p])
    BY DEF NodesOk
  <2>1. user \subseteq LinkFiles /\ user \subseteq Prefix!Closed(user)
    BY <1>1 DEF Prefix!Closed
  <2>2. node[p] \in {None, RealDir, UserFile}
    BY <1>5
  <2>3. node[p] = RealDir => p \in LinkDirs
    BY <1>3, <1>5, <2>1 DEF Prefix!Parameters
  <2>4. node[p] = UserFile => p \in LinkFiles
    BY <1>5, <2>1 DEF Prefix!Parameters
  <2>5. ASSUME node[p] # None, NEW d \in Prefix!Above(p) PROVE node[d] = RealDir
    <3>1. p \in Prefix!Closed(user)
      BY <1>5, <2>1, <2>5
    <3>2. d \in Prefix!Closed(user) /\ d \in LinkDirs /\ d \in Paths
      BY <1>3, <2>1, <3>1, AboveIn
    <3>3. d \notin user
      BY <2>1, <3>2 DEF Prefix!Parameters
    <3> QED BY <1>5, <3>2, <3>3
  <2> QED BY <2>2, <2>3, <2>4, <2>5 DEF Prefix!IsLink
<1>9. LinkTyped
  BY <1>1, <1>4, <1>6, IdleIs DEF LinkTyped
<1>10. \A k \in LinkedKegs : proc[k].pc = "idle"
  BY <1>1, IdleIs
<1>11. \A k \in LinkedKegs : proc[k].pc = "link" \/ proc[k].pc \in {"unlink", "undo"} => FALSE
  BY <1>10
<1>12. \A j \in linked : \A f \in Prefix!Linkable(j) : There(node, replaced, j, f)
  BY <1>1
<1> QED BY <1>1, <1>2, <1>7, <1>9, <1>11, <1>12 DEF LinkInv

LEMMA LinkInvStep ==
  ASSUME Prefix!Parameters, ~beside, LinkInv, Prefix!Next, ~beside'
  PROVE  LinkInv'
<1>1. PICK k \in LinkedKegs :
        \/ \E overwrite \in BOOLEAN, globs \in {{}, UserFiles} : Prefix!StartLink(k, overwrite, globs)
        \/ Prefix!LinkFile(k) \/ Prefix!LinkFails(k) \/ Prefix!LinkDir(k) \/ Prefix!FinishLink(k)
        \/ Prefix!StartUnlink(k) \/ Prefix!UnlinkItem(k) \/ Prefix!UnlinkFails(k) \/ Prefix!FinishUnlink(k)
  BY SMTT(60) DEF Prefix!Next
<1>2. CASE \E overwrite \in BOOLEAN, globs \in {{}, UserFiles} : Prefix!StartLink(k, overwrite, globs)
  <2>1. PICK overwrite \in BOOLEAN, globs \in {{}, UserFiles} : Prefix!StartLink(k, overwrite, globs)
    BY <1>2
  <2>2. Prefix!Quiet
    BY <2>1 DEF Prefix!StartLink, Prefix!Begin
  <2> QED BY <2>1, <2>2, StartLinkKeeps
<1>3. CASE Prefix!StartUnlink(k)
  <2>1. Prefix!Quiet
    BY <1>3 DEF Prefix!StartUnlink, Prefix!Begin
  <2> QED BY <1>3, <2>1, StartUnlinkKeeps
<1> QED BY <1>1, <1>2, <1>3, LinkFileKeeps, LinkFailsKeeps, LinkDirKeeps, FinishLinkKeeps,
           UnlinkItemKeeps, UnlinkFailsKeeps, FinishUnlinkKeeps

-------------------------------------------------------------------------------
(* What holds also of kegs that are linked beside each other: the types, and what is
   known of the files of the user's. *)
PrefixKept == LinkTyped /\ Prefix!UserFilesAreKept
UserFrame == tree' = tree /\ user' = user /\ (beside => beside')

(* Nothing of the user's is lost by what only adds to what was taken, saved and put into kegs. *)
Grows ==
  /\ \A f : <<None, f>> \in replaced => <<None, f>> \in replaced'
  /\ backup \subseteq backup'
  /\ \A k \in LinkedKegs : inside[k] \subseteq inside'[k]

LEMMA TypesStay ==
  ASSUME LinkTyped, UserFrame, NEW k \in LinkedKegs, NEW r \in Linkers, proc' = [proc EXCEPT ![k] = r],
         node' \in Nodes, linked' \subseteq LinkedKegs, half' \subseteq LinkedKegs
  PROVE  LinkTyped'
<1>1. proc' \in [LinkedKegs -> Linkers]
  BY DEF LinkTyped
<1> QED BY <1>1 DEF LinkTyped, UserFrame, Trees, Nodes, Prefix!Above

LEMMA UsersStay ==
  ASSUME Prefix!Parameters, PrefixKept, UserFrame, Grows,
         \A f \in LinkFiles : node[f] = UserFile => node'[f] = UserFile \/ <<None, f>> \in replaced' \/ f \in backup'
  PROVE  Prefix!UserFilesAreKept'
<1>1. user \subseteq LinkFiles
  BY DEF PrefixKept, LinkTyped, Prefix!Parameters
<1> SUFFICES ASSUME NEW f \in user
             PROVE  \/ node'[f] = UserFile \/ <<None, f>> \in replaced' \/ f \in backup'
                    \/ beside' /\ \E k \in LinkedKegs : f \in inside'[k]
  BY DEF Prefix!UserFilesAreKept, UserFrame
<1>2. \/ node[f] = UserFile \/ <<None, f>> \in replaced \/ f \in backup
      \/ beside /\ \E k \in LinkedKegs : f \in inside[k]
  BY DEF PrefixKept, Prefix!UserFilesAreKept
<1> QED BY <1>1, <1>2 DEF Grows, UserFrame

(* The path at the head of a walk. *)
LEMMA FirstIs ==
  ASSUME LinkTyped, NEW k \in LinkedKegs, proc[k].todo # <<>>
  PROVE  /\ Prefix!First(k).keg \in LinkedKegs /\ Prefix!First(k).path \in Paths /\ Prefix!First(k).other \in BOOLEAN
         /\ Prefix!Rest(k) \in Seq(Items) /\ proc[k] \in Linkers /\ proc \in [LinkedKegs -> Linkers]
<1>1. proc[k].todo \in Seq(Items) /\ proc[k] \in Linkers /\ proc \in [LinkedKegs -> Linkers]
  BY DEF LinkTyped, Linkers
<1>2. Prefix!First(k) \in Items /\ Prefix!Rest(k) \in Seq(Items)
  BY <1>1, TailIs DEF Prefix!First, Prefix!Rest
<1> QED BY <1>1, <1>2 DEF Items

LEMMA ListIs ==
  ASSUME Prefix!Parameters, LinkTyped, NEW k \in LinkedKegs, NEW dir, NEW o \in BOOLEAN
  PROVE  Prefix!Children(k, dir, o) \in Seq(Items)
BY ChildrenAre DEF LinkTyped

LEMMA PlaceIs ==
  ASSUME Prefix!Parameters, node \in Nodes, NEW path \in Paths,
         NEW target \in {None, RealDir, UserFile} \cup Prefix!Links, Prefix!Place(path, target)
  PROVE  /\ node' \in Nodes /\ \A k \in LinkedKegs : inside[k] \subseteq inside'[k]
         /\ \A f \in Paths : node[f] = UserFile => node'[f] = UserFile \/ (f = path /\ Prefix!Shown(path) = UserFile)
<1>1. CASE Prefix!Via(path) = {}
  <2>1. /\ node' = [p \in Paths |-> IF p = path THEN target
                                    ELSE IF p \in Prefix!Above(path) /\ node[p] = None THEN RealDir ELSE node[p]]
        /\ inside' = inside
    BY <1>1 DEF Prefix!Place, Paths
  <2>2. node' \in Nodes
    BY <2>1 DEF Nodes
  <2>3. Prefix!Shown(path) = node[path]
    BY <1>1 DEF Prefix!Shown
  <2>4. \A f \in Paths : f # path /\ node[f] = UserFile => node'[f] = UserFile
    BY <2>1 DEF Prefix!Parameters
  <2> QED BY <2>1, <2>2, <2>3, <2>4
<1>2. CASE Prefix!Via(path) # {}
  BY <1>2 DEF Prefix!Place, Prefix!InKeg
<1> QED BY <1>1, <1>2

LEMMA ClearIs ==
  ASSUME Prefix!Parameters, node \in Nodes, NEW path \in Paths, Prefix!Clear(path)
  PROVE  /\ node' \in Nodes /\ \A k \in LinkedKegs : inside[k] \subseteq inside'[k]
         /\ \A f \in Paths : node[f] = UserFile => node'[f] = UserFile \/ (f = path /\ Prefix!Shown(path) = UserFile)
<1>1. CASE Prefix!Via(path) = {}
  <2>1. node' = [node EXCEPT ![path] = None] /\ inside' = inside
    BY <1>1 DEF Prefix!Clear
  <2>2. node' \in Nodes
    BY <2>1 DEF Nodes
  <2>3. Prefix!Shown(path) = node[path]
    BY <1>1 DEF Prefix!Shown
  <2>4. \A f \in Paths : f # path /\ node[f] = UserFile => node'[f] = UserFile
    BY <2>1 DEF Nodes
  <2> QED BY <2>1, <2>2, <2>3, <2>4
<1>2. CASE Prefix!Via(path) # {}
  BY <1>2 DEF Prefix!Clear, Prefix!InKeg
<1> QED BY <1>1, <1>2

LEMMA FailStays ==
  ASSUME Prefix!Parameters, LinkTyped, NEW k \in LinkedKegs, NEW moved \in SUBSET LinkFiles
  PROVE  [proc[k] EXCEPT !.pc = "undo", !.todo = Prefix!Children(k, Root, FALSE), !.moved = moved] \in Linkers
<1>1. proc[k] \in Linkers
  BY DEF LinkTyped
<1>2. Prefix!Children(k, Root, FALSE) \in Seq(Items)
  <2> DEFINE o == FALSE
  <2>1. o \in BOOLEAN
    OBVIOUS
  <2> HIDE DEF o
  <2>2. Prefix!Children(k, Root, o) \in Seq(Items)
    BY <2>1, ListIs
  <2> QED BY <2>2 DEF o
<1> QED BY <1>1, <1>2 DEF Linkers

(* What is taken is recorded when it was a file of the user's. *)
LEMMA SymlinkStays ==
  ASSUME Prefix!Parameters, PrefixKept, UserFrame, NEW k \in LinkedKegs, proc[k].todo # <<>>, Prefix!Symlink(k),
         linked' = linked, half' = half
  PROVE  PrefixKept'
<1> DEFINE path == Prefix!First(k).path
           target == [keg |-> Prefix!First(k).keg, path |-> path]
           there == Prefix!Shown(path)
           next == [proc[k] EXCEPT !.todo = Prefix!Rest(k)]
<1>1. /\ LinkTyped /\ Prefix!First(k).keg \in LinkedKegs /\ path \in Paths /\ Prefix!Rest(k) \in Seq(Items)
      /\ proc[k] \in Linkers /\ proc \in [LinkedKegs -> Linkers] /\ node \in Nodes
      /\ linked' \subseteq LinkedKegs /\ half' \subseteq LinkedKegs /\ proc[k].moved \in SUBSET LinkFiles
      /\ proc[k].globs \in SUBSET LinkFiles
  BY FirstIs DEF PrefixKept, LinkTyped, Linkers
<1>2. target \in Prefix!Links /\ target \in {None, RealDir, UserFile} \cup Prefix!Links
  BY <1>1 DEF Prefix!Links, Paths
<1>3. next \in Linkers /\ (Prefix!Todo(k, Prefix!Rest(k)) => proc' = [proc EXCEPT ![k] = next])
  BY <1>1 DEF Linkers, Prefix!Todo
<1> DEFINE case1 == there = target
           case2 == ~case1 /\ there = None
           case3 == ~case1 /\ ~case2 /\ ~Prefix!First(k).other /\ proc[k].overwrite
           case4 == ~case1 /\ ~case2 /\ ~case3 /\ ~Prefix!First(k).other /\ Prefix!OverwriteAllowed(k, path)
<1>4. /\ case1 => Prefix!Todo(k, Prefix!Rest(k)) /\ UNCHANGED <<node, inside, replaced, backup>>
      /\ case2 => Prefix!Place(path, target) /\ Prefix!Todo(k, Prefix!Rest(k)) /\ UNCHANGED <<replaced, backup>>
      /\ case3 => /\ Prefix!Place(path, target) /\ Prefix!Todo(k, Prefix!Rest(k)) /\ UNCHANGED backup
                  /\ replaced' = replaced \cup {<<IF Prefix!IsLink(there) THEN there.keg ELSE None, path>>}
      /\ case4 => /\ Prefix!Place(path, target) /\ UNCHANGED replaced
                  /\ proc' = [proc EXCEPT ![k].todo = Prefix!Rest(k), ![k].moved = @ \cup {path}]
                  /\ backup' = backup \cup {path}
      /\ ~case1 /\ ~case2 /\ ~case3 /\ ~case4 => Prefix!Fail(k) /\ UNCHANGED <<node, inside, replaced, backup>>
  BY DEF Prefix!Symlink
<1>0. there = UserFile => ~Prefix!IsLink(there) /\ there # None
  BY DEF Prefix!IsLink, Prefix!Parameters
<1>5. Prefix!Place(path, target) =>
        /\ node' \in Nodes /\ \A j \in LinkedKegs : inside[j] \subseteq inside'[j]
        /\ \A f \in Paths : node[f] = UserFile => node'[f] = UserFile \/ (f = path /\ there = UserFile)
  <2> HIDE DEF path, target
  <2> QED BY <1>1, <1>2, PlaceIs
<1>6. LinkFiles \subseteq Paths
  BY AboveIn
<1> HIDE DEF path, target, there, next
<1>7. CASE case1
  <2>1. proc' = [proc EXCEPT ![k] = next] /\ node' = node /\ inside' = inside /\ replaced' = replaced /\ backup' = backup
    BY <1>3, <1>4, <1>7
  <2>2. LinkTyped'
    BY <1>1, <1>3, <2>1, TypesStay
  <2>3. Prefix!UserFilesAreKept'
    BY <2>1, UsersStay DEF Grows
  <2> QED BY <2>2, <2>3 DEF PrefixKept
<1>8. CASE case2
  <2>1. proc' = [proc EXCEPT ![k] = next] /\ replaced' = replaced /\ backup' = backup /\ Prefix!Place(path, target) /\ there = None
    BY <1>3, <1>4, <1>8
  <2>2. LinkTyped'
    BY <1>1, <1>3, <1>5, <2>1, TypesStay
  <2>3. Prefix!UserFilesAreKept'
    BY <1>0, <1>5, <1>6, <2>1, UsersStay DEF Grows
  <2> QED BY <2>2, <2>3 DEF PrefixKept
<1>9. CASE case3
  <2>1. /\ proc' = [proc EXCEPT ![k] = next] /\ backup' = backup /\ Prefix!Place(path, target)
        /\ replaced' = replaced \cup {<<IF Prefix!IsLink(there) THEN there.keg ELSE None, path>>}
    BY <1>3, <1>4, <1>9
  <2>2. LinkTyped'
    BY <1>1, <1>3, <1>5, <2>1, TypesStay
  <2>3. there = UserFile => <<None, path>> \in replaced'
    BY <1>0, <2>1
  <2>4. Prefix!UserFilesAreKept'
    BY <1>5, <1>6, <2>1, <2>3, UsersStay DEF Grows
  <2> QED BY <2>2, <2>4 DEF PrefixKept
<1>10. CASE case4
  <2> DEFINE r == [proc[k] EXCEPT !.todo = Prefix!Rest(k), !.moved = proc[k].moved \cup {path}]
  <2>1. /\ replaced' = replaced /\ Prefix!Place(path, target) /\ backup' = backup \cup {path}
        /\ proc' = [proc EXCEPT ![k].todo = Prefix!Rest(k), ![k].moved = @ \cup {path}]
    BY <1>4, <1>10
  <2>2. path \in LinkFiles
    BY <1>1, <1>10 DEF Prefix!OverwriteAllowed
  <2>3. r \in Linkers /\ proc' = [proc EXCEPT ![k] = r]
    BY <1>1, <2>1, <2>2 DEF Linkers
  <2> HIDE DEF r
  <2>4. LinkTyped'
    BY <1>1, <1>5, <2>1, <2>3, TypesStay
  <2>5. Prefix!UserFilesAreKept'
    BY <1>5, <1>6, <2>1, UsersStay DEF Grows
  <2> QED BY <2>4, <2>5 DEF PrefixKept
<1>11. CASE ~case1 /\ ~case2 /\ ~case3 /\ ~case4
  <2> DEFINE m == proc[k].moved
             r == [proc[k] EXCEPT !.pc = "undo", !.todo = Prefix!Children(k, Root, FALSE), !.moved = m]
  <2>1. Prefix!Fail(k) /\ node' = node /\ inside' = inside /\ replaced' = replaced /\ backup' = backup
    BY <1>4, <1>11
  <2>2. r \in Linkers
    <3> HIDE DEF m
    <3>1. m \in SUBSET LinkFiles
      BY <1>1 DEF m
    <3> QED BY <1>1, <3>1, FailStays
  <2>3. proc' = [proc EXCEPT ![k] = r]
    BY <1>1, <2>1 DEF Prefix!Fail, Root, Linkers
  <2> HIDE DEF r
  <2>4. LinkTyped'
    BY <1>1, <2>1, <2>2, <2>3, TypesStay
  <2>5. Prefix!UserFilesAreKept'
    BY <2>1, UsersStay DEF Grows
  <2> QED BY <2>4, <2>5 DEF PrefixKept
<1> QED BY <1>7, <1>8, <1>9, <1>10, <1>11

LEMMA LinkFailsStays ==
  ASSUME Prefix!Parameters, PrefixKept, NEW k \in LinkedKegs, Prefix!LinkFails(k)
  PROVE  PrefixKept'
<1> DEFINE path == Prefix!First(k).path
           there == Prefix!Shown(path)
<1>1. /\ UserFrame /\ proc[k].todo # <<>>
      /\ linked' \subseteq linked /\ half' \subseteq half \cup {Prefix!First(k).keg}
  BY DEF Prefix!LinkFails, Prefix!Working, UserFrame
<1>2. /\ LinkTyped /\ Prefix!First(k).keg \in LinkedKegs /\ path \in Paths
      /\ proc[k] \in Linkers /\ proc \in [LinkedKegs -> Linkers] /\ node \in Nodes
      /\ linked' \subseteq LinkedKegs /\ half' \subseteq LinkedKegs /\ proc[k].moved \in SUBSET LinkFiles
      /\ LinkFiles \subseteq Paths
  BY <1>1, FirstIs, AboveIn DEF PrefixKept, LinkTyped, Linkers
<1>3. \/ Prefix!Fail(k) /\ UNCHANGED <<node, inside, replaced, backup>>
      \/ /\ Prefix!Clear(path) /\ Prefix!Fail(k) /\ UNCHANGED backup
         /\ replaced' = replaced \cup {<<IF Prefix!IsLink(there) THEN there.keg ELSE None, path>>}
      \/ /\ path \in LinkFiles /\ Prefix!Clear(path) /\ UNCHANGED replaced /\ backup' = backup \cup {path}
         /\ proc' = [proc EXCEPT ![k].pc = "undo", ![k].todo = Prefix!Children(k, Root, FALSE), ![k].moved = @ \cup {path}]
  BY DEF Prefix!LinkFails, Root
<1>4. Prefix!Clear(path) =>
        /\ node' \in Nodes /\ \A j \in LinkedKegs : inside[j] \subseteq inside'[j]
        /\ \A f \in Paths : node[f] = UserFile => node'[f] = UserFile \/ (f = path /\ there = UserFile)
  <2> HIDE DEF path
  <2> QED BY <1>2, ClearIs
<1>5. there = UserFile => ~Prefix!IsLink(there)
  BY DEF Prefix!IsLink
<1> HIDE DEF path, there
<1>6. ASSUME NEW moved \in SUBSET LinkFiles, node' \in Nodes,
             proc' = [proc EXCEPT ![k] = [proc[k] EXCEPT !.pc = "undo", !.todo = Prefix!Children(k, Root, FALSE), !.moved = moved]]
      PROVE  LinkTyped'
  <2> DEFINE r == [proc[k] EXCEPT !.pc = "undo", !.todo = Prefix!Children(k, Root, FALSE), !.moved = moved]
  <2>1. r \in Linkers
    BY <1>2, FailStays
  <2>2. proc' = [proc EXCEPT ![k] = r]
    BY <1>6
  <2> HIDE DEF r
  <2> QED BY <1>1, <1>2, <1>6, <2>1, <2>2, TypesStay
<1>7. Prefix!Fail(k) /\ node' \in Nodes => LinkTyped'
  <2> DEFINE m == proc[k].moved
  <2>1. Prefix!Fail(k) => proc' = [proc EXCEPT ![k] = [proc[k] EXCEPT !.pc = "undo", !.todo = Prefix!Children(k, Root, FALSE), !.moved = m]]
    BY <1>2 DEF Prefix!Fail, Root, Linkers
  <2>2. m \in SUBSET LinkFiles
    BY <1>2
  <2> HIDE DEF m
  <2> QED BY <1>6, <2>1, <2>2
<1>8. CASE Prefix!Fail(k) /\ UNCHANGED <<node, inside, replaced, backup>>
  <2>1. Prefix!UserFilesAreKept'
    BY <1>1, <1>8, UsersStay DEF Grows
  <2> QED BY <1>2, <1>7, <1>8, <2>1 DEF PrefixKept
<1>9. CASE /\ Prefix!Clear(path) /\ Prefix!Fail(k) /\ UNCHANGED backup
           /\ replaced' = replaced \cup {<<IF Prefix!IsLink(there) THEN there.keg ELSE None, path>>}
  <2>1. there = UserFile => <<None, path>> \in replaced'
    BY <1>5, <1>9
  <2>2. Prefix!UserFilesAreKept'
    BY <1>1, <1>2, <1>4, <1>9, <2>1, UsersStay DEF Grows
  <2> QED BY <1>4, <1>7, <1>9, <2>2 DEF PrefixKept
<1>10. CASE /\ path \in LinkFiles /\ Prefix!Clear(path) /\ UNCHANGED replaced /\ backup' = backup \cup {path}
            /\ proc' = [proc EXCEPT ![k].pc = "undo", ![k].todo = Prefix!Children(k, Root, FALSE), ![k].moved = @ \cup {path}]
  <2> DEFINE m == proc[k].moved \cup {path}
  <2>1. m \in SUBSET LinkFiles
    BY <1>2, <1>10
  <2>2. proc' = [proc EXCEPT ![k] = [proc[k] EXCEPT !.pc = "undo", !.todo = Prefix!Children(k, Root, FALSE), !.moved = m]]
    BY <1>2, <1>10
  <2> HIDE DEF m
  <2>3. LinkTyped'
    BY <1>4, <1>6, <1>10, <2>1, <2>2
  <2>4. Prefix!UserFilesAreKept'
    BY <1>1, <1>2, <1>4, <1>10, UsersStay DEF Grows
  <2> QED BY <2>3, <2>4 DEF PrefixKept
<1> QED BY <1>3, <1>8, <1>9, <1>10

LEMMA LinkDirStays ==
  ASSUME Prefix!Parameters, PrefixKept, NEW k \in LinkedKegs, Prefix!LinkDir(k)
  PROVE  PrefixKept'
<1> DEFINE h == Prefix!First(k)
           path == h.path
           inner == Prefix!Children(h.keg, path, h.other)
           both == Prefix!Children(node[path].keg, path, TRUE) \o inner \o Prefix!Rest(k)
<1>1. UserFrame /\ proc[k].todo # <<>> /\ path \in LinkDirs /\ linked' = linked /\ half' = half
  BY DEF Prefix!LinkDir, Prefix!Working, UserFrame
<1>2. /\ LinkTyped /\ h.keg \in LinkedKegs /\ path \in Paths /\ Prefix!Rest(k) \in Seq(Items) /\ h.other \in BOOLEAN
      /\ proc[k] \in Linkers /\ proc \in [LinkedKegs -> Linkers] /\ node \in Nodes
      /\ linked' \subseteq LinkedKegs /\ half' \subseteq LinkedKegs
  BY <1>1, FirstIs DEF PrefixKept, LinkTyped
<1>3. inner \in Seq(Items)
  <2> HIDE DEF h, path
  <2> QED BY <1>2, ListIs
<1>4. \/ \E todo1 \in {inner \o Prefix!Rest(k), Prefix!Rest(k)} : Prefix!Todo(k, todo1) /\ UNCHANGED <<node, inside, replaced, backup>>
      \/ /\ Prefix!Via(path) = {} /\ Prefix!IsLink(node[path]) /\ node' = [node EXCEPT ![path] = None]
         /\ Prefix!Todo(k, both) /\ UNCHANGED <<inside, replaced, backup>>
      \/ Prefix!Place(path, RealDir) /\ Prefix!Todo(k, inner \o Prefix!Rest(k)) /\ UNCHANGED <<replaced, backup>>
      \/ Prefix!Symlink(k)
  <2>1. ASSUME Prefix!Expand(k), Prefix!Shown(path) = node[path]
        PROVE  /\ node' = [node EXCEPT ![path] = None] /\ Prefix!Todo(k, both) /\ UNCHANGED <<inside, replaced, backup>>
    BY <2>1 DEF Prefix!Expand
  <2>2. Prefix!IsLink(Prefix!Shown(path)) /\ Prefix!Via(path) = {} => Prefix!Shown(path) = node[path]
    BY DEF Prefix!Shown
  <2>3. Prefix!IsLink(Prefix!Shown(path)) => Prefix!Shown(path) # None
    BY DEF Prefix!IsLink
  <2> HIDE DEF both
  <2> QED BY <2>1, <2>2, <2>3 DEF Prefix!LinkDir
<1>5. ASSUME NEW todo1 \in Seq(Items), Prefix!Todo(k, todo1), node' \in Nodes
      PROVE  LinkTyped'
  <2> DEFINE r == [proc[k] EXCEPT !.todo = todo1]
  <2>1. r \in Linkers /\ proc' = [proc EXCEPT ![k] = r]
    BY <1>2, <1>5 DEF Linkers, Prefix!Todo
  <2> HIDE DEF r, h, path
  <2> QED BY <1>1, <1>2, <1>5, <2>1, TypesStay
<1>6. \A f \in LinkFiles : f \in Paths /\ f # path
  BY <1>1, AboveIn DEF Prefix!Parameters
<1>7. inner \o Prefix!Rest(k) \in Seq(Items)
  <2> HIDE DEF inner
  <2> QED BY <1>2, <1>3, ConcatIs
<1>8. CASE \E todo1 \in {inner \o Prefix!Rest(k), Prefix!Rest(k)} : Prefix!Todo(k, todo1) /\ UNCHANGED <<node, inside, replaced, backup>>
  <2>1. PICK todo1 \in Seq(Items) : Prefix!Todo(k, todo1) /\ UNCHANGED <<node, inside, replaced, backup>>
    BY <1>2, <1>7, <1>8
  <2>2. Prefix!UserFilesAreKept'
    BY <1>1, <2>1, UsersStay DEF Grows
  <2> QED BY <1>2, <1>5, <2>1, <2>2 DEF PrefixKept
<1>9. CASE /\ Prefix!Via(path) = {} /\ Prefix!IsLink(node[path]) /\ node' = [node EXCEPT ![path] = None]
           /\ Prefix!Todo(k, both) /\ UNCHANGED <<inside, replaced, backup>>
  <2>1. node[path] \in Prefix!Links
    BY <1>2, <1>9 DEF Nodes, Prefix!IsLink
  <2>2. node[path].keg \in LinkedKegs
    BY <2>1 DEF Prefix!Links
  <2> DEFINE o == TRUE
             c == Prefix!Children(node[path].keg, path, o)
  <2>3. c \in Seq(Items)
    <3>1. o \in BOOLEAN
      OBVIOUS
    <3> HIDE DEF o, path
    <3> QED BY <1>2, <2>2, <3>1, ListIs
  <2>4. both = c \o inner \o Prefix!Rest(k)
    OBVIOUS
  <2> HIDE DEF c, inner, both
  <2>5. both \in Seq(Items)
    BY <1>2, <1>3, <2>3, <2>4, ConcatIs
  <2>6. node' \in Nodes /\ \A f \in LinkFiles : node'[f] = node[f]
    BY <1>2, <1>6, <1>9 DEF Nodes
  <2>7. Prefix!UserFilesAreKept'
    BY <1>1, <1>9, <2>6, UsersStay DEF Grows
  <2> QED BY <1>5, <1>9, <2>5, <2>6, <2>7 DEF PrefixKept
<1>10. CASE Prefix!Place(path, RealDir) /\ Prefix!Todo(k, inner \o Prefix!Rest(k)) /\ UNCHANGED <<replaced, backup>>
  <2>1. /\ node' \in Nodes /\ \A j \in LinkedKegs : inside[j] \subseteq inside'[j]
        /\ \A f \in Paths : node[f] = UserFile => node'[f] = UserFile \/ f = path
    <3> HIDE DEF path
    <3> QED BY <1>2, <1>10, PlaceIs
  <2>2. Prefix!UserFilesAreKept'
    BY <1>1, <1>6, <1>10, <2>1, UsersStay DEF Grows
  <2> QED BY <1>5, <1>7, <1>10, <2>1, <2>2 DEF PrefixKept
<1>11. CASE Prefix!Symlink(k)
  BY <1>1, <1>11, SymlinkStays
<1> QED BY <1>4, <1>8, <1>9, <1>10, <1>11

(* What was moved away is put back, or into the keg that its directory now leads to. *)
LEMMA RestoreStays ==
  ASSUME Prefix!Parameters, PrefixKept, NEW k \in LinkedKegs, NEW tr \in Nodes, Prefix!Restore(k, tr),
         tree' = tree, user' = user, replaced' = replaced, beside' = beside,
         \A f \in LinkFiles : node[f] = UserFile => tr[f] = UserFile,
         beside \/ \A q \in proc[k].moved : Prefix!Via(q) = {}
  PROVE  node' \in Nodes /\ Prefix!UserFilesAreKept'
<1>1. LinkTyped /\ node \in Nodes /\ user \subseteq LinkFiles /\ LinkFiles \subseteq Paths /\ LinkFiles \cap LinkDirs = {}
  BY AboveIn DEF PrefixKept, LinkTyped, Prefix!Parameters
<1>2. CASE proc[k].pc = "undo"
  <2> DEFINE moved == proc[k].moved
             back == Prefix!Back(k)
  <2>1. /\ node' = [p \in Paths |-> IF p \in back THEN UserFile ELSE IF \E q \in back : p \in Prefix!Above(q) THEN RealDir ELSE tr[p]]
        /\ backup' = backup \ moved
        /\ inside' = [j \in LinkedKegs |-> inside[j] \cup {p \in moved : j \in Prefix!Via(p)}]
    BY <1>2 DEF Prefix!Restore, Prefix!Restored, Paths
  <2>2. back = {p \in moved : Prefix!Via(p) = {}}
    BY DEF Prefix!Back
  <2> HIDE DEF moved, back
  <2>3. node' \in Nodes
    BY <2>1 DEF Nodes
  <2>4. \A f \in LinkFiles : f \in back \/ tr[f] = UserFile => node'[f] = UserFile
    BY <1>1, <2>1, AboveIn
  <2>5. ASSUME NEW f \in Paths, NEW j \in Prefix!Via(f) PROVE j \in LinkedKegs
    <3>1. PICK d \in Prefix!Above(f) : Prefix!IsLink(node[d]) /\ j = node[d].keg
      BY <2>5 DEF Prefix!Via
    <3>2. d \in Paths
      BY <3>1, AboveIn
    <3>3. node[d] \in Prefix!Links
      BY <1>1, <3>1, <3>2 DEF Nodes, Prefix!IsLink
    <3> QED BY <3>1, <3>3 DEF Prefix!Links
  <2>6. ASSUME NEW f \in user
        PROVE  \/ node'[f] = UserFile \/ <<None, f>> \in replaced' \/ f \in backup'
               \/ beside' /\ \E j \in LinkedKegs : f \in inside'[j]
    <3>1. \/ node[f] = UserFile \/ <<None, f>> \in replaced \/ f \in backup
          \/ beside /\ \E j \in LinkedKegs : f \in inside[j]
      BY DEF PrefixKept, Prefix!UserFilesAreKept
    <3>2. f \in LinkFiles /\ f \in Paths
      BY <1>1
    <3>3. CASE f \in moved
      <4>1. CASE Prefix!Via(f) = {}
        BY <2>2, <2>4, <3>2, <3>3, <4>1
      <4>2. CASE Prefix!Via(f) # {}
        <5>1. PICK j \in LinkedKegs : j \in Prefix!Via(f)
          BY <2>5, <3>2, <4>2
        <5>2. f \in inside'[j]
          BY <2>1, <3>3, <5>1
        <5>3. beside
          BY <3>3, <4>2 DEF moved
        <5> QED BY <5>2, <5>3
      <4> QED BY <4>1, <4>2
    <3>4. CASE f \notin moved
      BY <2>1, <2>4, <3>1, <3>2, <3>4
    <3> QED BY <3>3, <3>4
  <2> QED BY <2>3, <2>6 DEF Prefix!UserFilesAreKept
<1>3. CASE proc[k].pc # "undo"
  <2>1. node' = tr /\ inside' = inside /\ backup' = backup
    BY <1>3 DEF Prefix!Restore
  <2>2. UserFrame /\ Grows
    BY <2>1 DEF UserFrame, Grows
  <2> QED BY <2>1, <2>2, UsersStay
<1> QED BY <1>2, <1>3

LEMMA MovedIsBare ==
  ASSUME Prefix!Parameters, LinkInv, NEW k \in LinkedKegs, proc[k].pc \in {"unlink", "undo"}
  PROVE  \A q \in proc[k].moved : Prefix!Via(q) = {}
BY BareIsShown DEF LinkInv, MovedOk

LEMMA PrefixKeptStep ==
  ASSUME Prefix!Parameters, PrefixKept, ~beside => LinkInv, Prefix!Next
  PROVE  PrefixKept' /\ (beside => beside')
<1>1. PICK k \in LinkedKegs :
        \/ \E overwrite \in BOOLEAN, globs \in {{}, UserFiles} : Prefix!StartLink(k, overwrite, globs)
        \/ Prefix!LinkFile(k) \/ Prefix!LinkFails(k) \/ Prefix!LinkDir(k) \/ Prefix!FinishLink(k)
        \/ Prefix!StartUnlink(k) \/ Prefix!UnlinkItem(k) \/ Prefix!UnlinkFails(k) \/ Prefix!FinishUnlink(k)
  BY SMTT(60) DEF Prefix!Next
<1>2. /\ LinkTyped /\ node \in Nodes /\ linked \subseteq LinkedKegs /\ half \subseteq LinkedKegs
      /\ proc[k] \in Linkers /\ proc \in [LinkedKegs -> Linkers] /\ UserFiles \subseteq LinkFiles /\ LinkFiles \subseteq Paths
      /\ LinkFiles \cap LinkDirs = {} /\ Prefix!Idle \in Linkers
  BY AboveIn, IdleIs DEF PrefixKept, LinkTyped, Prefix!Parameters
<1>3. UserFrame
  <2>1. tree' = tree /\ user' = user
    BY <1>1 DEF Prefix!StartLink, Prefix!LinkFile, Prefix!LinkFails, Prefix!LinkDir, Prefix!FinishLink,
                Prefix!StartUnlink, Prefix!UnlinkItem, Prefix!UnlinkFails, Prefix!FinishUnlink
  <2>2. beside => beside'
    BY <1>1 DEF Prefix!StartLink, Prefix!LinkFile, Prefix!LinkFails, Prefix!LinkDir, Prefix!FinishLink, Prefix!Begin,
                Prefix!StartUnlink, Prefix!UnlinkItem, Prefix!UnlinkFails, Prefix!FinishUnlink
  <2> QED BY Zenon, <2>1, <2>2 DEF UserFrame
<1>0. Prefix!Children(k, Root, FALSE) \in Seq(Items)
  <2> DEFINE o == FALSE
  <2>1. o \in BOOLEAN
    OBVIOUS
  <2> HIDE DEF o
  <2>2. Prefix!Children(k, Root, o) \in Seq(Items)
    BY <1>2, <2>1, ListIs
  <2> QED BY <2>2 DEF o
<1>4. CASE \E overwrite \in BOOLEAN, globs \in {{}, UserFiles} : Prefix!StartLink(k, overwrite, globs)
  <2>1. PICK overwrite \in BOOLEAN, globs \in {{}, UserFiles} : Prefix!StartLink(k, overwrite, globs)
    BY <1>4
  <2> DEFINE r == [Prefix!Idle EXCEPT !.pc = "link", !.overwrite = overwrite, !.globs = globs, !.todo = Prefix!Children(k, Root, FALSE)]
  <2>2. r \in Linkers
    BY <1>0, <1>2 DEF Linkers
  <2>3. /\ proc' = [proc EXCEPT ![k] = r] /\ replaced' = {q \in replaced : q[1] # k}
        /\ node' = node /\ inside' = inside /\ linked' = linked /\ half' = half /\ backup' = backup
    BY <2>1 DEF Prefix!StartLink, Root
  <2> HIDE DEF r
  <2>4. None # k
    BY DEF Prefix!Parameters
  <2>5. \A f : <<None, f>>[1] = None
    OBVIOUS
  <2>6. Grows
    BY <2>3, <2>4, <2>5 DEF Grows
  <2>7. Prefix!UserFilesAreKept'
    BY <1>3, <2>3, <2>6, UsersStay
  <2>8. LinkTyped'
    BY <1>2, <1>3, <2>2, <2>3, TypesStay
  <2> QED BY <1>3, <2>7, <2>8 DEF PrefixKept, UserFrame
<1>5. CASE Prefix!LinkFile(k)
  <2>1. proc[k].todo # <<>> /\ Prefix!Symlink(k) /\ linked' = linked /\ half' = half
    BY <1>5 DEF Prefix!LinkFile, Prefix!Working
  <2> QED BY <1>3, <2>1, SymlinkStays DEF UserFrame
<1>6. CASE Prefix!FinishLink(k)
  <2>1. /\ proc' = [proc EXCEPT ![k] = Prefix!Idle] /\ node' = node /\ inside' = inside /\ replaced' = replaced /\ backup' = backup
        /\ linked' = linked \cup {k} /\ half' = half \ {k}
    BY <1>6 DEF Prefix!FinishLink
  <2>2. LinkTyped'
    BY <1>2, <1>3, <2>1, TypesStay
  <2>3. Prefix!UserFilesAreKept'
    BY <1>3, <2>1, UsersStay DEF Grows
  <2> QED BY <1>3, <2>2, <2>3 DEF PrefixKept, UserFrame
<1>7. CASE Prefix!StartUnlink(k)
  <2> DEFINE r == [Prefix!Idle EXCEPT !.pc = "unlink", !.todo = Prefix!Children(k, Root, FALSE)]
  <2>1. r \in Linkers
    BY <1>0, <1>2 DEF Linkers
  <2>2. /\ proc' = [proc EXCEPT ![k] = r] /\ node' = node /\ inside' = inside /\ replaced' = replaced /\ backup' = backup
        /\ linked' = linked /\ half' = half
    BY <1>7 DEF Prefix!StartUnlink, Root
  <2> HIDE DEF r
  <2>3. LinkTyped'
    BY <1>2, <1>3, <2>1, <2>2, TypesStay
  <2>4. Prefix!UserFilesAreKept'
    BY <1>3, <2>2, UsersStay DEF Grows
  <2> QED BY <1>3, <2>3, <2>4 DEF PrefixKept, UserFrame
<1>8. CASE Prefix!UnlinkItem(k)
  <2> DEFINE path == Prefix!First(k).path
             ours == Prefix!Ours(k, path)
             c == Prefix!Children(k, path, FALSE)
             todo1 == IF path \in LinkDirs /\ ~ours THEN c \o Prefix!Rest(k) ELSE Prefix!Rest(k)
             dirs == IF Prefix!Via(path) = {} /\ node[path] = RealDir THEN proc[k].dirs \cup {path} ELSE proc[k].dirs
             r == [proc[k] EXCEPT !.todo = todo1, !.dirs = dirs]
  <2>1. /\ proc[k].todo # <<>> /\ node' = IF ours THEN [node EXCEPT ![path] = None] ELSE node
        /\ inside' = inside /\ replaced' = replaced /\ backup' = backup /\ linked' = linked /\ half' = half
        /\ proc' = [proc EXCEPT ![k].todo = todo1,
                                ![k].dirs = IF Prefix!Via(path) = {} /\ node[path] = RealDir THEN @ \cup {path} ELSE @]
    BY <1>8 DEF Prefix!UnlinkItem, Prefix!Unlinks
  <2>2. path \in Paths /\ Prefix!Rest(k) \in Seq(Items)
    BY <1>2, <2>1, FirstIs
  <2>3. c \in Seq(Items)
    <3> DEFINE o == FALSE
    <3>1. o \in BOOLEAN
      OBVIOUS
    <3> HIDE DEF o, path
    <3>2. Prefix!Children(k, path, o) \in Seq(Items)
      BY <1>2, <3>1, ListIs
    <3> QED BY <3>2 DEF o
  <2>4. ours => node[path] # UserFile
    <3>1. LinkTo(k, path) # UserFile
      BY <2>2, LinksAre DEF Prefix!IsLink
    <3> QED BY <3>1 DEF Prefix!Ours, LinkTo
  <2> HIDE DEF c, ours, path
  <2>5. todo1 \in Seq(Items)
    BY <2>2, <2>3, ConcatIs
  <2>6. dirs \in SUBSET Paths
    BY <1>2, <2>2 DEF Linkers
  <2> HIDE DEF todo1
  <2>7. r \in Linkers
    <3> HIDE DEF dirs
    <3> QED BY <1>2, <2>5, <2>6 DEF Linkers
  <2>8. proc' = [proc EXCEPT ![k] = r]
    BY <1>2, <2>1 DEF Linkers
  <2> HIDE DEF r
  <2>9. node' \in Nodes
    BY <1>2, <2>1 DEF Nodes
  <2>10. LinkTyped'
    BY <1>2, <1>3, <2>1, <2>7, <2>8, <2>9, TypesStay
  <2>11. \A f \in LinkFiles : node[f] = UserFile => node'[f] = UserFile
    BY <1>2, <2>1, <2>4 DEF Nodes
  <2>12. Prefix!UserFilesAreKept'
    BY <1>3, <2>1, <2>11, UsersStay DEF Grows
  <2> QED BY <1>3, <2>10, <2>12 DEF PrefixKept, UserFrame
<1>9. ASSUME NEW tr \in Nodes, \A f \in LinkFiles : node[f] = UserFile => tr[f] = UserFile, Prefix!Restore(k, tr),
             proc[k].pc \in {"unlink", "undo"}, proc' = [proc EXCEPT ![k] = Prefix!Idle], replaced' = replaced, beside' = beside,
             linked' \subseteq LinkedKegs, half' \subseteq LinkedKegs
      PROVE  PrefixKept'
  <2>1. beside \/ \A q \in proc[k].moved : Prefix!Via(q) = {}
    BY <1>9, MovedIsBare
  <2>2. tree' = tree /\ user' = user
    BY <1>3 DEF UserFrame
  <2>3. node' \in Nodes /\ Prefix!UserFilesAreKept'
    BY <1>9, <2>1, <2>2, RestoreStays
  <2>4. LinkTyped'
    BY <1>2, <1>3, <1>9, <2>3, TypesStay
  <2> QED BY <2>3, <2>4 DEF PrefixKept
<1>10. CASE Prefix!FinishUnlink(k)
  <2> DEFINE m == Prefix!Pruned(node, proc[k].dirs)
  <2>1. /\ proc[k].pc \in {"unlink", "undo"} /\ Prefix!Restore(k, m) /\ proc' = [proc EXCEPT ![k] = Prefix!Idle]
        /\ replaced' = replaced /\ beside' = beside /\ linked' \subseteq linked /\ half' \subseteq half \cup {k}
    BY <1>10 DEF Prefix!FinishUnlink, Prefix!Unlinking
  <2>2. m \in Nodes /\ \A f \in LinkFiles : node[f] = UserFile => m[f] = UserFile
    BY <1>2 DEF Prefix!Pruned, Nodes, Paths, Prefix!Parameters
  <2> HIDE DEF m
  <2> QED BY <1>2, <1>3, <1>9, <2>1, <2>2 DEF UserFrame
<1>11. CASE Prefix!UnlinkFails(k)
  <2>1. /\ proc[k].pc \in {"unlink", "undo"} /\ Prefix!Restore(k, node) /\ proc' = [proc EXCEPT ![k] = Prefix!Idle]
        /\ replaced' = replaced /\ beside' = beside /\ linked' \subseteq linked /\ half' \subseteq half \cup {k}
    BY <1>11 DEF Prefix!UnlinkFails, Prefix!Unlinks, Prefix!Unlinking
  <2> QED BY <1>2, <1>3, <1>9, <2>1 DEF UserFrame
<1>12. CASE Prefix!LinkFails(k) \/ Prefix!LinkDir(k)
  BY <1>3, <1>12, LinkFailsStays, LinkDirStays DEF UserFrame
<1> QED BY <1>1, <1>4, <1>5, <1>6, <1>7, <1>8, <1>10, <1>11, <1>12

-------------------------------------------------------------------------------
(* What is known of the prefix, and more until two kegs are at work at once. *)
PrefixInv == PrefixKept /\ (~beside => LinkInv)

LEMMA PrefixInit ==
  ASSUME Prefix!Parameters, Prefix!Init
  PROVE  PrefixInv
<1>1. LinkInv
  BY LinkInvInit
<1>2. user \subseteq LinkFiles /\ node = [p \in Paths |-> IF p \in user THEN UserFile ELSE IF p \in Prefix!Closed(user) THEN RealDir ELSE None]
  BY DEF Prefix!Init, Prefix!Parameters, Paths
<1>3. Prefix!UserFilesAreKept
  BY <1>2, AboveIn DEF Prefix!UserFilesAreKept
<1> QED BY <1>1, <1>3 DEF PrefixInv, PrefixKept, LinkInv

LEMMA PrefixStep ==
  ASSUME Prefix!Parameters, PrefixInv, [Prefix!Next]_PrefixVars
  PROVE  PrefixInv'
<1>1. CASE Prefix!Next
  <2>1. PrefixKept' /\ (beside => beside')
    BY <1>1, PrefixKeptStep DEF PrefixInv
  <2>2. ASSUME ~beside' PROVE LinkInv'
    BY <1>1, <2>1, <2>2, LinkInvStep DEF PrefixInv
  <2> QED BY <2>1, <2>2 DEF PrefixInv
<1>2. CASE UNCHANGED PrefixVars
  <2>1. /\ tree' = tree /\ rule' = rule /\ node' = node /\ inside' = inside /\ user' = user /\ linked' = linked /\ half' = half
        /\ recorded' = recorded /\ replaced' = replaced /\ backup' = backup /\ proc' = proc /\ beside' = beside
    BY <1>2 DEF PrefixVars
  <2>2. LinkTyped => LinkTyped'
    BY <2>1 DEF LinkTyped, Trees, Nodes, Prefix!Above
  <2>3. Prefix!UserFilesAreKept => Prefix!UserFilesAreKept'
    BY <2>1 DEF Prefix!UserFilesAreKept
  <2>4. ASSUME LinkInv PROVE LinkInv'
    <3>1. Known' = Known /\ Owners' = Owners /\ \A k : Busy(k)' = Busy(k)
      BY <2>1 DEF Known, Owners, Busy
    <3>2. \A k : Prefix!Linkable(k)' = Prefix!Linkable(k)
      BY <2>1, LinkableSame DEF LinkFrame
    <3> QED BY <2>1, <2>2, <2>4, <3>1, <3>2 DEF LinkInv, NodesOk, WalkOk, ItemOk, UnwalkOk, MovedOk, Covered, There, Reached,
                 Ahead, Bare, Fresh, Apart, OthersFirst, OfOneKeg, Within, Prefix!Above, Prefix!IsLink
  <2> QED BY <2>1, <2>2, <2>3, <2>4 DEF PrefixInv, PrefixKept
<1> QED BY <1>1, <1>2

LEMMA LinkInvHolds ==
  ASSUME Prefix!Parameters, PrefixInv
  PROVE  /\ Prefix!LinkedFilesAreThere /\ Prefix!UnlinkedLeavesNothing
         /\ Prefix!UserFilesAreKept /\ Prefix!KegsAreNotWritten
<1>1. ASSUME ~beside
      PROVE  /\ LinkInv /\ tree \in Trees /\ node \in Nodes /\ NodesOk(tree, node, Owners) /\ linked \subseteq LinkedKegs
             /\ recorded \subseteq linked \cup half
  BY <1>1 DEF PrefixInv, LinkInv, LinkTyped, Known
<1>2. Prefix!LinkedFilesAreThere
  <2> SUFFICES ASSUME ~beside, Prefix!Quiet, NEW k \in linked, NEW f \in Prefix!Linkable(k)
               PROVE  Prefix!Shown(f) = [keg |-> k, path |-> f] \/ <<k, f>> \in replaced
    BY <1>1 DEF Prefix!LinkedFilesAreThere
  <2>1. There(node, replaced, k, f)
    BY <1>1 DEF Prefix!Quiet, LinkInv, Busy
  <2>2. f \in Paths /\ f \in tree[k] /\ k \in LinkedKegs
    BY <1>1, AboveIn DEF Prefix!Linkable
  <2> QED BY <1>1, <2>1, <2>2, ReachedIsShown DEF There, LinkTo
<1>3. Prefix!UnlinkedLeavesNothing
  BY <1>1 DEF Prefix!UnlinkedLeavesNothing, NodesOk, Owners, Busy, Known, Paths
<1>4. Prefix!UserFilesAreKept
  BY DEF PrefixInv, PrefixKept
<1>5. Prefix!KegsAreNotWritten
  BY <1>1 DEF Prefix!KegsAreNotWritten, LinkInv
<1> QED BY <1>2, <1>3, <1>4, <1>5

-------------------------------------------------------------------------------
(* The parts together *)

(* What is known of the parts that are active. *)
PartsInv ==
  /\ "etc_var" \in active => EtcInv
  /\ "relocation" \in active => RelocInv
  /\ "services" \in active => ServiceInv
  /\ "linker" \in active => PrefixInv

(* A step of one part leaves the others as they are. *)
LEMMA StepOfAPart ==
  ASSUME [Next]_vars
  PROVE  /\ active' = active
         /\ "etc_var" \in active => [Config!Next]_ConfigVars
         /\ "relocation" \in active => [Reloc!Next]_RelocVars
         /\ "services" \in active => [Serve!Next]_ServeVars
         /\ "linker" \in active => [Prefix!Next]_PrefixVars
BY DEF Next, vars, SeedConfig, Relocate, ServeUser, LinkKegs

LEMMA PartsHold == Spec => []PartsInv
<1>1. Init => PartsInv
  BY EtcInit, RelocInit, ServicesBegin, PrefixInit, HostParameters DEF Init, PartsInv
<1>2. PartsInv /\ [Next]_vars => PartsInv'
  BY EtcKeeps, RelocKeeps, ServicesGoOn, PrefixStep, StepOfAPart, HostParameters DEF PartsInv
<1> QED BY <1>1, <1>2, PTL DEF Spec

(* relocate_keg's result, of any keg with any hard links, lists and placeholders, over any
   failures and whatever cannot be read: a keg that is kept, and of which no link was lost
   quietly, holds nothing of the place it was built in where it is looked for, but for what a
   step passed over because it could not read it; its hard links are those of the bottle, and
   each binary that was changed is signed or was reported, also in a keg that is given up. *)
THEOREM RelocatedIsWhole == Spec => []KegIsRelocated
<1>1. PartsInv => KegIsRelocated
  BY WholeAfterRelocation, HostParameters DEF PartsInv, KegIsRelocated
<1> QED BY <1>1, PartsHold, PTL

(* install_etc_var's: over any pours, reinstalls, clean-ups and uninstalls the last default is
   in the file or beside it, and a file nobody touched follows the kegs, the one moved aside
   included. *)
THEOREM DefaultsFollowTheKegs == Spec => []DefaultsAreFollowed
<1>1. PartsInv => DefaultsAreFollowed
  BY DefaultsFollow DEF PartsInv, DefaultsAreFollowed
<1> QED BY <1>1, PartsHold, PTL

(* The commands of a service, over any kegs, restarts of the machine and jobs that end: a
   domain knows the service under one label, and a directory has one file of it, whatever
   labels the kegs brought while it was loaded. *)
THEOREM OneServiceRuns == Spec => []OneInstanceRuns
<1>1. PartsInv => OneInstanceRuns
  BY DEF PartsInv, ServiceInv, OneInstanceRuns
<1> QED BY <1>1, PartsHold, PTL

(* Linker's, over any kegs, rules and files of the user's, any sequence of links, unlinks,
   --overwrite and conflicts, and any links, directories and records that cannot be made or
   removed: until two kegs are at work at once, every file of a linked keg is reached through
   the prefix, an unlinked keg and one whose link failed have no links unless one could not
   be removed, a record of any other keg is of a linked one, and no keg is written to; and
   always, kegs linked beside each other included, the user's files are in place, in the
   backups, taken by --overwrite or put back into the keg that their directory leads to. *)
THEOREM LinksStayWhole == Spec => []LinksAreWhole
<1>1. PartsInv => LinksAreWhole
  BY LinkInvHolds, HostParameters DEF PartsInv, LinksAreWhole
<1> QED BY <1>1, PartsHold, PTL

(* What `stop` removed is loaded under no label and comes back at no login, a `restart` that
   works leaves the service registered or not as it found it, and what the user made of a
   configuration file is replaced by no install, also by one that is put back or fails half
   way. *)
THEOREM CommandsAreTrue == Spec => CommandsDoWhatTheySay
<1>1. ASSUME PartsInv, [Next]_vars
      PROVE  /\ "services" \in active => Serve!StoppedIsStoppedStep /\ Serve!RestartKeepsRegistrationStep
             /\ "etc_var" \in active => Config!UserConfigKeptStep
  BY <1>1, StoppedIs, RestartKeeps, ConfigIsKept, StepOfAPart, HostParameters DEF PartsInv
<1> QED BY <1>1, PartsHold, PTL DEF Spec, CommandsDoWhatTheySay
=================================================================================
