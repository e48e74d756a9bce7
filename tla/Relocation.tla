------------------------------- MODULE Relocation -------------------------------
(***************************************************************************)
(* The relocation of one poured keg (bottle/relocate.rs, relocate_keg) and *)
(* the signing of what it changes (bottle/codesign.rs): placeholders in    *)
(* text, names in load commands, the build prefix in binaries, absolute    *)
(* symlinks.  A file has what it still holds of the place it was built in; *)
(* names of one inode are one file until a step writes a new one.  Modes   *)
(* are left out; edits of load commands and of strings are in MachO.       *)
(***************************************************************************)
EXTENDS Naturals, FiniteSets, FiniteSetsExt

CONSTANTS
    Kegs,        \* the kegs bottles hold: [names \in Nat -> [ino, kind, holds, signed]]
    None,
    MaxTrouble   \* bound: what fails in one relocation

Files == [ino : Nat, kind : {"text", "metafile", "script", "macho", "binary"},
          holds : SUBSET {"text", "linkage", "built"}, signed : BOOLEAN]
\* What a theorem about them needs: names of one inode are one file, load
\* commands are in Mach-O files, and a bottle's signatures are good.
Parameters ==
    /\ None \notin Files
    /\ \A k \in Kegs :
         /\ IsFiniteSet(DOMAIN k) /\ DOMAIN k \subseteq Nat /\ k \in [DOMAIN k -> Files]
         /\ \A n \in DOMAIN k : /\ "linkage" \in k[n].holds => k[n].kind = "macho"
                                /\ k[n].kind = "macho" => k[n].signed
                                /\ \A m \in DOMAIN k : k[m].ino = k[n].ino => k[m] = k[n]

Cellars == {"any", "any_skip_relocation", "fixed"}
Targets == {"build cellar", "build prefix", "elsewhere"}   \* an absolute symlink's, before

VARIABLES
    keg,       \* the file of each name, or None
    poured,    \* the keg as it came out of the bottle
    bottle,    \* [cellar, changed, linkage, binary, prefix, cellarpath, fits]: the bottle
               \* and its tab; whether it has each list, was built where we are, is not too short
    symlink,   \* where an absolute symlink of the keg leads
    pc, todo,
    dirty,     \* names whose file was changed and is to be signed or linked again
    failed, reported,   \* an error stops the pour; a signature that fails is reported
    unread,    \* <<name, what>>: what a step passes over, because it cannot read it
    apart,     \* a hard link was lost, or a signature needed a new inode
    trouble

vars == <<keg, poured, bottle, symlink, pc, todo, dirty, failed, reported, unread, apart, trouble>>

Trouble == trouble < MaxTrouble /\ trouble' = trouble + 1
There == {n \in DOMAIN keg : keg[n] # None}
SameInode(n) == {m \in There : keg[m].ino = keg[n].ino}
Holds(n, what) == what \in keg[n].holds
Group(n, S) == SameInode(n) \cap S
Head(S) == Min(S)
Without(f, what) == [f EXCEPT !.holds = @ \ {what}]
Unsigned(f) == [f EXCEPT !.signed = FALSE]
\* A write in place reaches every name of the inode; atomic_write makes a new one.
InPlace(n, f) == [m \in DOMAIN keg |-> IF m \in SameInode(n) THEN f ELSE keg[m]]
Fresh == 1 + Max({0} \cup {keg[n].ino : n \in There})
Atomic(n, f) == [keg EXCEPT ![n] = [f EXCEPT !.ino = Fresh]]
\* The other names are removed and linked to the first; that may fail, and nothing is said.
Relink(first, rest, lost) ==
    [m \in DOMAIN keg |-> IF m \in lost THEN None ELSE IF m \in rest THEN keg[first] ELSE keg[m]]

-------------------------------------------------------------------------------
(* Where the steps look *)

IsText(f) == f.kind \in {"text", "metafile", "script"}
ScanTextFiles == {n \in There : IsText(keg[n]) /\ keg[n].kind # "metafile"}
MachOFiles == {n \in There : keg[n].kind = "macho" /\ n = Head(SameInode(n))}
FilesContaining == {n \in There : Holds(n, "built")}
\* The lists brew records in the tab: every name of a text file, one name of another.
Recorded(what) == {n \in DOMAIN poured : what \in poured[n].holds /\ (IF what = "text" THEN IsText(poured[n]) ELSE ~IsText(poured[n]))}
OneName(S) == {n \in S : n = Head({m \in S : poured[m].ino = poured[n].ino})}
KegFiles(list) == list \cap There
TextTargets == IF bottle.changed THEN KegFiles(Recorded("text")) ELSE ScanTextFiles
LinkageTargets == IF bottle.linkage THEN KegFiles(OneName(Recorded("linkage"))) ELSE MachOFiles
\* The other names of a listed file turn up in a walk.
\* Mutant: they do not.
CandidatesListed == IF bottle.binary THEN KegFiles(OneName(Recorded("built"))) ELSE FilesContaining
Candidates ==
    IF bottle.binary THEN UNION {SameInode(n) : n \in KegFiles(OneName(Recorded("built")))} ELSE FilesContaining

\* built_locations; check_relocatable asks before the download.
CompatibleLocations == bottle.cellar = "fixed" => bottle.prefix \/ bottle.fits
NeedsBuildPrefix == bottle.cellar = "fixed" /\ ~(bottle.prefix /\ bottle.cellarpath)

-------------------------------------------------------------------------------
(* relocate_keg *)

Goto(step, names) == pc' = step /\ todo' = names
Fail == failed' = TRUE /\ Goto("discard", {})

\* A name that cannot be read is in no list, one of an inode without the others too,
\* and a file that cannot be is passed over: nothing is said of either.
PassOver(names, what) == unread' = unread \cup {<<n, what>> : n \in names}
Listed(step, names, missed, what) ==
    /\ Goto(step, names \ missed) /\ PassOver(UNION {SameInode(n) : n \in missed}, what)
    /\ IF missed = {} THEN UNCHANGED trouble ELSE Trouble
Parted(missed) == \E n \in missed : ~(SameInode(n) \subseteq missed)
ListText ==
    /\ pc = "start"
    /\ \E missed \in SUBSET TextTargets : Listed("text", TextTargets, missed, "text") /\ apart' = (apart \/ Parted(missed))
    /\ UNCHANGED <<keg, poured, bottle, symlink, dirty, failed, reported>>

\* replace_text_in_files: an inode at a time, written under its first name.
ReplaceText ==
    /\ pc = "text" /\ dirty = {}
    /\ \E n \in todo :
         LET g == Group(n, todo) IN
         /\ n = Head(g) /\ Holds(n, "text")
         /\ \/ keg' = Atomic(n, Without(keg[n], "text")) /\ dirty' = g /\ UNCHANGED <<pc, todo, failed, unread, trouble>>
            \/ Trouble /\ PassOver(g, "text") /\ todo' = todo \ g /\ UNCHANGED <<keg, dirty, pc, failed>>
            \/ Trouble /\ Fail /\ UNCHANGED <<keg, dirty, unread>>
    /\ UNCHANGED <<poured, bottle, symlink, reported, apart>>
\* Mutant: they are not.
LeaveText ==
    /\ pc = "text" /\ dirty # {} /\ todo' = todo \ dirty /\ dirty' = {}
    /\ UNCHANGED <<keg, unread, apart, trouble, poured, bottle, symlink, pc, failed, reported>>
RelinkText ==
    /\ pc = "text" /\ dirty # {} /\ todo' = todo \ dirty /\ dirty' = {}
    /\ \E lost \in SUBSET (dirty \ {Head(dirty)}) :
         /\ keg' = Relink(Head(dirty), dirty \ {Head(dirty)}, lost)
         /\ IF lost = {} THEN UNCHANGED <<apart, trouble>> ELSE Trouble /\ apart' = TRUE
    /\ UNCHANGED <<poured, bottle, symlink, pc, failed, reported, unread>>
NothingInIt ==
    /\ pc = "text" /\ dirty = {}
    /\ \E n \in todo : ~Holds(n, "text") /\ todo' = todo \ Group(n, todo)
    /\ UNCHANGED <<keg, poured, bottle, symlink, pc, dirty, failed, reported, unread, apart, trouble>>
TextDone ==
    /\ pc = "text" /\ todo = {}
    /\ IF bottle.cellar = "any_skip_relocation" THEN Goto("built", {}) /\ UNCHANGED <<unread, trouble>>
       ELSE \E missed \in SUBSET LinkageTargets : Listed("linkage", LinkageTargets, missed, "linkage")
    /\ UNCHANGED <<keg, poured, bottle, symlink, dirty, failed, reported, apart>>

\* relocate_dynamic_linkage, file by file and in any order; one that fails
\* stops none of the others, and what did change is signed first.
RewriteLinkage ==
    /\ pc = "linkage"
    /\ \E n \in todo :
         /\ todo' = todo \ {n}
         /\ \/ Holds(n, "linkage") /\ keg' = InPlace(n, Unsigned(Without(keg[n], "linkage")))
               /\ dirty' = dirty \cup {n} /\ UNCHANGED <<failed, trouble>>
            \/ ~Holds(n, "linkage") /\ UNCHANGED <<keg, dirty, failed, trouble>>
            \/ Trouble /\ failed' = TRUE /\ UNCHANGED <<keg, dirty>>
    /\ UNCHANGED <<poured, bottle, symlink, pc, reported, unread, apart>>
\* Mutant: a failure is reported before anything is signed.
LinkageFailsFirst ==
    /\ pc = "linkage" /\ todo = {}
    /\ IF failed THEN Goto("discard", {}) /\ dirty' = {} ELSE Goto("sign", dirty) /\ UNCHANGED dirty
    /\ UNCHANGED <<keg, poured, bottle, symlink, failed, reported, unread, apart, trouble>>
LinkageDone ==
    /\ pc = "linkage" /\ todo = {} /\ Goto("sign", dirty)
    /\ UNCHANGED <<keg, poured, bottle, symlink, dirty, failed, reported, unread, apart, trouble>>

\* codesign_one, in parallel: signed at once, through a copy of its own inode, or reported.
Sign ==
    /\ pc \in {"sign", "sign built"}
    /\ \E n \in todo :
         /\ todo' = todo \ {n}
         /\ \/ keg' = InPlace(n, [keg[n] EXCEPT !.signed = TRUE]) /\ UNCHANGED <<reported, apart, trouble>>
            \/ Trouble /\ keg' = Atomic(n, [keg[n] EXCEPT !.signed = TRUE])
               /\ apart' = (apart \/ (pc = "sign" /\ SameInode(n) # {n})) /\ UNCHANGED reported
            \/ Trouble /\ reported' = reported \cup {m \in There : poured[m].ino = poured[n].ino} /\ UNCHANGED <<keg, apart>>
    /\ UNCHANGED <<poured, bottle, symlink, pc, dirty, failed, unread>>
Signed ==
    /\ pc = "sign" /\ todo = {} /\ dirty' = {}
    /\ IF failed THEN Goto("discard", {}) ELSE Goto("built", {})
    /\ UNCHANGED <<keg, poured, bottle, symlink, failed, reported, unread, apart, trouble>>

\* The build prefix of a fixed cellar: refused when ours is longer.
BuiltPrefix ==
    /\ pc = "built" /\ ~NeedsBuildPrefix /\ Goto("symlinks", {})
    /\ UNCHANGED <<keg, poured, bottle, symlink, dirty, failed, reported, unread, apart, trouble>>
RelocateBuildPrefix ==
    /\ pc = "built" /\ NeedsBuildPrefix
    /\ IF bottle.prefix \/ bottle.fits
       THEN /\ \E missed \in SUBSET Candidates :
                 Listed("patch", Candidates, missed, "built") /\ apart' = (apart \/ Parted(missed))
            /\ UNCHANGED failed
       ELSE Fail /\ UNCHANGED <<unread, apart, trouble>>
    /\ UNCHANGED <<keg, poured, bottle, symlink, dirty, reported>>
\* What is text, or has no such string, stays.
PatchOne ==
    /\ pc = "patch"
    /\ \E n \in todo :
         LET g == Group(n, todo) IN
         /\ n = Head(g)
         /\ \/ ~IsText(keg[n]) /\ Holds(n, "built") /\ keg' = Atomic(n, Unsigned(Without(keg[n], "built")))
               /\ dirty' = dirty \cup g /\ todo' = todo \ g /\ UNCHANGED <<pc, failed, unread, trouble>>
            \/ ~(~IsText(keg[n]) /\ Holds(n, "built")) /\ todo' = todo \ g
               /\ UNCHANGED <<keg, dirty, pc, failed, unread, trouble>>
            \/ Trouble /\ PassOver(g, "built") /\ todo' = todo \ g /\ UNCHANGED <<keg, dirty, pc, failed>>
            \/ Trouble /\ Fail /\ UNCHANGED <<keg, dirty, unread>>
    /\ UNCHANGED <<poured, bottle, symlink, reported, apart>>
\* The first name of each inode is signed, then the others are linked to it.
Firsts(S) == {n \in S : n = Head({m \in S : poured[m].ino = poured[n].ino})}
PatchDone ==
    /\ pc = "patch" /\ todo = {} /\ Goto("sign built", Firsts(dirty))
    /\ UNCHANGED <<keg, poured, bottle, symlink, dirty, failed, reported, unread, apart, trouble>>
FirstOf(n) == Head({m \in dirty : poured[m].ino = poured[n].ino})
RelinkPatched ==
    /\ pc = "sign built" /\ todo = {}
    /\ \E lost \in SUBSET (dirty \ Firsts(dirty)) :
         /\ keg' = [m \in DOMAIN keg |-> IF m \in lost THEN None ELSE IF m \in dirty THEN keg[FirstOf(m)] ELSE keg[m]]
         /\ IF lost = {} THEN UNCHANGED <<apart, trouble>> ELSE Trouble /\ apart' = TRUE
    /\ dirty' = {} /\ Goto("symlinks", {})
    /\ UNCHANGED <<poured, bottle, symlink, failed, reported, unread>>

\* relativize_prefix_symlinks: the cellar is looked for before the prefix it is in.
Relative(target) ==
    CASE target = "build cellar" -> "our cellar" [] target = "build prefix" -> "our prefix" [] OTHER -> target
RelativizeSymlinks ==
    /\ pc = "symlinks"
    /\ \/ symlink' = (IF bottle.prefix /\ bottle.cellarpath THEN symlink ELSE Relative(symlink))
          /\ Goto("done", {}) /\ UNCHANGED <<failed, unread, trouble>>
       \/ Trouble /\ PassOver({None}, "symlink") /\ Goto("done", {}) /\ UNCHANGED <<symlink, failed>>
       \/ Trouble /\ Fail /\ UNCHANGED <<symlink, unread>>
    /\ UNCHANGED <<keg, poured, bottle, dirty, reported, apart>>
\* pour_one: the keg goes.
Discard ==
    /\ pc = "discard" /\ keg' = [n \in DOMAIN keg |-> None] /\ Goto("gone", {})
    /\ UNCHANGED <<poured, bottle, symlink, dirty, failed, reported, unread, apart, trouble>>

-------------------------------------------------------------------------------
Init ==
    /\ poured \in Kegs /\ keg = poured
    /\ bottle \in [cellar : Cellars, changed : BOOLEAN, linkage : BOOLEAN, binary : BOOLEAN,
                   prefix : BOOLEAN, cellarpath : BOOLEAN, fits : BOOLEAN]
    /\ CompatibleLocations
    /\ symlink \in Targets
    /\ pc = "start" /\ todo = {} /\ dirty = {}
    /\ failed = FALSE /\ reported = {} /\ unread = {} /\ apart = FALSE /\ trouble = 0
Next ==
    \/ ListText \/ ReplaceText \/ RelinkText \/ NothingInIt \/ TextDone
    \/ RewriteLinkage \/ LinkageDone \/ Sign \/ Signed
    \/ BuiltPrefix \/ RelocateBuildPrefix \/ PatchOne \/ PatchDone \/ RelinkPatched
    \/ RelativizeSymlinks \/ Discard
Spec == Init /\ [][Next]_vars

-------------------------------------------------------------------------------
(* Properties *)

\* What a relocated keg still holds of its bottle: text the lists or the scan
\* leave out, load commands of a bottle that needs none.
Exempt(n, what) ==
    CASE what = "text" -> ~IsText(poured[n]) \/ (poured[n].kind = "metafile" /\ ~bottle.changed)
      [] what = "linkage" -> bottle.cellar = "any_skip_relocation"
      [] what = "built" -> ~NeedsBuildPrefix \/ IsText(poured[n])
\* And what the step that looks for it could not read: the pour succeeds all the same.
MayHold(n, what) == Exempt(n, what) \/ <<n, what>> \in unread
NothingIsLeft ==
    pc = "done" => /\ ~apart => \A n \in There : \A what \in keg[n].holds : MayHold(n, what)
                   /\ ~(bottle.prefix /\ bottle.cellarpath) =>
                        symlink \notin {"build cellar", "build prefix"} \/ <<None, "symlink">> \in unread
\* Names of one file are names of one file in the relocated keg, also of one
\* that three steps wrote, unless a link or a signature went wrong quietly.
HardLinksStay ==
    pc = "done" /\ ~apart =>
        \A m, n \in DOMAIN keg : poured[m].ino = poured[n].ino => keg[m] = keg[n] /\ keg[m] # None
\* A step that changes binaries leaves none behind with the old signature,
\* also when it fails, that was not reported.
ChangedIsSigned ==
    pc \in {"done", "discard"} /\ ~apart /\ dirty = {} =>
        \A n \in There : keg[n].kind = "macho" => keg[n].signed \/ n \in reported
RelocationIsWhole == NothingIsLeft /\ HardLinksStay /\ ChangedIsSigned

\* relocate.rs, of relocate_dynamic_linkage: "the keg is never left holding a
\* modified file with a stale signature".
NeverAStaleSignature ==
    pc = "done" => \A n \in There : keg[n].kind = "macho" => keg[n].signed \/ n \in reported
====
