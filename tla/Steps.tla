--------------------------------- MODULE Steps ---------------------------------
(***************************************************************************)
(* Declarative install steps: post_install_steps of a formula              *)
(* (ops/steps.rs, `postinstall`) and the *_steps artifacts of a cask       *)
(* (cask/steps.rs), on a small tree of directories, files and symlinks.    *)
(*                                                                         *)
(* A package's steps are chosen once and run any number of times: a run    *)
(* that failed is tried again, a cask's flagged symlinks are uninstalled.  *)
(* The user may put a file into the tree between runs, and a run may be    *)
(* killed.  Templates and `base`s name paths and are paths here; a tool is *)
(* a command that works or fails.                                          *)
(***************************************************************************)
EXTENDS Naturals, Sequences, FiniteSets, SequencesExt, FiniteSetsExt

CONSTANTS
    Names,     \* names of files and directories
    Programs,  \* sequences of steps, [type, from, to, flag, glob, guard, un]
    Trees,     \* what may be there at first
    MaxUser    \* bound: files put in by the user

\* Paths below a directory that is always there.
Paths == {<<n>> : n \in Names} \cup {<<m, n>> : m \in Names, n \in Names}
Node(kind, data, to) == [kind |-> kind, data |-> data, to |-> to]
NoNode == Node("none", "none", <<>>)
Dir == Node("dir", "none", <<>>)
File(data) == Node("file", data, <<>>)
LinkTo(p) == Node("link", "none", p)

VARIABLES
    kind,  \* "formula" or "cask"
    prog,  \* the package's steps
    fs,    \* [Paths -> nodes]
    run,   \* [phase, at, sub, guards, ran, had]: the run under way; had is
           \* what a retry found
    last,  \* how the last run ended: [phase, upto, ok, ran]
    user   \* files the user has put there

vars == <<kind, prog, fs, run, last, user>>

-------------------------------------------------------------------------------
(* The tree.  An operation gives [ok, fs]: a failed one may have done a part. *)

Ok(f) == [ok |-> TRUE, fs |-> f]
Err(f) == [ok |-> FALSE, fs |-> f]
Then(r, Op(_)) == IF r.ok THEN Op(r.fs) ELSE r

At(f, p) == IF p = <<>> THEN Dir ELSE IF p \in Paths THEN f[p] ELSE NoNode
\* Links to links are followed twice.
Hop(f, p) == IF At(f, p).kind = "link" THEN At(f, p).to ELSE p
End(f, p) == Hop(f, Hop(f, p))
\* Where a path really is: what is above it may be a link.
Real(f, p) == IF p = <<>> THEN p ELSE Append(End(f, Front(p)), Last(p))
Inside(p, d) == IsPrefix(d, p)
IsLink(f, p) == At(f, Real(f, p)).kind = "link"
Exists(f, p) == At(f, End(f, Real(f, p))).kind \in {"file", "dir"}
IsDir(f, p) == At(f, End(f, Real(f, p))).kind = "dir"
Somewhere(f, p) == Exists(f, p) \/ IsLink(f, p)
Below(f, p) == {q \in Paths : Front(q) = Real(f, p) /\ f[q] # NoNode}
Children(f, p) == SetToSeq(IF p = <<>> THEN {q \in Paths : Len(q) = 1 /\ f[q] # NoNode} ELSE Below(f, p))

Put(f, p, node) == [f EXCEPT ![Real(f, p)] = node]
Without(f, p) == [q \in Paths |-> IF Inside(q, Real(f, p)) THEN NoNode ELSE f[q]]
\* A name can be made where its directory is.
Room(f, p) == Real(f, p) \in Paths /\ At(f, Front(Real(f, p))).kind = "dir"

Mkdir(f, p) == IF Room(f, p) /\ ~Somewhere(f, p) THEN Ok(Put(f, p, Dir)) ELSE Err(f)
\* create_dir_all
MkdirP(f, p) ==
    LET one(g, q) == IF IsDir(g, q) THEN Ok(g) ELSE Mkdir(g, q)
    IN IF Len(p) < 2 THEN one(f, p) ELSE Then(one(f, Front(p)), LAMBDA g : one(g, p))
MkParent(f, p) == MkdirP(f, Front(p))
\* remove_file leaves a directory; remove_path takes whatever is there.
RemoveFile(f, p) == IF At(f, Real(f, p)).kind \in {"file", "link"} THEN Without(f, p) ELSE f
RemovePath(f, p) == IF Real(f, p) \in Paths THEN Without(f, p) ELSE f
\* A write goes through a link; an atomic_write puts a file in its place.
WriteFile(f, p, data) ==
    LET q == IF IsLink(f, p) THEN End(f, Real(f, p)) ELSE Real(f, p)
    IN IF Room(f, q) /\ At(f, q).kind \in {"none", "file"} THEN Ok(Put(f, q, File(data))) ELSE Err(f)
AtomicWrite(f, p, data) ==
    Then(MkParent(f, p), LAMBDA g : IF Room(g, p) /\ At(g, Real(g, p)).kind # "dir" THEN Ok(Put(g, p, File(data))) ELSE Err(g))
Symlink(f, source, p) ==
    IF Room(f, p) /\ At(f, Real(f, p)) = NoNode THEN Ok(Put(f, p, LinkTo(source))) ELSE Err(f)

CopyOne(f, s, d) ==
    LET n == At(f, Real(f, s)) IN
    CASE n.kind = "none" -> Err(f)
      [] n.kind = "link" -> Symlink(RemoveFile(f, d), n.to, d)
      [] n.kind = "dir" -> MkdirP(f, d)
      [] n.kind = "file" -> Then(MkParent(f, d), LAMBDA g : WriteFile(g, d, n.data))
Into(s, d) == Append(d, Last(s))
\* One child after the other until one fails.
Each(items, f, Op(_, _)) ==
    FoldLeft(LAMBDA r, item : IF r.ok THEN Op(r.fs, item) ELSE r, Ok(f), items)
CopyPath(f, s, d) ==
    IF At(f, Real(f, s)).kind # "dir" THEN CopyOne(f, s, d)
    ELSE Then(CopyOne(f, s, d), LAMBDA g : Each(Children(g, s), g, LAMBDA h, c : CopyOne(h, c, Into(c, d))))

\* rename(2): nothing, a file or a link may be replaced by a file or a link,
\* nothing or an empty directory by a directory.
CanRename(f, s, d) ==
    LET from == At(f, Real(f, s)).kind
        to == At(f, Real(f, d)).kind
    IN /\ from # "none" /\ Room(f, d)
       /\ \/ Real(f, s) = Real(f, d)
          \/ from # "dir" /\ to # "dir"
          \/ /\ from = "dir"
             /\ ~Inside(Real(f, d), Real(f, s))
             /\ (to = "none" \/ (to = "dir" /\ Below(f, d) = {}))
Renamed(f, s, d) ==
    LET rs == Real(f, s)
        rd == Real(f, d)
    IN [q \in Paths |->
          IF Inside(q, rd) THEN At(f, rs \o SubSeq(q, Len(rd) + 1, Len(q)))
          ELSE IF Inside(q, rs) THEN NoNode ELSE f[q]]
\* A formula's move renames; a cask's removes what is in its place first.
MovePath(f, s, d) ==
    LET g == IF kind = "cask" /\ Somewhere(f, d) THEN RemovePath(f, d) ELSE f IN
    IF CanRename(g, s, d) THEN Ok(Renamed(g, s, d))
    ELSE Then(CopyPath(g, s, d), LAMBDA h : Ok(RemovePath(h, s)))

-------------------------------------------------------------------------------
(* What a step does *)

\* A directory as target keeps the name of the source.
Destination(f, s, t) == IF IsDir(f, t) THEN Append(t, Last(s)) ELSE t
\* A source_glob is everything in a directory; a step wants exactly one.
Sources(f, step) == IF step.glob THEN Children(f, step.from) ELSE <<step.from>>
OneSource(f, step) == Len(Sources(f, step)) = 1

Move(f, step) ==
    IF ~OneSource(f, step) THEN Err(f)
    ELSE LET s == Sources(f, step)[1]
             go(g) == LET d == Destination(g, s, step.to) IN
                      IF Exists(g, d) /\ ~step.flag THEN Err(g)
                      ELSE IF kind = "formula" /\ step.flag /\ d # s /\ Somewhere(g, d) THEN MovePath(RemovePath(g, d), s, d)
                      ELSE MovePath(g, s, d)
         IN Then(MkParent(f, step.to), go)
\* A directory that cannot be read has no children; for a cask it is an error.
MoveChildren(f, step) ==
    LET go(g) == IF kind = "cask" /\ ~IsDir(g, step.from) THEN Err(g)
                 ELSE Each(SelectSeq(Children(g, step.from), LAMBDA c : c # step.to), g,
                           LAMBDA h, c : MovePath(h, c, Into(c, step.to)))
    IN Then(MkdirP(f, step.to), go)
Copy(f, step) ==
    IF ~OneSource(f, step) THEN Err(f)
    ELSE LET s == Sources(f, step)[1]
             go(g) == LET d == Destination(g, s, step.to) IN
                      IF Exists(g, d) /\ ~step.flag THEN Err(g)
                      ELSE IF step.flag /\ (IF kind = "formula" THEN Somewhere(g, d) ELSE IsDir(g, s) /\ Exists(g, d))
                           THEN CopyPath(RemovePath(g, d), s, d)
                           ELSE CopyPath(g, s, d)
         IN Then(MkParent(f, step.to), go)
RemoveStep(f, step) ==
    Ok(FoldLeft(LAMBDA g, p : IF step.flag THEN RemovePath(g, p) ELSE RemoveFile(g, p), f, Sources(f, step)))
Inreplace(f, step) ==
    LET from == At(f, End(f, Real(f, step.to))) IN
    IF from.kind # "file" THEN Err(f)
    ELSE AtomicWrite(f, step.to, IF from.data = "before" THEN "after" ELSE from.data)
Touch(f, step) ==
    Then(MkParent(f, step.to), LAMBDA g : IF Exists(g, step.to) THEN Ok(g) ELSE WriteFile(g, step.to, "empty"))
Write(f, step) == IF step.flag \/ ~Exists(f, step.to) THEN AtomicWrite(f, step.to, "written") ELSE Ok(f)

CreateSymlink(f, source, target, force) ==
    Then(MkParent(f, target), LAMBDA g : Symlink(IF force THEN RemoveFile(g, target) ELSE g, source, target))
MakeSymlinks(f, step) ==
    LET sources == Sources(f, step) IN
    CASE ~step.glob -> CreateSymlink(f, step.from, step.to, step.flag)
      [] step.glob /\ sources = <<>> -> Ok(f)
      [] step.glob /\ sources # <<>> /\ (Len(sources) > 1 \/ IsDir(f, step.to)) ->
           Then(MkdirP(f, step.to), LAMBDA g : Each(sources, g, LAMBDA h, s : CreateSymlink(h, s, Append(step.to, Last(s)), step.flag)))
      [] OTHER -> CreateSymlink(f, sources[1], step.to, step.flag)
LinkChildren(f, step) ==
    Then(MkdirP(f, step.to), LAMBDA g :
      Each(Children(g, step.from), g, LAMBDA h, c : LET d == Append(step.to, Last(c)) IN Symlink(RemoveFile(h, d), c, d)))
\* The tree is mirrored: directories are made, files are links to the source's.
LinkDir(f, step) ==
    LET mirror(g, s) ==
          LET d == step.to \o SubSeq(s, Len(step.from) + 1, Len(s))
              made(h) == IF At(h, Real(h, s)).kind = "dir" THEN MkdirP(h, d) ELSE Symlink(h, s, d)
          IN IF At(g, Real(g, d)).kind = "dir" THEN Ok(g)
             ELSE Then(MkParent(RemovePath(g, d), d), made)
    IN Then(mirror(f, step.from), LAMBDA g : Each(IF At(g, Real(g, step.from)).kind = "dir" THEN Children(g, step.from) ELSE <<>>, g, mirror))

\* A command or a tool works or fails.  What it prints goes to a file.
RunCommand(f, step) ==
    {IF step.to = <<>> THEN Ok(f) ELSE Then(MkParent(f, step.to), LAMBDA g : WriteFile(g, step.to, "output"))}
    \cup {IF step.flag THEN Ok(f) ELSE Err(f)}
Tool(f) == {Ok(f), Err(f)}
SetPermissions(f, step) == IF \A i \in DOMAIN Sources(f, step) : ~Somewhere(f, Sources(f, step)[i]) THEN {Ok(f)} ELSE Tool(f)
TerminateProcess(f, step) == {Ok(f)} \cup IF step.flag THEN {Err(f)} ELSE {}
\* The initialiser runs where its marker is not; one that fails may leave it.
Marker(step) == Append(step.to, CHOOSE n \in Names : TRUE)
InitDataDir(f, step) ==
    LET dir == MkdirP(f, step.to)
        done(g) == WriteFile(g, Marker(step), "database")
    IN IF ~dir.ok \/ Exists(dir.fs, Marker(step)) THEN {dir}
       ELSE {done(dir.fs), Err(dir.fs), Err(done(dir.fs).fs)}
ConfigureClangSystem(f, step) ==
    IF Exists(f, Marker(step)) THEN Ok(f) ELSE Then(MkdirP(f, step.to), LAMBDA g : AtomicWrite(g, Marker(step), "written"))

FormulaTypes == {"link_dir", "link_children", "init_data_dir", "tool", "gunzip", "configure_clang_system"}
CaskTypes == {"delete_keychain_certificate"}
Known(type) == type # "unknown" /\ type \notin (IF kind = "cask" THEN FormulaTypes ELSE CaskTypes)
Outcomes(f, step) ==
    CASE ~Known(step.type) -> {Err(f)}
      [] step.type = "mkdir" -> {Mkdir(f, step.to)}
      [] step.type = "mkdir_p" -> {MkdirP(f, step.to)}
      [] step.type = "touch" -> {Touch(f, step)}
      [] step.type = "move" -> {Move(f, step)}
      [] step.type = "move_children" -> {MoveChildren(f, step)}
      [] step.type = "copy" -> {Copy(f, step)}
      [] step.type = "remove" -> {RemoveStep(f, step)}
      [] step.type = "inreplace" -> {Inreplace(f, step)}
      [] step.type = "link_dir" -> {LinkDir(f, step)}
      [] step.type = "link_children" -> {LinkChildren(f, step)}
      [] step.type = "symlink" -> {MakeSymlinks(f, step)}
      [] step.type = "write" -> {Write(f, step)}
      [] step.type = "run" -> RunCommand(f, step)
      [] step.type = "init_data_dir" -> InitDataDir(f, step)
      [] step.type = "terminate_process" -> TerminateProcess(f, step)
      [] step.type = "set_permissions" -> SetPermissions(f, step)
      [] step.type \in {"tool", "delete_keychain_certificate"} -> Tool(f)
      [] step.type = "configure_clang_system" -> {ConfigureClangSystem(f, step)}
      [] step.type = "warn" -> {Ok(f)}

\* An uninstalled step: the link it is flagged for, if that is still it.
\* Mutant: whatever link is there.
UnlinkedAny(f, step) ==
    IF step.type = "symlink" /\ step.un /\ IsLink(f, step.to) THEN RemoveFile(f, step.to) ELSE f
Unlinked(f, step) ==
    IF step.type = "symlink" /\ step.un /\ IsLink(f, step.to) /\ At(f, Real(f, step.to)).to = step.from /\ ~step.glob
    THEN RemoveFile(f, step.to) ELSE f

-------------------------------------------------------------------------------
(* A run *)

Data(f) == {f[p].data : p \in Paths} \ {"none"}
Idle == [phase |-> "idle", at |-> 0, sub |-> "step", guards |-> {}, ran |-> {}, had |-> {}]
Running == run.phase # "idle"
Step == prog[run.at]
Rest == UNCHANGED <<kind, prog, user>>
\* The next step, or the end.
Goes(f, ok, guards, ran) ==
    /\ fs' = f
    /\ IF ok /\ run.at < Len(prog)
       THEN run' = [run EXCEPT !.at = @ + 1, !.sub = "step", !.guards = guards, !.ran = ran] /\ UNCHANGED last
       ELSE /\ run' = Idle
            /\ last' = [phase |-> run.phase, upto |-> run.at, ok |-> ok, ran |-> ran]

Start ==
    /\ ~Running /\ Rest /\ UNCHANGED <<fs, last>>
    /\ \E phase \in {"install"} \cup IF kind = "cask" THEN {"uninstall"} ELSE {} :
         run' = [Idle EXCEPT !.phase = phase, !.at = 1, !.had = IF last.phase = "install" /\ last.ran # {} THEN Data(fs) ELSE {}]

\* guards_match: a guard is looked up once in a run.
Holds(guard) == IF guard[1] = "if_exists" THEN Somewhere(fs, guard[2]) ELSE ~Somewhere(fs, guard[2])
\* Mutant: at every step.
GuardsMatchAnew(step) == step.guard # <<>> => Holds(step.guard)
GuardsMatch(step) ==
    LET seen == {known[2] : known \in {k \in run.guards : k[1] = step.guard}}
    IN step.guard # <<>> => IF seen # {} THEN TRUE \in seen ELSE Holds(step.guard)
Seen(step) == IF step.guard = <<>> THEN run.guards ELSE run.guards \cup {<<step.guard, GuardsMatch(step)>>}
Due(phase) == run.phase = phase /\ run.sub = "step" /\ Rest
Install == Due("install") /\ GuardsMatch(Step)

Skip ==
    /\ Due("install") /\ ~GuardsMatch(Step)
    /\ Goes(fs, TRUE, Seen(Step), run.ran)
RunStep ==
    /\ Install /\ ~(Step.type = "gunzip" /\ Known("gunzip"))
    /\ \E r \in Outcomes(fs, Step) : Goes(r.fs, r.ok, Seen(Step), run.ran \cup {run.at})
RunUninstallStep ==
    /\ Due("uninstall")
    /\ Goes(Unlinked(fs, Step), TRUE, {}, {})

\* install_gzipped_executable, as far as others can see it: the executable is
\* put in place without its mode, the archive removed, the mode set.
Sub(sub, f) == fs' = f /\ run' = [run EXCEPT !.sub = sub] /\ UNCHANGED last
GunzipEnds(r) == Goes(r.fs, r.ok, Seen(Step), run.ran \cup {run.at})
Gunzip ==
    /\ Install /\ Step.type = "gunzip" /\ Known("gunzip")
    /\ LET source == At(fs, End(fs, Real(fs, Step.from)))
           made == MkParent(fs, Step.to)
       IN IF ~Exists(fs, Step.from) THEN GunzipEnds(Ok(fs))
          ELSE IF ~made.ok \/ ~Room(made.fs, Step.to) \/ source.kind = "dir" \/ source.data # "gz" THEN GunzipEnds(Err(made.fs))
          ELSE Sub("unpacked", made.fs)
At2(sub) == run.sub = sub /\ Rest
\* Mutant: the archive goes first.
GunzipPlaceLate ==
    /\ At2("unpacked")
    /\ Sub("archive gone", RemoveFile(RemoveFile(fs, Step.to), Step.from))
GunzipPlace ==
    /\ At2("unpacked")
    /\ LET f == RemoveFile(fs, Step.to) IN
       IF At(f, Real(f, Step.to)).kind = "dir" THEN GunzipEnds(Err(f)) ELSE Sub("placed", Put(f, Step.to, File("program")))
GunzipRemove ==
    /\ At2("placed")
    /\ Sub("removed", RemoveFile(fs, Step.from))
GunzipMode ==
    /\ At2("removed")
    /\ GunzipEnds(IF Exists(fs, Step.to) THEN Ok(Put(fs, Step.to, File("executable"))) ELSE Err(fs))

Kill ==
    /\ Running /\ run' = Idle /\ last' = [phase |-> run.phase, upto |-> run.at - 1, ok |-> FALSE, ran |-> run.ran]
    /\ Rest /\ UNCHANGED fs
UserPuts ==
    /\ ~Running /\ Cardinality(user) < MaxUser
    /\ \E p \in Paths :
         /\ Room(fs, p) /\ fs[p].kind # "dir" /\ Real(fs, p) = p
         /\ fs' = [fs EXCEPT ![p] = File("user")] /\ user' = user \cup {p}
    /\ UNCHANGED <<kind, prog, run, last>>

-------------------------------------------------------------------------------
Init ==
    /\ kind \in {"formula", "cask"} /\ prog \in Programs
    /\ fs \in {[p \in Paths |-> IF p \in DOMAIN t THEN t[p] ELSE NoNode] : t \in Trees}
    /\ run = Idle /\ last = [phase |-> "none", upto |-> 0, ok |-> TRUE, ran |-> {}] /\ user = {}
Next ==
    \/ Start \/ Skip \/ RunStep \/ RunUninstallStep
    \/ Gunzip \/ GunzipPlace \/ GunzipRemove \/ GunzipMode
    \/ Kill \/ UserPuts
Spec == Init /\ [][Next]_vars

-------------------------------------------------------------------------------
(* Properties *)

\* Two steps with the same guard are both run or both skipped, whatever the
\* steps between them did to what the guard looks at (guards_match's cache).
SameGuardSameChoice ==
    \A i, j \in 1..last.upto :
        last.phase = "install" /\ prog[i].guard = prog[j].guard => (i \in last.ran <=> j \in last.ran)

\* Wherever install_gzipped_executable is broken off, the archive or the
\* program is there.
ExecutableIsSomewhere ==
    run.sub # "step" => Data(fs) \cap {"gz", "program", "executable"} # {}

\* Uninstalling steps removes symlinks of the flagged steps that still point to
\* the step's source and nothing else, such as a file or link of the user's.
OnlyOwnLinksGoStep ==
    run.phase = "uninstall" =>
      \A p \in Paths : fs'[p] # fs[p] =>
         \E i \in DOMAIN prog : prog[i].un /\ fs[p] = LinkTo(prog[i].from)
OnlyOwnLinksGo == [][OnlyOwnLinksGoStep]_vars

\* "Every step that writes is idempotent and safe to retry": a post-install that
\* is tried again and cannot be done has not lost a file the package brought.
RetryLosesNothing ==
    [][kind = "formula" /\ Running /\ run'.phase = "idle" /\ ~last'.ok /\ "shipped" \in run.had => "shipped" \in Data(fs')]_vars
====
