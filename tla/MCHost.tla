-------------------------------- MODULE MCHost --------------------------------
(* Small instances of what fastbrew does to the host: those of Host, and of the  *)
(* parts that are looked at by themselves, whose state s1 .. s6 hold; what a    *)
(* part does not need stays None.                                                *)
EXTENDS Host, Integers, Sequences, TLC

CONSTANTS
    NotANumber,        \* a part of a cron statement
    k1, k2             \* kegs

VARIABLES s1, s2, s3, s4, s5, s6

Symmetry == Permutations({k1, k2})

-------------------------------------------------------------------------------
(* Two kegs over a directory in a directory and a file beside it. *)
TwoKegs == {k1, k2}
NamesBelow == {"d", "s", "x", "y", "z"}
TwoDirs == {<<"d">>, <<"d", "s">>}
ThreeFiles == {<<"d", "s", "x">>, <<"d", "y">>, <<"z">>}
OwnFiles == {<<"d", "y">>}
InOrder == [set \in SUBSET (TwoDirs \cup ThreeFiles) |->
    SelectSeq(<<<<"d">>, <<"d", "s">>, <<"d", "s", "x">>, <<"d", "y">>, <<"z">>>>, LAMBDA p : p \in set)]
RulePairs ==
    {<<"d">> :> "link" @@ <<"d", "s">> :> "link", <<"d">> :> "link" @@ <<"d", "s">> :> "mkpath",
     <<"d">> :> "mkpath" @@ <<"d", "s">> :> "link", <<"d">> :> "skip" @@ <<"d", "s">> :> "link"}

-------------------------------------------------------------------------------
(* Programs of at most two steps, of every type. *)
A == <<"a">>
D == <<"d">>
DA == <<"d", "a">>
DD == <<"d", "d">>
Step(type, from, to, flag) ==
    [type |-> type, from |-> from, to |-> to, flag |-> flag, glob |-> FALSE, guard |-> <<>>, un |-> FALSE]
Glob(step) == [step EXCEPT !.glob = TRUE]
When(step, guard) == [step EXCEPT !.guard = guard]
Undone(step) == [step EXCEPT !.un = TRUE]
StepSet ==
  {Step("mkdir", A, D, FALSE), Step("mkdir_p", A, DD, FALSE), Step("touch", A, DA, FALSE),
   Step("move", A, D, TRUE), Step("move", A, DA, FALSE), Step("move", D, A, TRUE), Glob(Step("move", D, A, TRUE)),
   Step("move_children", D, A, FALSE), Step("copy", A, D, TRUE), Step("copy", D, A, FALSE), Glob(Step("copy", D, A, TRUE)),
   Step("remove", A, A, FALSE), Glob(Step("remove", D, D, TRUE)), Step("inreplace", A, A, FALSE), Step("inreplace", A, DA, FALSE),
   Step("link_dir", D, A, FALSE), Step("link_children", D, A, FALSE), Undone(Step("symlink", A, D, FALSE)),
   Undone(Step("symlink", A, DA, TRUE)), Undone(Step("symlink", D, A, TRUE)), Undone(Glob(Step("symlink", D, A, FALSE))),
   Step("write", A, DA, FALSE), Step("write", A, A, TRUE), Step("run", A, <<>>, FALSE), Step("run", A, DA, TRUE),
   Step("init_data_dir", A, D, FALSE), Step("terminate_process", A, A, TRUE), Step("set_permissions", A, A, FALSE),
   Step("tool", A, A, FALSE), Step("delete_keychain_certificate", A, A, FALSE), Step("configure_clang_system", A, D, FALSE),
   Step("gunzip", A, D, FALSE), Step("gunzip", A, DA, FALSE), Step("warn", A, A, FALSE), Step("unknown", A, A, FALSE),
   When(Step("write", A, DA, TRUE), <<"unless_exists", DA>>), When(Step("run", A, A, FALSE), <<"unless_exists", DA>>),
   When(Step("touch", A, A, FALSE), <<"if_exists", DA>>)}
Programs == {<<s>> : s \in StepSet} \cup {<<s, t>> : s \in StepSet, t \in StepSet}
Node(type, data) == [kind |-> type, data |-> data, to |-> <<>>]
Trees ==
  {A :> Node("file", "shipped"), A :> Node("file", "gz"),
   D :> Node("dir", "none") @@ DA :> Node("file", "shipped"),
   A :> Node("file", "before") @@ D :> Node("dir", "none")}
St == INSTANCE Steps
    WITH Names <- {"a", "d"}, Programs <- Programs, Trees <- Trees, MaxUser <- 1,
         kind <- s1, prog <- s2, fs <- s3, run <- s4, last <- s5, user <- s6

-------------------------------------------------------------------------------
(* Prefixes of two bytes and of one, names that become longer. *)
Ma == INSTANCE MachO
    WITH Names <- {"p", "q"}, NameLength <- ("p" :> 3 @@ "q" :> 13), NewName <- ("p" :> "q" @@ "q" :> None),
         Pads <- {0, 8}, MaxSlices <- 2, MaxCommands <- 2,
         Bytes <- {"nul", "o", "d", "n", "c"}, Nul <- "nul", Control <- {"c"},
         OldPrefix <- <<"o", "d">>, NewPrefix <- <<"n">>, MaxBytes <- 6, MaxString <- 4,
         image <- s1, table <- s2

(* Three names, two of which may be one file. *)
KegFile(inode, kind, holds) == [ino |-> inode, kind |-> kind, holds |-> holds, signed |-> TRUE]
KegContents ==
  {<<"text", {"text"}>>, <<"metafile", {"text"}>>, <<"script", {"text", "built"}>>, <<"macho", {"linkage"}>>,
   <<"macho", {"linkage", "built"}>>, <<"binary", {"built"}>>}
TwoFiles == {[n \in 1..3 |-> IF n = 3 THEN KegFile(3, y[1], y[2]) ELSE KegFile(1, x[1], x[2])] : x, y \in KegContents}

-------------------------------------------------------------------------------
(* A directory with files, Finder's own, one with a link in it, one to keep. *)
FilePaths ==
  {<<"d">>, <<"d", "s">>, <<"d", "e">>, <<"d", "e", "g">>, <<"d", "e", "s">>, <<"d", "l">>, <<"x">>, <<"x", "g">>}
Tree(holds, dirs, links) ==
  [p \in FilePaths |-> IF p \in holds THEN "file" ELSE IF p \in dirs THEN "dir" ELSE IF p \in links THEN "link" ELSE "none"]
Value(paths) == [paths |-> paths, refused |-> FALSE]
Refused(paths) == [paths |-> paths, refused |-> TRUE]
Stanza(kind, does) == [kind |-> kind, does |-> does]
Stanzas ==
  {<<Stanza("uninstall", [script |-> <<<<"d", "e", "g">>>>, rmdir |-> <<Value({<<"d">>})>>,
                          trash |-> <<Value({<<"d", "e", "g">>}), Value({<<"x", "g">>})>>]),
     Stanza("zap", [delete |-> <<Value({<<"d", "l">>}), Refused({<<"x">>})>>, rmdir |-> <<Value({<<"d">>})>>])>>,
   <<Stanza("uninstall", [launchctl |-> <<"svc">>, quit |-> <<"app">>, pkgutil |-> <<"pat">>, rmdir |-> <<Value({<<"d">>})>>]),
     Stanza("zap", [trash |-> <<Value({<<"d", "e">>, <<"d", "e", "g">>})>>, kext |-> <<"kx">>,
                    login_item |-> <<"li">>, signal |-> <<"app">>])>>}
Cd == INSTANCE CaskDirectives
    WITH Paths <- FilePaths, LinkTo <- (<<"d", "l">> :> <<"x">>), DsStore <- "s",
         Before <- {Tree({<<"d", "s">>, <<"d", "e", "g">>, <<"d", "e", "s">>, <<"x", "g">>},
                          {<<"d">>, <<"d", "e">>, <<"x">>}, {<<"d", "l">>}),
                    Tree({<<"d", "e", "s">>}, {<<"d">>, <<"d", "e">>, <<"x">>}, {})},
         Files <- [k1 |-> {<<"x">>, <<"x", "g">>, <<"d", "e">>}], Matches <- [pat |-> {"k1"}],
         Plist <- [svc |-> {<<"d", "s">>}], Apps <- {"app"}, Things <- {"li", "kx"},
         Stanzas <- Stanzas, MaxSuffix <- 1, Deadline <- 1, MaxTrouble <- 2,
         fs <- s1, trash <- s2, registered <- s3, running <- s4, run <- s5, trouble <- s6

-------------------------------------------------------------------------------
(* Containers in containers: by their first bytes, by their names, by neither. *)
Box(magic, ext, form, holds, mounts, eula) ==
  [magic |-> magic, ext |-> ext, form |-> form, holds |-> holds, mounts |-> mounts, eula |-> eula]
Shape ==
  [app_dmg |-> Box(None, "dmg", "dmg", {"app", "meta"}, {"m1", "m2"}, FALSE),
   eula_dmg |-> Box(None, "dmg", "dmg", {"app"}, {"m1"}, TRUE),
   blank_dmg |-> Box(None, "dmg", "dmg", {}, {}, FALSE),
   zip |-> Box("zip", None, "zip", {"app_dmg", "meta"}, {"none"}, FALSE),
   two |-> Box("zip", "zip", "zip", {"app_dmg", "inner"}, {"none"}, FALSE),
   tgz |-> Box("tar", "zip", "tar", {"zip"}, {"none"}, FALSE),
   deep |-> Box("zip", "tar", "zip", {"tgz"}, {"none"}, FALSE),
   inner |-> Box("tar", "tar", "tar", {"app", "tool"}, {"none"}, FALSE),
   tool |-> Box(None, None, "naked", {}, {"none"}, FALSE),
   pkg |-> Box("zip", "pkg", "pkg", {"app"}, {"none"}, FALSE)]
Un == INSTANCE Unpack
    WITH Boxes <- DOMAIN Shape, Shape <- Shape, Dirs <- {"app", "meta"}, Metadata <- {"meta"},
         Named <- {"inner"}, MaxDepth <- 3, MaxTrouble <- 1,
         attached <- s1, dest <- s2, run <- s3, top <- s4, trouble <- s5

-------------------------------------------------------------------------------
(* Services: by every kind of cron statement, kept alive, with paths and an     *)
(* environment, with all the rest, without a command.                           *)
Run == "run" :> <<"prog">>
Absolute(at) == [kind |-> "absolute", at |-> at]
CronStatements ==
  {<<"parts", minute, hour, day, month, weekday>> :
     minute \in {None, 0, 1}, hour \in {None, 1}, day \in {None, 1}, month \in {None, 1},
     weekday \in {None, 0, 6, 7, 8}}
  \cup {<<"at", name>> : name \in {"hourly", "daily", "weekly", "monthly", "yearly"}}
  \cup {<<"parts", 0, 0>>, <<"parts", NotANumber, None, None, None, None>>}
KeepAlives ==
  {<<>>, "always" :> TRUE, "always" :> FALSE, "always" :> FALSE @@ "crashed" :> TRUE, "path" :> "p",
   "successful_exit" :> FALSE @@ "path" :> "p"}
ServicePaths ==
  {Absolute(<<"home", "x">>), Absolute(<<"prefix", "log", "y">>), [kind |-> "relative", at |-> <<"z">>],
   [kind |-> "empty", at |-> <<>>]}
Declarations ==
  {Run @@ "run_type" :> "cron" @@ "cron" :> statement : statement \in CronStatements}
  \cup {Run @@ "keep_alive" :> ka @@ "run_type" :> type @@ "interval" :> 5 :
           ka \in KeepAlives, type \in {"immediate", "interval", "cron"}}
  \cup {Run @@ "working_dir" :> dir @@ "log_path" :> log @@ "error_log_path" :> error @@ "environment" :> env :
           dir, log, error \in ServicePaths, env \in {{}, {"UserName"}, {"A", "UserName", "Z"}}}
  \cup {"run_linux" :> <<"l">> @@ "working_dir" :> Absolute(<<"w">>) @@ "root_dir" :> Absolute(<<"w">>)
           @@ "nice" :> 3 @@ "stop_timeout" :> 4 @@ "launch_only_once" :> TRUE @@ "sockets" :> {"s"}
           @@ "process_type" :> "background",
         "name_macos" :> "custom", <<>>}
Line(key) == [depth |-> 1, key |-> key, value |-> "its"]
Sf == INSTANCE ServiceFiles
    WITH Declarations <- Declarations, Users <- {"alice", "bob"}, MaxTrouble <- 1,
         Shipped <- {<<Line("Label"), Line("UserName")>>, <<Line("Label"), Line("UserName"), Line("WorkingDirectory")>>,
                     <<Line("WorkingDirectory"), Line("UserName")>>},
         SortedKeys <- <<"EnvironmentVariables", "ExitTimeOut", "KeepAlive", "Label", "LaunchOnlyOnce",
                         "LegacyTimers", "LimitLoadToSessionType", "Nice", "ProcessType", "ProgramArguments",
                         "RootDirectory", "RunAtLoad", "Sockets", "StandardErrorPath", "StandardInPath",
                         "StandardOutPath", "StartCalendarInterval", "StartInterval", "ThrottleInterval",
                         "TimeOut", "UserName", "WorkingDirectory">>,
         Times <- [minute : {0, 1}, hour : {0, 1}, day : {1, 2}, month : {1, 2}, weekday : {0, 1, 6}],
         decl <- s1, keg <- s2, dirs <- s3, step <- s4, copy <- s5, trouble <- s6

-------------------------------------------------------------------------------
(* The files a formula's three versions ship. *)
ThreeVersions == {1, 2, 3}
ThreeDefaults == {"first", "second", "third"}

(* The labels that kegs bring: the one of today and the one of before. *)
BothLabels == {Canonical, Legacy}

-------------------------------------------------------------------------------
(* What a part does not use. *)
Off6 == s6 = None
Off3 == s3 = None /\ s4 = None /\ s5 = None /\ Off6
Alone == <<s1, s2, s3, s4, s5, s6>>

PartInit ==
    /\ Init
    /\ CASE active = {"steps"} -> St!Init
         [] active = {"macho"} -> Ma!Init /\ Off3
         [] active = {"directives"} -> Cd!Init
         [] active = {"unpack"} -> Un!Init /\ Off6
         [] active = {"service_files"} -> Sf!Init
         [] OTHER -> s1 = None /\ s2 = None /\ Off3

Steps == "steps" \in active /\ St!Next /\ UNCHANGED vars
MachO == "macho" \in active /\ Ma!Next /\ UNCHANGED <<vars, s3, s4, s5, s6>>
Directives == "directives" \in active /\ Cd!Next /\ UNCHANGED vars
Unpack == "unpack" \in active /\ Un!Next /\ UNCHANGED <<vars, s6>>
ServiceFiles == "service_files" \in active /\ Sf!Next /\ UNCHANGED vars

PartNext ==
    \/ Next /\ UNCHANGED Alone
    \/ Steps \/ MachO \/ Directives \/ Unpack \/ ServiceFiles
PartSpec == PartInit /\ [][PartNext]_<<vars, Alone>>

EachAlone == {{part} : part \in
    {"linker", "services", "steps", "etc_var", "macho", "relocation", "directives", "unpack", "service_files"}}

-------------------------------------------------------------------------------
(* The properties of the parts that are not in Host; each is stated and explained
   in its module. *)

\* ops/steps.rs, bottle/macho.rs, cask/artifacts.rs, cask/unpack.rs,
\* services/plist.rs: steps with one guard agree and a program that is unpacked
\* stays reachable, a binary is changed where the build prefix is and nowhere
\* else, every stanza has its turn and does what it names, a container is opened
\* down to what it holds, leaving nothing attached, and a service's files tell
\* launchd and systemd the same, name directories that exist, and one user.
FilesAreAsDeclared ==
    /\ "steps" \in active => St!SameGuardSameChoice /\ St!ExecutableIsSomewhere
    /\ "macho" \in active => Ma!MachOIsSound
    /\ "directives" \in active => Cd!StanzasAreSound
    /\ "unpack" \in active => Un!UnpackIsSound
    /\ "service_files" \in active => Sf!ServiceFilesAreSound

\* ops/steps.rs, cask/artifacts.rs: an uninstall removes only links it made, and
\* `uninstall` and `zap` remove only what a stanza names and lose nothing in the
\* Trash.
OthersFilesAreKept ==
    [][/\ "steps" \in active => St!OnlyOwnLinksGoStep
       /\ "directives" \in active => Cd!OnlyWhatIsNamedGoesStep /\ Cd!TrashIsKeptStep]_<<vars, Alone>>
=============================================================================
