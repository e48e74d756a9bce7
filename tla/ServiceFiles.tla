----------------------------- MODULE ServiceFiles -----------------------------
(***************************************************************************)
(* The files a keg gets from its formula's `service` block                 *)
(* (services/plist): the launchd plist, the systemd unit and, for timed    *)
(* services, its timer; and the user `--sudo-service-user` puts into the   *)
(* plist's copy.                                                           *)
(*                                                                         *)
(* A declaration is a function of what the block says.  A plist is the     *)
(* sequence of its entries with their depth, since set_plist_user works    *)
(* line by line; values stand for themselves, XML and quoting are left out.*)
(***************************************************************************)
EXTENDS Integers, Sequences, SequencesExt

CONSTANTS
    None,
    NotANumber,    \* a part of a cron statement that does not parse
    Declarations,  \* what formulae say
    Shipped,       \* plists that kegs bring along
    Users,
    SortedKeys,    \* the keys a plist may have, in their order as strings
    Times,         \* moments: [minute, hour, day, month, weekday], weekday 0..6
    MaxTrouble     \* bound: writes that fail

VARIABLES
    decl,      \* the service block
    keg,       \* the files in the keg: subset of {"unit", "timer", "plist"}
    dirs,      \* directories that were made
    step,      \* of install_service_files
    copy,      \* the plist at its destination, or None
    trouble

vars == <<decl, keg, dirs, step, copy, trouble>>

Says(d, key) == key \in DOMAIN d
Value(d, key, default) == IF Says(d, key) THEN d[key] ELSE default

-------------------------------------------------------------------------------
(* ServiceDef::from_formula *)

\* Slots of a cron statement; None is `*`.
EveryTime == [minute |-> None, hour |-> None, day |-> None, month |-> None, weekday |-> None]
Shortcut ==
    [hourly |-> [EveryTime EXCEPT !.minute = 0],
     daily |-> [EveryTime EXCEPT !.minute = 0, !.hour = 0],
     weekly |-> [EveryTime EXCEPT !.minute = 0, !.hour = 0, !.weekday = 0],
     monthly |-> [EveryTime EXCEPT !.minute = 0, !.hour = 0, !.day = 1],
     yearly |-> [EveryTime EXCEPT !.minute = 0, !.hour = 0, !.day = 1, !.month = 1]]
\* Five parts, each a star or a number; otherwise there is no cron at all.
ParseCron(statement) ==
    CASE statement[1] = "at" -> Shortcut[statement[2]]
      [] statement[1] = "parts" /\ Len(statement) = 6 /\ (\A i \in 2..6 : statement[i] # NotANumber) ->
            [minute |-> statement[2], hour |-> statement[3], day |-> statement[4],
             month |-> statement[5], weekday |-> statement[6]]
      [] OTHER -> None

\* keep_alive is a flag or any of always, successful_exit, crashed, path.
KeepAlive(d) == Value(d, "keep_alive", <<>>)
KeptAlive(ka) == ka # <<>> /\ Value(ka, "always", TRUE)

\* `run macos: .., linux: ..`: this system's, or else the other's.
Command(d) ==
    CASE Says(d, "run_macos") -> d.run_macos
      [] ~Says(d, "run_macos") /\ Says(d, "run_linux") -> d.run_linux
      [] OTHER -> Value(d, "run", <<>>)
HasService(d) == Command(d) # <<>>
RunType(d) == Value(d, "run_type", "immediate")
Timed(d) == RunType(d) \in {"interval", "cron"}
Cron(d) == IF Says(d, "cron") THEN ParseCron(d.cron) ELSE None

PlistName(d) == Value(d, "name_macos", "legacy")
\* plist_labels: where `services` looks for the file.
PlistLabels(d) == <<PlistName(d), "canonical", "legacy">>
UnitName(d) == Value(d, "name_linux", "unit")

\* A path is [kind, at]: "empty", "relative" or "absolute" (also from `~`).
PathKeys == [working_dir |-> "WorkingDirectory", root_dir |-> "RootDirectory", input_path |-> "StandardInPath",
             log_path |-> "StandardOutPath", error_log_path |-> "StandardErrorPath"]
Named(d) == {k \in DOMAIN PathKeys \cap DOMAIN d : d[k].kind # "empty"}
\* expand_path: what is relative is taken from the current directory.
ExpandPath(path) == IF path.kind = "relative" THEN <<"cwd">> \o path.at ELSE path.at
\* path_dirs: "directories that must exist before loading".
\* Mutant: the parent of the error log is forgotten.
PathDirsButErrors(d) ==
    {d[k].at : k \in {k \in Named(d) \cap {"working_dir", "root_dir"} : d[k].kind = "absolute"}}
      \cup {Front(d[k].at) : k \in {k \in Named(d) \cap {"input_path", "log_path"} : d[k].kind = "absolute"}}
PathDirs(d) ==
    LET absolute == {k \in Named(d) : d[k].kind = "absolute"}
    IN {d[k].at : k \in absolute \cap {"working_dir", "root_dir"}}
         \cup {Front(d[k].at) : k \in absolute \ {"working_dir", "root_dir"}}

-------------------------------------------------------------------------------
(* The files *)

Given(key, value) == IF value = None THEN {} ELSE {<<key, value>>}
If(condition, key, value) == IF condition THEN {<<key, value>>} ELSE {}
\* The first of these that is given.
KeepAliveValue(ka) ==
    CASE Value(ka, "always", FALSE) -> "always"
      [] ~Value(ka, "always", FALSE) /\ Says(ka, "successful_exit") -> <<"SuccessfulExit", ka.successful_exit>>
      [] ~Value(ka, "always", FALSE) /\ ~Says(ka, "successful_exit") /\ Says(ka, "crashed") -> <<"Crashed", ka.crashed>>
      [] OTHER -> IF Value(ka, "path", "") = "" THEN None ELSE <<"PathState", ka.path>>
CronKeys == [minute |-> "Minute", hour |-> "Hour", day |-> "Day", month |-> "Month", weekday |-> "Weekday"]
Calendar(cron) == [slot \in {s \in DOMAIN CronKeys : cron[s] # None} |-> cron[slot]]
\* to_plist: the top-level dictionary.
Dict(d) ==
    {<<"Label", PlistName(d)>>, <<"ProgramArguments", Command(d)>>,
     <<"RunAtLoad", Value(d, "run_at_load", TRUE)>>, <<"LimitLoadToSessionType", "all">>}
      \cup If(Value(d, "launch_only_once", FALSE), "LaunchOnlyOnce", TRUE)
      \cup If(Value(d, "macos_legacy_timers", FALSE), "LegacyTimers", TRUE)
      \cup Given("ExitTimeOut", Value(d, "stop_timeout", None))
      \cup Given("TimeOut", Value(d, "restart_delay", None))
      \cup Given("ThrottleInterval", Value(d, "throttle_interval", None))
      \cup Given("ProcessType", Value(d, "process_type", None)) \cup Given("Nice", Value(d, "nice", None))
      \cup (IF RunType(d) = "interval" THEN Given("StartInterval", Value(d, "interval", None)) ELSE {})
      \cup {<<PathKeys[k], ExpandPath(d[k])>> : k \in Named(d)}
      \cup If(Value(d, "environment", {}) # {}, "EnvironmentVariables", Value(d, "environment", {}))
      \cup (IF KeptAlive(KeepAlive(d)) THEN Given("KeepAlive", KeepAliveValue(KeepAlive(d))) ELSE {})
      \cup If(Value(d, "sockets", {}) # {}, "Sockets", Value(d, "sockets", {}))
      \cup If(RunType(d) = "cron" /\ Cron(d) \notin {None, EveryTime}, "StartCalendarInterval",
              IF Cron(d) = None THEN None ELSE Calendar(Cron(d)))

\* The entries line by line; those of a dictionary in the dictionary are deeper.
Entry(key, value) == [depth |-> 1, key |-> key, value |-> value]
Nested(key) == [depth |-> 2, key |-> key, value |-> "any"]
Lines(dict) ==
    LET keys == SelectSeq(SortedKeys, LAMBDA key : \E e \in dict : e[1] = key)
        Of(key) == (CHOOSE e \in dict : e[1] = key)[2]
        Below(key) == IF key = "EnvironmentVariables"
                      THEN [i \in DOMAIN SetToSeq(Of(key)) |-> Nested(SetToSeq(Of(key))[i])] ELSE <<>>
    IN FlattenSeq([i \in DOMAIN keys |-> <<Entry(keys[i], Of(keys[i]))>> \o Below(keys[i])])
Plist(d) == Lines(Dict(d))

\* to_systemd_unit.
Unit(d) ==
    LET ka == KeepAlive(d)
    IN {<<"Type", IF Value(d, "launch_only_once", FALSE) THEN "oneshot" ELSE "simple">>, <<"ExecStart", Command(d)>>}
         \cup (CASE Value(ka, "always", FALSE) \/ Value(ka, "crashed", FALSE) -> {<<"Restart", "on-failure">>}
                 [] ~Value(ka, "always", FALSE) /\ ~Value(ka, "crashed", FALSE) /\ Value(ka, "successful_exit", FALSE) ->
                      {<<"Restart", "on-success">>}
                 [] OTHER -> {})
         \cup Given("RestartSec", Value(d, "restart_delay", None))
         \cup Given("TimeoutStopSec", Value(d, "stop_timeout", None)) \cup Given("Nice", Value(d, "nice", None))
         \cup {<<PathKeys[k], ExpandPath(d[k])>> : k \in Named(d)}
         \cup {<<"Environment", v>> : v \in Value(d, "environment", {})}
\* weekday_prefix: Sunday is 0 and 7, what is no weekday is left out.
\* Mutant: 7 is no weekday.
WeekdayBelowSeven(n) == IF n = None \/ n \notin 0..6 THEN None ELSE n
Weekday(n) == IF n = None \/ n \notin 0..7 THEN None ELSE n % 7
\* to_systemd_timer.
Timer(d) ==
    [unit |-> UnitName(d),
     every |-> IF RunType(d) = "interval" THEN Value(d, "interval", None) ELSE None,
     calendar |-> IF RunType(d) # "cron" THEN None
                  ELSE LET cron == IF Cron(d) = None THEN EveryTime ELSE Cron(d)
                       IN [cron EXCEPT !.weekday = Weekday(cron.weekday)]]

-------------------------------------------------------------------------------
(* set_plist_user: the entry is put before the first greater key or at the end, *)
(* or replaces the one that is met first.                                       *)

KeyRank == [key \in ToSet(SortedKeys) |-> CHOOSE i \in DOMAIN SortedKeys : SortedKeys[i] = key]
UserEntry(user) == Entry("UserName", user)
Greater(line) == line.depth = 1 /\ KeyRank[line.key] > KeyRank["UserName"]
\* Mutant: any UserName is replaced, also that of the environment.
PlaceOfAnyDepth(plist) ==
    {i \in DOMAIN plist : plist[i].key = "UserName" \/ Greater(plist[i])}
Place(plist) ==
    {i \in DOMAIN plist : (plist[i].key = "UserName" /\ plist[i].depth = 1) \/ Greater(plist[i])}
SetPlistUser(plist, user) ==
    IF Place(plist) = {} THEN Append(plist, UserEntry(user))
    ELSE LET at == CHOOSE i \in Place(plist) : \A j \in Place(plist) : i <= j
         IN IF plist[at].key = "UserName" THEN [plist EXCEPT ![at] = UserEntry(user)]
            ELSE InsertAt(plist, at, UserEntry(user))

-------------------------------------------------------------------------------
(* install_service_files and copy_service_file *)

Trouble == trouble < MaxTrouble /\ trouble' = trouble + 1
Write(from, file, to) ==
    /\ step = from
    /\ \/ keg' = keg \cup {file} /\ step' = to /\ UNCHANGED trouble
       \/ Trouble /\ step' = "warned" /\ UNCHANGED keg
    /\ UNCHANGED <<decl, dirs, copy>>
Begin ==
    /\ step = "begin" /\ step' = IF HasService(decl) THEN "unit" ELSE "done"
    /\ UNCHANGED <<decl, keg, dirs, copy, trouble>>
WriteUnit == Write("unit", "unit", IF Timed(decl) THEN "timer" ELSE "plist")
WriteTimer == Write("timer", "timer", "plist")
WritePlist == Write("plist", "plist", "log")
\* The prefix's var/log, when the plist mentions it.
MakeLog ==
    /\ step = "log" /\ step' = "done"
    /\ dirs' = dirs \cup (IF \E k \in Named(decl) : IsPrefix(<<"prefix", "log">>, ExpandPath(decl[k]))
                           THEN {<<"prefix", "log">>} ELSE {})
    /\ UNCHANGED <<decl, keg, copy, trouble>>
\* A start makes the directories, if it can, and copies the file all the same;
\* as another user it says so.
Start ==
    /\ step \in {"done", "warned"} /\ "plist" \in keg
    /\ \E made \in SUBSET PathDirs(decl) :
         /\ dirs' = dirs \cup made
         /\ made # PathDirs(decl) => trouble < MaxTrouble
         /\ trouble' = IF made = PathDirs(decl) THEN trouble ELSE trouble + 1
    /\ \E user \in Users \cup {None} :
         copy' = IF user = None THEN Plist(decl) ELSE SetPlistUser(Plist(decl), user)
    /\ UNCHANGED <<decl, keg, step>>
\* A keg may bring its own plist instead (a service block without `run`).
StartShipped ==
    /\ step = "done" /\ ~HasService(decl) /\ copy = None
    /\ \E plist \in Shipped, user \in Users : copy' = SetPlistUser(plist, user)
    /\ UNCHANGED <<decl, keg, dirs, step, trouble>>

Init ==
    /\ decl \in Declarations
    /\ keg = {} /\ dirs = {} /\ step = "begin" /\ copy = None /\ trouble = 0
Next == Begin \/ WriteUnit \/ WriteTimer \/ WritePlist \/ MakeLog \/ Start \/ StartShipped
Spec == Init /\ [][Next]_vars

-------------------------------------------------------------------------------
(* External: launchd.plist(5) and systemd.time(7). *)

\* A slot that is not given matches; a day and a weekday match when either does.
LaunchdFires(calendar, t) ==
    LET Matches(slot) == slot \notin DOMAIN calendar \/ calendar[slot] % (IF slot = "weekday" THEN 7 ELSE 100) = t[slot]
    IN /\ \A slot \in {"minute", "hour", "month"} : Matches(slot)
       /\ IF {"day", "weekday"} \subseteq DOMAIN calendar THEN Matches("day") \/ Matches("weekday")
          ELSE Matches("day") /\ Matches("weekday")
SystemdFires(calendar, t) == \A slot \in DOMAIN t : calendar[slot] \in {None, t[slot]}

-------------------------------------------------------------------------------
Get(plist, key) == {plist[i].value : i \in {i \in DOMAIN plist : plist[i].depth = 1 /\ plist[i].key = key}}

\* A cron statement that is understood, says when, and does not mix a day of the
\* month with one of the week, means the same to launchd and to systemd.
Ordinary(cron) ==
    /\ cron \notin {None, EveryTime} /\ cron.weekday \in {None} \cup 0..7
    /\ cron.day = None \/ cron.weekday = None
TimersAgree ==
    step = "begin" /\ RunType(decl) = "cron" /\ HasService(decl) /\ Ordinary(Cron(decl)) =>
        \A t \in Times :
            LET calendar == CHOOSE c \in Get(Plist(decl), "StartCalendarInterval") : TRUE
            IN LaunchdFires(calendar, t) = SystemdFires(Timer(decl).calendar, t)
\* The same of any cron: one that is not understood fires every minute as a
\* timer and never as a plist.
TimersAlwaysAgree ==
    step = "begin" /\ RunType(decl) = "cron" /\ HasService(decl) =>
        \A t \in Times :
            (\E calendar \in Get(Plist(decl), "StartCalendarInterval") : LaunchdFires(calendar, t))
              <=> SystemdFires(Timer(decl).calendar, t)

\* Both managers run the same command with the same directories and logs.
FilesAgree ==
    step = "begin" /\ HasService(decl) =>
        /\ Get(Plist(decl), "ProgramArguments") = {e[2] : e \in {e \in Unit(decl) : e[1] = "ExecStart"}}
        /\ \A k \in DOMAIN PathKeys :
             Get(Plist(decl), PathKeys[k]) = {e[2] : e \in {e \in Unit(decl) : e[1] = PathKeys[k]}}

\* What was started has the directories its plist names, unless one could not be
\* made: launchd does not run a job whose log or working directory is missing.
DirectoriesExist ==
    copy # None /\ HasService(decl) /\ trouble = 0 =>
        \A k \in Named(decl) : decl[k].kind = "absolute" =>
            (IF k \in {"working_dir", "root_dir"} THEN decl[k].at ELSE Front(decl[k].at)) \in dirs

\* set_plist_user: in a sorted plist there is one user, the order is kept, and
\* nothing else changes, also when a variable of the service is called UserName.
InKeyOrder(plist) ==
    \A i, j \in DOMAIN plist :
        i < j /\ plist[i].depth = 1 /\ plist[j].depth = 1 => KeyRank[plist[i].key] <= KeyRank[plist[j].key]
OthersOf(plist) == SelectSeq(plist, LAMBDA line : line.depth = 2 \/ line.key # "UserName")
UserIsSet ==
    step \in {"done", "warned"} /\ copy = None =>
        \A user \in Users, plist \in (IF HasService(decl) THEN {Plist(decl)} ELSE Shipped) :
            InKeyOrder(plist) =>
                LET new == SetPlistUser(plist, user)
                IN /\ Len(SelectSeq(new, LAMBDA line : line = UserEntry(user))) = 1
                   /\ Get(new, "UserName") = {user} /\ InKeyOrder(new) /\ OthersOf(new) = OthersOf(plist)
                   /\ \A other \in Users : SetPlistUser(new, other) = SetPlistUser(plist, other)

ServiceFilesAreSound == TimersAgree /\ FilesAgree /\ DirectoriesExist /\ UserIsSet
===============================================================================
