--------------------------------- MODULE Services ---------------------------------
(***************************************************************************)
(* `services start|run|stop|restart|kill|cleanup` of one formula           *)
(* (services/mod.rs, services/launchd.rs, cli/services.rs), beside launchd *)
(* and the installs of the formula's kegs.                                 *)
(*                                                                         *)
(* A service is loaded under the label in its keg's plist, or under one of *)
(* the names that earlier kegs or another Homebrew gave it, and another    *)
(* keg may bring another label while the service is loaded.  A user acts   *)
(* on the gui domain and ~/Library/LaunchAgents, root on the system domain *)
(* and /Library/LaunchDaemons; sudo keeps the user's HOME, so that root    *)
(* can remove the user's files too.                                        *)
(***************************************************************************)
EXTENDS Naturals, Sequences, FiniteSetsExt

CONSTANTS
    Canonical, Legacy,   \* sh.brew.<name>, homebrew.mxcl.<name>
    KegLabels,           \* the labels that kegs of the formula bring
    None

Labels == KegLabels \cup {Canonical, Legacy}
\* What a theorem about them needs: every label that a keg of the formula brings
\* is probed for each of its kegs.  So it is while kegs bring the standard labels,
\* or all of them one of their own.
Parameters ==
    /\ None \notin Labels \cup [label : KegLabels, keepAlive : BOOLEAN]
    /\ Canonical # Legacy
    /\ KegLabels \subseteq {Canonical, Legacy} \/ \A a, b \in KegLabels : a = b
Domains == {"gui", "system"}
Dirs == {"agents", "daemons"}

VARIABLES
    keg,      \* None or [label, keepAlive]: the keg the service is read from
    files,    \* the <<directory, label>> that have a service file
    loaded,   \* [Domains -> [Labels -> {"no", "running", "exited"}]]: launchd's jobs
    cmd,      \* the command under way
    said      \* what the command ended with; "lost" when the machine was restarted

vars == <<keg, files, loaded, cmd, said>>

-------------------------------------------------------------------------------
(* What a command reads *)

DomainTarget(root) == IF root THEN "system" ELSE "gui"
DestDir(root) == IF root THEN "daemons" ELSE "agents"
\* The labels probed for a keg: its own, then the standard ones.
LabelsOf(label) ==
    IF label = Canonical THEN <<Canonical, Legacy>>
    ELSE IF label = Legacy THEN <<Legacy, Canonical>> ELSE <<label, Canonical, Legacy>>
LabelSet(label) == {label, Canonical, Legacy}
FindService(root, label) == loaded[DomainTarget(root)][label]
ServiceLoaded(root, label) == FindService(root, label) # "no"
Probed(label) == LabelsOf(label)
\* info: the first of the labels that launchd knows, or None.
LoadedLabel(root, label) ==
    LET hits == {i \in DOMAIN Probed(label) : ServiceLoaded(root, Probed(label)[i])} IN
    IF hits = {} THEN None ELSE Probed(label)[Min(hits)]
Registered(label) == \E dir \in Dirs, l \in LabelSet(label) : <<dir, l>> \in files
\* info asked of the plist's own label alone.
NothingToDoOwnLabel(root, label) == FindService(root, label) = "running"
\* report_running_or_loaded: running, or loaded under another name.
NothingToDo(root, label) ==
    LET l == LoadedLabel(root, label) IN
    l # None /\ (FindService(root, l) = "running" \/ l # label)

\* Files that cannot be removed stay, without a word.
Removable(root) == IF root THEN Dirs ELSE {"agents"}
WithoutFiles(root, label) == files \ (Removable(root) \X LabelSet(label))

-------------------------------------------------------------------------------
(* Commands.  cmd.then is what a restart goes on to; cmd.rerun and          *)
(* cmd.before (whether the service was registered) are what it found.       *)

Ops == {"start", "run", "stop", "restart", "kill", "cleanup"}
Quiet == [op |-> "none", pc |-> "idle", root |-> FALSE, label |-> None, job |-> None,
          then |-> "end", before |-> FALSE, rerun |-> FALSE, known |-> {}]
Idle == cmd.pc = "idle"
At(pc) == cmd.pc = pc
Goto(pc) == cmd' = [cmd EXCEPT !.pc = pc]
End(result) == cmd' = Quiet /\ said' = result

\* `--all` starts only what is not loaded and stops only what is; skip_root
\* leaves a root service to root.
Targeted(op, root) ==
    LET l == IF keg = None THEN None ELSE LoadedLabel(root, keg.label) IN
    /\ keg # None
    /\ op = "start" => l = None
    /\ op = "stop" => l # None

\* find: the keg's plist is read when a subcommand begins, and again when a
\* restart goes on to stop and to start or run.
Begin(c) == IF keg = None THEN [c EXCEPT !.pc = "not installed"] ELSE [c EXCEPT !.label = keg.label]
Command(op, root, all) ==
    /\ Idle /\ op \in Ops
    /\ all => Targeted(op, root)
    /\ cmd' = Begin([Quiet EXCEPT !.op = op, !.pc = op, !.root = root]) /\ said' = "none"
    /\ UNCHANGED <<keg, files, loaded>>
NotInstalled ==
    /\ At("not installed") /\ UNCHANGED <<keg, files, loaded>>
    /\ IF cmd.op = "cleanup" THEN Goto("cleanup") /\ UNCHANGED said ELSE End("not installed")
\* The plist of the keg is still where it was found.
SourceThere == keg # None /\ keg.label = cmd.label

Start ==
    /\ At("start") /\ UNCHANGED <<keg, files, loaded>>
    /\ IF NothingToDo(cmd.root, cmd.label) THEN End("already") ELSE Goto("replace") /\ UNCHANGED said
Replace ==
    /\ At("replace") /\ files' = WithoutFiles(cmd.root, cmd.label) /\ Goto("copy")
    /\ UNCHANGED <<keg, loaded, said>>
Copy ==
    /\ At("copy") /\ UNCHANGED <<keg, loaded>>
    /\ IF SourceThere
       THEN files' = files \cup {<<DestDir(cmd.root), cmd.label>>} /\ Goto("enable") /\ UNCHANGED said
       ELSE End("failed") /\ UNCHANGED files
Enable ==
    /\ At("enable") /\ UNCHANGED <<keg, files, loaded>>
    /\ \/ Goto("bootstrap") /\ UNCHANGED said
       \/ End("failed")
\* launchd takes a label once: one that is loaded, if only an exited job, is refused.
Bootstrap ==
    /\ At("bootstrap") /\ UNCHANGED <<keg, files>>
    /\ \/ /\ ~ServiceLoaded(cmd.root, cmd.label) /\ End("done")
          /\ loaded' = [loaded EXCEPT ![DomainTarget(cmd.root)][cmd.label] = "running"]
       \/ End("failed") /\ UNCHANGED loaded
Run ==
    /\ At("run") /\ UNCHANGED <<keg, files, loaded>>
    /\ IF NothingToDo(cmd.root, cmd.label) \/ cmd.root THEN End("already")
       ELSE IF SourceThere THEN Goto("bootstrap") /\ UNCHANGED said ELSE End("failed")

\* stop, for itself or for a restart; stopping what cannot be stopped is no error.
StopEnds(result) ==
    IF cmd.then = "end" THEN End(result)
    ELSE cmd' = Begin([cmd EXCEPT !.pc = cmd.then, !.then = "end"]) /\ UNCHANGED said
Stop ==
    /\ At("stop") /\ UNCHANGED <<keg, files, loaded, said>>
    /\ LET l == LoadedLabel(cmd.root, cmd.label) IN
       IF l = None THEN Goto("unregister") ELSE cmd' = [cmd EXCEPT !.pc = "boot out", !.job = l]
\* The files go first, then a registered one is an error all the same.
Unregister ==
    /\ At("unregister") /\ UNCHANGED <<keg, loaded>>
    /\ files' = WithoutFiles(cmd.root, cmd.label)
    /\ IF Registered(cmd.label) THEN End("started as somebody") ELSE StopEnds("not started")
Booted == [loaded EXCEPT ![DomainTarget(cmd.root)][cmd.job] = "no"]
Signalled == [loaded EXCEPT ![DomainTarget(cmd.root)][cmd.job] = IF @ = "running" THEN "exited" ELSE @]
\* bootout works, or the job is told to stop and ends or not.
BootOut ==
    /\ At("boot out") /\ Goto("still loaded")
    /\ \/ loaded' = Booted
       \/ loaded' = Signalled
       \/ UNCHANGED loaded
    /\ UNCHANGED <<keg, files, said>>
\* The files removed without a look at launchd.
StillLoadedUnasked ==
    /\ At("still loaded") /\ UNCHANGED <<keg, files, loaded, said>> /\ Goto("remove")
StillLoaded ==
    /\ At("still loaded") /\ UNCHANGED <<keg, files, loaded>>
    /\ IF ServiceLoaded(cmd.root, cmd.job) THEN StopEnds("unable") ELSE Goto("remove") /\ UNCHANGED said
RemoveFiles ==
    /\ At("remove") /\ files' = WithoutFiles(cmd.root, cmd.label) /\ StopEnds("stopped")
    /\ UNCHANGED <<keg, loaded>>

\* Whatever is loaded run again.
RerunLoaded(root, label) == LoadedLabel(root, label) # None
\* What was loaded without a file was `run`, and is run again; the rest is started.
Rerun(root, label) == LoadedLabel(root, label) # None /\ ~Registered(label)
Restart ==
    /\ At("restart") /\ UNCHANGED <<keg, files, loaded, said>>
    /\ LET next == IF Rerun(cmd.root, cmd.label) THEN "run" ELSE "start"
           seen == [cmd EXCEPT !.before = Registered(cmd.label),
                               !.rerun = LoadedLabel(cmd.root, cmd.label) # None]
       IN cmd' = IF LoadedLabel(cmd.root, cmd.label) # None
                 THEN Begin([seen EXCEPT !.pc = "stop", !.then = next])
                 ELSE Begin([seen EXCEPT !.pc = next])

\* A job that launchd keeps alive is not killed.
Kill ==
    /\ At("kill") /\ UNCHANGED <<keg, files, loaded>>
    /\ LET l == LoadedLabel(cmd.root, cmd.label) IN
       IF l = None \/ keg = None THEN End("not started")
       ELSE IF FindService(cmd.root, l) # "running" \/ keg.keepAlive THEN End("not killed")
       ELSE cmd' = [cmd EXCEPT !.pc = "signal", !.job = l] /\ UNCHANGED said
Signal ==
    /\ At("signal") /\ UNCHANGED <<keg, files>>
    /\ \/ loaded' = Signalled /\ End("killed")
       \/ UNCHANGED loaded /\ End("unable")

\* cleanup: files of the caller's own directory that no keg's labels name.
Cleanup ==
    /\ At("cleanup") /\ UNCHANGED <<keg, files, loaded, said>>
    /\ cmd' = [cmd EXCEPT !.pc = "sweep",
                          !.known = IF keg = None THEN {} ELSE LabelSet(keg.label)]
Sweep ==
    /\ At("sweep") /\ UNCHANGED <<keg, loaded>> /\ End("clean")
    /\ files' = {f \in files : f[1] = DestDir(cmd.root) =>
                                 (f[2] \in cmd.known \/ ServiceLoaded(cmd.root, f[2]))}

-------------------------------------------------------------------------------
(* The kegs and launchd *)

Pour == /\ keg' \in [label : KegLabels, keepAlive : BOOLEAN]
        /\ UNCHANGED <<files, loaded, cmd, said>>
Uninstall == keg # None /\ keg' = None /\ UNCHANGED <<files, loaded, cmd, said>>
\* A job ends by itself.
Exit(domain, l) ==
    /\ loaded[domain][l] = "running" /\ loaded' = [loaded EXCEPT ![domain][l] = "exited"]
    /\ UNCHANGED <<keg, files, cmd, said>>
\* A restart of the machine: what is registered is loaded, what was only run is not.
Boot ==
    /\ loaded' = [domain \in Domains |-> [l \in Labels |->
                   IF <<DestDir(domain = "system"), l>> \in files THEN "running" ELSE "no"]]
    /\ cmd' = Quiet /\ said' = "lost" /\ UNCHANGED <<keg, files>>

-------------------------------------------------------------------------------
Init ==
    /\ keg = None /\ files = {} /\ cmd = Quiet
    /\ loaded = [domain \in Domains |-> [l \in Labels |-> "no"]]
    /\ said = "none"

Next ==
    \/ \E op \in Ops, root, all \in BOOLEAN : Command(op, root, all)
    \/ NotInstalled \/ Start \/ Replace \/ Copy \/ Enable \/ Bootstrap \/ Run
    \/ Stop \/ Unregister \/ BootOut \/ StillLoaded \/ RemoveFiles \/ Restart
    \/ Kill \/ Signal \/ Cleanup \/ Sweep
    \/ Pour \/ Uninstall \/ Boot
    \/ \E domain \in Domains, l \in Labels : Exit(domain, l)

Spec == Init /\ [][Next]_vars

-------------------------------------------------------------------------------
\* A domain runs the service once, whatever labels its kegs brought, and a
\* directory has one file of it, so that the next login starts it once.
OneInstance ==
    /\ \A domain \in Domains, l, m \in Labels :
         loaded[domain][l] # "no" /\ loaded[domain][m] # "no" => l = m
    /\ \A dir \in Dirs, l, m \in Labels : <<dir, l>> \in files /\ <<dir, m>> \in files => l = m

\* "Successfully stopped": no label of the service is loaded in the caller's
\* domain, and no file is left that would load it at the next login.
StoppedIsStoppedStep ==
    (At("remove") /\ ~At("remove")' /\ said' # "lost") =>
       \A l \in Labels : /\ loaded'[DomainTarget(cmd.root)][l] = "no"
                         /\ <<DestDir(cmd.root), l>> \notin files'
StoppedIsStopped == [][StoppedIsStoppedStep]_vars

\* A restart that works leaves the service registered when it was, and a
\* service that was only `run` unregistered.
RestartKeepsRegistrationStep ==
    (cmd.op = "restart" /\ Idle' /\ said' \in {"done", "already"}) =>
       LET stays == \E dir \in Dirs, l \in LabelSet(cmd.label) : <<dir, l>> \in files' IN
       IF cmd.before THEN stays ELSE cmd.rerun => ~stays
RestartKeepsRegistration == [][RestartKeepsRegistrationStep]_vars
================================================================================
