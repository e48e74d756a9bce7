------------------------------ MODULE LatestCask ------------------------------
(***************************************************************************)
(* A `version :latest` cask (cask/install, cask/download, cask/quarantine):*)
(* it has no version to compare, so a check asks the server for its        *)
(* container again, and what is installed is known by the checksum in      *)
(* LATEST_DOWNLOAD_SHA256.                                                 *)
(*                                                                         *)
(* The download cache holds the containers of the cask's url under the     *)
(* names servers gave them, each with the time it was written and the      *)
(* quarantine attribute.  `upgrade` checks before it takes the cask's lock,*)
(* `fetch` takes none: both replace what an install under the lock is about*)
(* to unpack.  How a stream is written is in Downloads, how a predecessor  *)
(* is put back in Cask; here a file arrives, and a replacement is recorded,*)
(* at once.                                                                *)
(***************************************************************************)
EXTENDS Naturals, FiniteSets

CONSTANTS
    Runs,        \* processes
    None, Nobody,
    Names,       \* what a container's file may be called
    Guess,       \* the one the url suggests
    NameOf,      \* the one the server gives each publication
    MaxPublish,  \* bound: publications
    MaxClock,    \* bound: the seconds that pass
    MaxCommands, \* bound: commands that users start
    MaxTrouble   \* bound: answers and streams that fail, files that go

Answers == [c : 0..MaxPublish, date : 0..MaxClock]
Files == [c : 0..MaxPublish, time : 0..MaxClock, begun : 0..MaxClock, marked : BOOLEAN]
Windows == {a..b : a, b \in 0..MaxClock}

\* What a theorem about them needs.
Parameters ==
    /\ Nobody \notin Runs /\ None \notin Files \cup Windows
    /\ MaxPublish \in Nat /\ MaxClock \in Nat \ {0}
    /\ Guess \in Names /\ NameOf \in [0..MaxPublish -> Names]

VARIABLES
    server,      \* what the url serves: [c |-> content, date |-> since when]
    clock,
    dir,         \* the cache: per name a file or None
    holder,      \* who has the cask's lock
    staged,      \* what is installed: [c, quarantined, wanted, swapped] or None
    recorded,    \* the content whose checksum is recorded, or None
    run,
    commands,    \* how many were started
    trouble

vars == <<server, clock, dir, holder, staged, recorded, run, commands, trouble>>

\* What a run still needs; same: the attribute was passed on.
Idle == [at |-> "idle", cmd |-> None, phase |-> "get", bare |-> FALSE, was |-> None, path |-> None,
         since |-> None, asked |-> None, from |-> 0, window |-> None, new |-> None, same |-> FALSE,
         swapped |-> FALSE]
At(r, place) == run[r].at = place
Goes(r, record) == run' = [run EXCEPT ![r] = record]
To(r, place) == Goes(r, [run[r] EXCEPT !.at = place])
Trouble == trouble < MaxTrouble /\ trouble' = trouble + 1
Existing == {n \in Names : dir[n] # None}
There(r) == dir[run[r].path] # None

-------------------------------------------------------------------------------
(* Commands *)

\* no_quarantine of a check's own download and of what the user asked for.
Bare(r) == run[r].phase = "check" \/ run[r].bare
Upgrades(r) == run[r].cmd = "upgrade"

\* upgrade_casks checks each named cask greedily before it locks any;
\* fetch_cask_entry --force first removes the copy it would find.
Started(cmd, force) ==
    CASE cmd = "upgrade" -> "check"
      [] cmd \in {"install", "reinstall"} -> "lock"
      [] cmd = "fetch" -> IF force THEN "drop" ELSE "look"
Start(r) ==
    /\ At(r, "idle") /\ commands < MaxCommands /\ commands' = commands + 1
    /\ \E cmd \in {"upgrade", "install", "reinstall", "fetch"}, bare \in BOOLEAN, force \in BOOLEAN :
         /\ cmd = "upgrade" => staged # None
         /\ force => cmd = "fetch"
         /\ Goes(r, [Idle EXCEPT !.at = Started(cmd, force), !.cmd = cmd, !.bare = bare])
    /\ UNCHANGED <<server, clock, dir, holder, staged, recorded, trouble>>

\* lock_cask waits for nobody.
LockOk(r) ==
    /\ At(r, "lock") /\ holder = Nobody /\ holder' = r
    /\ To(r, IF run[r].cmd = "install" /\ staged # None THEN "check" ELSE "look")
    /\ UNCHANGED <<server, clock, dir, staged, recorded, commands, trouble>>
LockBusy(r) ==
    /\ At(r, "lock") /\ holder # Nobody /\ Goes(r, Idle)
    /\ UNCHANGED <<server, clock, dir, holder, staged, recorded, commands, trouble>>
End(r) ==
    /\ Goes(r, Idle)
    /\ holder' = IF holder = r THEN Nobody ELSE holder

-------------------------------------------------------------------------------
(* The check *)

Changed(r) == Goes(r, [Idle EXCEPT !.at = "outdated", !.cmd = run[r].cmd, !.bare = run[r].bare])
\* outdated_download_sha: without a record the cask counts as outdated.
ReadRecord(r) ==
    /\ At(r, "check")
    /\ IF recorded = None THEN Changed(r)
       ELSE Goes(r, [run[r] EXCEPT !.at = "look", !.phase = "check", !.was = recorded])
    /\ UNCHANGED <<server, clock, dir, holder, staged, recorded, commands, trouble>>
Compare(r) ==
    /\ At(r, "use") /\ run[r].phase = "check"
    /\ LET same == There(r) /\ dir[run[r].path].c = run[r].was
       IN IF same THEN To(r, "told") ELSE Changed(r)
    /\ UNCHANGED <<server, clock, dir, holder, staged, recorded, commands, trouble>>
\* "the downloaded artifact has not changed".
Told(r) ==
    /\ At(r, "told") /\ End(r)
    /\ UNCHANGED <<server, clock, dir, staged, recorded, commands, trouble>>
\* is_outdated was true: upgrade_casks locks now, install_cask_entry has locked.
Outdated(r) ==
    /\ At(r, "outdated")
    /\ To(r, IF Upgrades(r) THEN "lock" ELSE "look")
    /\ UNCHANGED <<server, clock, dir, holder, staged, recorded, commands, trouble>>
\* A download failed: a check calls that outdated, a command ends.
Fail(r) ==
    IF run[r].phase = "check" THEN Changed(r) /\ UNCHANGED holder ELSE End(r)

-------------------------------------------------------------------------------
(* download_cask *)

\* The only file of the url, whatever it is called.
CachedLocation(name) == IF Cardinality(Existing) = 1 THEN CHOOSE n \in Existing : TRUE ELSE name

\* There is a file at the path; whether it is to be quarantined is seen next.
Have(r, record) == Goes(r, [record EXCEPT !.at = IF Bare(r) THEN "use" ELSE "mark", !.since = None])
\* A file another run is using is replaced or removed under it.
Swapped(r, path) ==
    [o \in Runs |-> IF o # r /\ run[o].path = path /\ run[o].at \in {"use", "propagate", "record"}
                    THEN [run[o] EXCEPT !.swapped = TRUE] ELSE run[o]]

Drop(r) ==
    /\ At(r, "drop")
    /\ LET path == CachedLocation(Guess)
       IN dir' = [dir EXCEPT ![path] = None] /\ run' = [Swapped(r, path) EXCEPT ![r].at = "look"]
    /\ UNCHANGED <<server, clock, holder, staged, recorded, commands, trouble>>
\* Mutant: the header carries the time of the request.
LookSinceNow(r) ==
    LET path == CachedLocation(Guess)
        file == dir[path]
    IN /\ At(r, "look")
       /\ IF file # None /\ run[r].phase = "get"
          THEN Have(r, [run[r] EXCEPT !.path = path])
          ELSE Goes(r, [run[r] EXCEPT !.at = "ask", !.path = path, !.since = IF file = None THEN None ELSE clock])
       /\ UNCHANGED <<server, clock, dir, holder, staged, recorded, commands, trouble>>
\* Mutant: only what was downloaded just now is quarantined.
LookUnmarked(r) ==
    LET path == CachedLocation(Guess)
        file == dir[path]
    IN /\ At(r, "look")
       /\ Goes(r, [run[r] EXCEPT
                    !.at = IF file # None /\ run[r].phase = "get" THEN "use" ELSE "ask",
                    !.path = path, !.since = IF file = None THEN None ELSE file.time])
       /\ UNCHANGED <<server, clock, dir, holder, staged, recorded, commands, trouble>>
\* A check revalidates what is there, everybody else takes it.
Look(r) ==
    LET path == CachedLocation(Guess)
        file == dir[path]
    IN /\ At(r, "look")
       /\ IF file # None /\ run[r].phase = "get"
          THEN Have(r, [run[r] EXCEPT !.path = path])
          ELSE Goes(r, [run[r] EXCEPT !.at = "ask", !.path = path,
                                      !.since = IF file = None THEN None ELSE file.time])
       /\ UNCHANGED <<server, clock, dir, holder, staged, recorded, commands, trouble>>

\* No connection, or a status that is neither success nor 304.
Refused(r, connected) ==
    /\ At(r, "ask") /\ Trouble
    /\ IF There(r) /\ (~connected \/ run[r].phase = "check") THEN Have(r, run[r]) /\ UNCHANGED holder ELSE Fail(r)
    /\ UNCHANGED <<server, clock, dir, staged, recorded, commands>>
\* If-Modified-Since, in seconds, is the local file's time.
NotModified(r) ==
    /\ At(r, "ask") /\ run[r].since # None /\ server.date <= run[r].since
    /\ IF There(r)
       THEN /\ Have(r, [run[r] EXCEPT !.asked = server,
                                      !.window = dir[run[r].path].begun .. dir[run[r].path].time])
            /\ UNCHANGED holder
       ELSE Fail(r)
    /\ UNCHANGED <<server, clock, dir, staged, recorded, commands, trouble>>
\* The container comes; its place is looked for when its name is known.
Answered(r) ==
    /\ At(r, "ask")
    /\ Goes(r, [run[r] EXCEPT !.at = "stream", !.since = None, !.asked = server, !.from = clock,
                              !.path = CachedLocation(NameOf[server.c])])
    /\ UNCHANGED <<server, clock, dir, holder, staged, recorded, commands, trouble>>
Arrive(r) ==
    /\ At(r, "stream")
    /\ dir' = [dir EXCEPT ![run[r].path] =
                [c |-> run[r].asked.c, time |-> clock, begun |-> run[r].from, marked |-> FALSE]]
    /\ run' = [Swapped(r, run[r].path) EXCEPT ![r].at = IF Bare(r) THEN "use" ELSE "mark", ![r].from = 0,
                                              ![r].asked = IF run[r].phase = "check" THEN @ ELSE None]
    /\ UNCHANGED <<server, clock, holder, staged, recorded, commands, trouble>>
BreakOff(r) ==
    /\ At(r, "stream") /\ Trouble /\ Fail(r)
    /\ UNCHANGED <<server, clock, dir, staged, recorded, commands>>

\* quarantine::cask: LaunchServices records the file as a web download.
Mark(r) ==
    /\ At(r, "mark")
    /\ IF There(r) THEN dir' = [dir EXCEPT ![run[r].path].marked = TRUE] /\ To(r, "use") /\ UNCHANGED holder
       ELSE Fail(r) /\ UNCHANGED dir
    /\ UNCHANGED <<server, clock, staged, recorded, commands, trouble>>

-------------------------------------------------------------------------------
(* Installing *)

Fetched(r) ==
    /\ At(r, "use") /\ run[r].cmd = "fetch" /\ End(r)
    /\ UNCHANGED <<server, clock, dir, staged, recorded, commands, trouble>>
Installs(r) == At(r, "use") /\ run[r].phase = "get" /\ run[r].cmd # "fetch"
Unpack(r) ==
    /\ Installs(r)
    /\ IF There(r)
       THEN /\ Goes(r, [run[r] EXCEPT !.at = "propagate", !.new = dir[run[r].path].c]) /\ UNCHANGED holder
       ELSE Fail(r)
    /\ UNCHANGED <<server, clock, dir, staged, recorded, commands, trouble>>
\* quarantine::propagate: a download without the attribute has nothing to pass on.
Propagate(r) ==
    /\ At(r, "propagate")
    /\ Goes(r, [run[r] EXCEPT !.at = "record", !.same = There(r) /\ dir[run[r].path].marked])
    /\ UNCHANGED <<server, clock, dir, holder, staged, recorded, commands, trouble>>
\* Mutant: a record that is there is kept.
RecordOnce(r) ==
    /\ At(r, "record")
    /\ IF There(r)
       THEN /\ staged' = [c |-> run[r].new, quarantined |-> run[r].same, wanted |-> ~run[r].bare,
                          swapped |-> run[r].swapped]
            /\ recorded' = IF recorded = None THEN dir[run[r].path].c ELSE recorded
       ELSE UNCHANGED <<staged, recorded>>
    /\ End(r)
    /\ UNCHANGED <<server, clock, dir, commands, trouble>>
\* write_install_records: the checksum of what is now under the name.
Record(r) ==
    /\ At(r, "record")
    /\ IF There(r)
       THEN /\ staged' = [c |-> run[r].new, quarantined |-> run[r].same, wanted |-> ~run[r].bare,
                          swapped |-> run[r].swapped]
            /\ recorded' = dir[run[r].path].c
       ELSE UNCHANGED <<staged, recorded>>
    /\ End(r)
    /\ UNCHANGED <<server, clock, dir, commands, trouble>>

-------------------------------------------------------------------------------
(* Around them *)

Publish ==
    /\ server.c < MaxPublish /\ server' = [c |-> server.c + 1, date |-> clock]
    /\ UNCHANGED <<clock, dir, holder, staged, recorded, run, commands, trouble>>
Tick ==
    /\ clock < MaxClock /\ clock' = clock + 1
    /\ UNCHANGED <<server, dir, holder, staged, recorded, run, commands, trouble>>
\* cleanup_cache.
Sweep ==
    /\ Trouble
    /\ \E n \in Existing : dir' = [dir EXCEPT ![n] = None] /\ run' = Swapped(Nobody, n)
    /\ UNCHANGED <<server, clock, holder, staged, recorded, commands>>

Init ==
    /\ server = [c |-> 0, date |-> 0] /\ clock = 1
    /\ dir = [n \in Names |-> None]
    /\ holder = Nobody /\ staged = None /\ recorded = None /\ commands = 0 /\ trouble = 0
    /\ run = [r \in Runs |-> Idle]

Step(r) ==
    \/ Start(r) \/ LockOk(r) \/ LockBusy(r)
    \/ ReadRecord(r) \/ Compare(r) \/ Told(r) \/ Outdated(r)
    \/ Drop(r) \/ Look(r) \/ \E connected \in BOOLEAN : Refused(r, connected)
    \/ NotModified(r) \/ Answered(r) \/ Arrive(r) \/ BreakOff(r) \/ Mark(r)
    \/ Fetched(r) \/ Unpack(r) \/ Propagate(r) \/ Record(r)
Next == (\E r \in Runs : Step(r)) \/ Publish \/ Tick \/ Sweep
Spec == Init /\ [][Next]_vars

-------------------------------------------------------------------------------
\* "recorded when the cask was installed" (outdated_download_sha): the checksum
\* on record is that of what is staged, unless the download was replaced
\* between its unpacking and the record.
RecordIsWhatIsStaged == holder = Nobody /\ staged # None /\ ~staged.swapped => recorded = staged.c

\* "a container that is staged is always one macOS has recorded as a web
\* download" (download_cask), unless it was replaced after it was recorded.
StagedIsQuarantined == staged # None /\ staged.wanted /\ ~staged.swapped => staged.quarantined
\* The same without the exception, which a concurrent `upgrade` refutes.
AlwaysQuarantined == staged # None /\ staged.wanted => staged.quarantined
\* --no-quarantine: "nothing is propagated onto the staged files either"
\* (DownloadOptions), which an earlier `fetch` of the container refutes.
BareIsNotQuarantined == staged # None /\ ~staged.wanted /\ ~staged.swapped => ~staged.quarantined

\* "the only way to notice that the container changed is to ask the server"
\* (refetch): a check that asked and finds nothing new is right, or misses a
\* publication of the seconds in which the cached copy was under way.
ChangeIsNoticed ==
    \A r \in Runs : At(r, "told") /\ run[r].asked # None /\ ~run[r].swapped =>
        run[r].asked.c = run[r].was \/ (run[r].window # None /\ run[r].asked.date \in run[r].window)

LatestIsKnown == RecordIsWhatIsStaged /\ StagedIsQuarantined /\ ChangeIsNoticed
===============================================================================
