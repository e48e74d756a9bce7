-------------------------------- MODULE ApiStore --------------------------------
(***************************************************************************)
(* The API packages file and the index built from it: the conditional      *)
(* download of api/fetch, Index::load, rebuild and build of api/index, and *)
(* the order update.rs calls them in.  Several runs share the cache        *)
(* without a lock.                                                         *)
(*                                                                         *)
(* Time is a clock that advances at every publication, write and touch, so *)
(* that a modification time names what happened then; a payload is the     *)
(* number of its publication.  The fingerprint of the file, its size and   *)
(* its modification time in nanoseconds, is that time.  The dates that the *)
(* server and http_date compare are whole seconds: a tick stays in its     *)
(* second or begins another, a publication is dated with the time its      *)
(* second began, and a time is in that second or a later one if it is not  *)
(* before it.                                                              *)
(***************************************************************************)
EXTENDS Naturals, Sequences, FiniteSets

CONSTANTS
    Runs,           \* processes that use the API
    MaxPublish,     \* bound: payloads the server publishes
    MaxClock        \* bound: publications, writes and touches

VARIABLES
    published,      \* the second of each publication; the last is the newest
    clock, second,  \* and when the second it is in began
    file,           \* the cached packages file: its payload and modification time
    indexes,        \* index files: the fingerprint in the name and the payload
    marker,         \* .last_auto_update has been written
    proc,           \* what each run does
    overtaken       \* payloads that came too late for an answer, or too early for a date

vars == <<published, clock, second, file, indexes, marker, proc, overtaken>>

NoFile == [payload |-> 0, mtime |-> 0]
Newest == Len(published)
Idle == [at |-> "idle", auto |-> FALSE, phase |-> "none", since |-> 0, payload |-> 0, fp |-> 0, outcome |-> "none"]
At(p, place) == proc[p].at = place
Goes(p, r) == proc' = [proc EXCEPT ![p] = r]
To(p, place) == Goes(p, [proc[p] EXCEPT !.at = place])
\* Which second it is matters as long as something may be published.
Tick ==
    /\ clock < MaxClock /\ clock' = clock + 1
    /\ second' \in IF Newest < MaxPublish THEN {second, clock'} ELSE {clock'}
Store == <<file, indexes, marker>>

-------------------------------------------------------------------------------
(* The server *)

Publish ==
    /\ Newest < MaxPublish /\ Tick
    /\ published' = Append(published, second')
    /\ overtaken' = IF \/ \E p \in Runs : proc[p].at \in {"replace", "touch"}
                       \/ file # NoFile /\ second' <= file.mtime
                    THEN overtaken \cup {Newest + 1} ELSE overtaken
    /\ UNCHANGED <<Store, proc>>

World == <<published, clock, second, overtaken>>

-------------------------------------------------------------------------------
(* A run.  update loads the index for its snapshot, downloads, and rebuilds  *)
(* or loads the index again; any other command only loads it.               *)

Start(p) ==
    /\ At(p, "idle")
    /\ \E command \in {"update", "auto", "load"} :
         Goes(p, [Idle EXCEPT !.at = "stat", !.auto = command = "auto",
                              !.phase = IF command = "load" THEN "use" ELSE "before"])
    /\ UNCHANGED <<World, Store>>

\* What a run does with the index it has opened, or without one: the snapshot
\* may be missing.
Loaded(p) == Goes(p, [proc[p] EXCEPT !.at = IF proc[p].phase = "before" THEN "ask" ELSE "mark", !.fp = 0, !.payload = 0])
Fails(p) == Goes(p, Idle)
LoadFails(p) == IF proc[p].phase = "before" THEN Loaded(p) ELSE Fails(p)

\* Index::load: without a file there is nothing to load, otherwise the index
\* named for its fingerprint is used when it is there and can be opened.
Named(fp) == {i \in indexes : i.fp = fp}
Stat(p) ==
    /\ At(p, "stat")
    /\ IF file = NoFile
       THEN LoadFails(p)
       ELSE Goes(p, [proc[p] EXCEPT !.fp = file.mtime,
                                    !.at = IF proc[p].outcome = "updated" THEN "read" ELSE "open"])
    /\ UNCHANGED <<World, Store>>

Open(p) ==
    /\ At(p, "open")
    /\ IF Named(proc[p].fp) = {} THEN To(p, "read")
       ELSE Loaded(p)
    /\ UNCHANGED <<World, Store>>

\* build reads the file again, which may have been replaced or removed; its
\* signature is verified once more.
Read(p) ==
    /\ At(p, "read")
    /\ IF file = NoFile THEN LoadFails(p)
       ELSE Goes(p, [proc[p] EXCEPT !.at = "prune", !.payload = file.payload])
    /\ UNCHANGED <<World, Store>>

\* prune_old_indexes: every index of the tag but the one about to be written.
Prune(p) ==
    /\ At(p, "prune")
    /\ indexes' = Named(proc[p].fp)
    /\ To(p, "write")
    /\ UNCHANGED <<World, file, marker>>

\* Mutant: the index is named for what the file is when it is written.
WriteIndexLate(p) ==
    /\ At(p, "write")
    /\ indexes' = {i \in indexes : i.fp # file.mtime} \cup {[fp |-> file.mtime, payload |-> proc[p].payload]}
    /\ Goes(p, [proc[p] EXCEPT !.at = "reopen", !.payload = 0])
    /\ UNCHANGED <<World, file, marker>>
\* atomic_write: one index of that name.
WriteIndex(p) ==
    /\ At(p, "write")
    /\ indexes' = (indexes \ Named(proc[p].fp)) \cup {[fp |-> proc[p].fp, payload |-> proc[p].payload]}
    /\ Goes(p, [proc[p] EXCEPT !.at = "reopen", !.payload = 0])
    /\ UNCHANGED <<World, file, marker>>

\* Another run's prune may have removed it already.
Reopen(p) ==
    /\ At(p, "reopen")
    /\ IF Named(proc[p].fp) = {} THEN LoadFails(p)
       ELSE Loaded(p)
    /\ UNCHANGED <<World, Store>>

\* skip_download: only an auto-update accepts a young file; anything else asks
\* with the modification time of what there is.
Ask(p) ==
    /\ At(p, "ask")
    /\ \/ proc[p].auto /\ file # NoFile /\ Goes(p, [proc[p] EXCEPT !.at = "stat", !.auto = FALSE, !.phase = "after", !.outcome = "unchanged"])
       \/ Goes(p, [proc[p] EXCEPT !.at = "answer", !.auto = FALSE, !.since = file.mtime])
    /\ UNCHANGED <<World, Store>>

\* 304, or the newest payload, or one whose signature does not verify, or none.
\* The date sent is the second of the modification time.
NotModified(p) == proc[p].since > 0 /\ published[Newest] <= proc[p].since
Answer(p) ==
    /\ At(p, "answer")
    /\ \/ NotModified(p) /\ Goes(p, [proc[p] EXCEPT !.at = "touch", !.since = 0, !.outcome = "unchanged"])
       \/ ~NotModified(p) /\ Goes(p, [proc[p] EXCEPT !.at = "replace", !.since = 0, !.payload = Newest])
    /\ UNCHANGED <<World, Store>>

\* "Potential MITM attempt detected": the cached file goes.
Forged(p) ==
    /\ At(p, "answer")
    /\ file' = NoFile
    /\ Fails(p)
    /\ UNCHANGED <<World, indexes, marker>>

\* Mutant: falling back to the cached version counts as a revalidation.
NoAnswerTouches(p) ==
    /\ At(p, "answer")
    /\ IF file = NoFile THEN Fails(p) /\ UNCHANGED <<file, clock, second>>
       ELSE /\ Tick /\ file' = [file EXCEPT !.mtime = clock']
            /\ Goes(p, [proc[p] EXCEPT !.at = "stat", !.since = 0, !.phase = "after", !.outcome = "offline"])
    /\ UNCHANGED <<published, overtaken, indexes, marker>>
NoAnswer(p) ==
    /\ At(p, "answer")
    /\ IF file = NoFile THEN Fails(p)
       ELSE Goes(p, [proc[p] EXCEPT !.at = "stat", !.since = 0, !.phase = "after", !.outcome = "offline"])
    /\ UNCHANGED <<World, Store>>

\* atomic_replace puts the body in place of whatever is there by now.
Replace(p) ==
    /\ At(p, "replace") /\ Tick
    /\ file' = [payload |-> proc[p].payload, mtime |-> clock']
    /\ Goes(p, [proc[p] EXCEPT !.at = "touch", !.payload = 0, !.outcome = "updated"])
    /\ UNCHANGED <<published, overtaken, indexes, marker>>

\* touch_now, of whatever is there by now.
Touch(p) ==
    /\ At(p, "touch") /\ Tick
    /\ file' = IF file = NoFile THEN file ELSE [file EXCEPT !.mtime = clock']
    /\ Goes(p, [proc[p] EXCEPT !.at = "stat", !.phase = "after"])
    /\ UNCHANGED <<published, overtaken, indexes, marker>>

\* update ends with the marker auto_update_if_needed goes by, also when there was
\* no answer; a command that only loads writes nothing.
Mark(p) ==
    /\ At(p, "mark")
    /\ marker' = (marker \/ proc[p].phase = "after")
    /\ Goes(p, Idle)
    /\ UNCHANGED <<World, file, indexes>>

Kill(p) ==
    /\ proc[p].at # "idle"
    /\ Goes(p, Idle)
    /\ UNCHANGED <<World, Store>>

-------------------------------------------------------------------------------
(* Specification *)

Init ==
    /\ published = <<1>> /\ clock = 1 /\ second = 1
    /\ file = NoFile /\ indexes = {} /\ marker = FALSE
    /\ proc = [p \in Runs |-> Idle]
    /\ overtaken = {}

Next ==
    \/ Publish
    \/ \E p \in Runs : \/ Start(p) \/ Stat(p) \/ Open(p) \/ Read(p) \/ Prune(p) \/ WriteIndex(p) \/ Reopen(p)
                       \/ Ask(p) \/ Answer(p) \/ Forged(p) \/ NoAnswer(p) \/ Replace(p) \/ Touch(p)
                       \/ Mark(p) \/ Kill(p)

Spec == Init /\ [][Next]_vars

-------------------------------------------------------------------------------
(* Properties *)

\* Payloads are published ones and there is at most one index of a name.
TypeOK ==
    /\ file.payload \in 0..Newest /\ file.mtime \in 0..clock
    /\ \A i \in indexes : i.payload \in 1..Newest /\ Named(i.fp) = {i}
    /\ marker \in BOOLEAN
    /\ \A p \in Runs : proc[p].outcome \in {"none", "unchanged", "updated", "offline"}

\* Index::load trusts an index because of its name: the index named for the
\* file as it is was made of the payload that is in the file, although build
\* reads the file after it took the fingerprint, and others replace and touch
\* the file meanwhile.
IndexIsOfItsFile == \A i \in indexes : i.fp = file.mtime => i.payload = file.payload

\* A cached file that is older than the newest payload and will be taken for
\* current (If-Modified-Since) exists only if that payload was published
\* between an answer and the touch that followed it, or in the second in which
\* the file there was last written or touched; a check that failed, a late
\* answer or a run that was killed never makes a stale file look current.
MissedOnlyIfOvertaken ==
    file # NoFile /\ file.payload < Newest /\ published[Newest] <= file.mtime
    => Newest \in overtaken

=================================================================================
