------------------------------- MODULE Downloads -------------------------------
(***************************************************************************)
(* One file of the shared download cache: a bottle blob or a manifest      *)
(* (bottle/fetch), or the container of a cask (cask/download), with the    *)
(* sweep of cleanup_cache.                                                 *)
(*                                                                         *)
(* A file is an inode that names point at: the final name, `.incomplete`   *)
(* beside it and a symlink that makes it referenced.  Its content is the   *)
(* state of each of its chunks, so that two runs that write one file       *)
(* through their own descriptors, a truncation under a writer and a rename *)
(* under another run are what they are on a disk.                          *)
(***************************************************************************)
EXTENDS Naturals, FiniteSets, FiniteSetsExt

CONSTANTS
    Fetchers,   \* runs that download
    Kinds,      \* what the file is, of {"blob", "manifest", "cask", "nocheck"}
    Chunks,     \* a range 1..n: what a file consists of
    Retries,    \* curl_retries
    MaxTrouble  \* bound: refused requests, broken reads, wrong data, kills

\* What a theorem about them needs.
Parameters ==
    /\ IsFiniteSet(Fetchers)
    /\ Kinds \subseteq {"blob", "manifest", "cask", "nocheck"}
    /\ IsFiniteSet(Chunks) /\ Chunks = 1..Cardinality(Chunks)
    /\ Retries \in Nat /\ MaxTrouble \in Nat

VARIABLES
    kind,       \* of the file: it never changes
    path, inc,  \* the inodes at the final name and at `.incomplete`
    link,       \* a symlink in the cache points at the final name
    content,    \* per inode: each chunk is "hole", "good" or "bad"
    run,        \* what each fetcher does
    sweep,      \* what cleanup_cache is about to remove
    locked,     \* every fetcher is an install and holds the name's lock
    trouble,    \* requests, reads, data and processes that failed
    harm        \* what has happened beyond a refused request

vars == <<kind, path, inc, link, content, run, sweep, locked, trouble, harm>>

NoFile == 0
\* Whoever creates a file needs one beside the final one and those of the others.
Inodes == 1..(Cardinality(Fetchers) + 1)
Empty == [c \in Chunks |-> "hole"]
Whole(i) == \A c \in Chunks : content[i][c] = "good"
Unused(i) == i \notin {path, inc} /\ \A f \in Fetchers : i # run[f].fd
Fresh == Min({i \in Inodes : Unused(i)})
IsCask == kind \in {"cask", "nocheck"}

Idle == [at |-> "idle", fd |-> NoFile, next |-> 1, ok |-> TRUE, left |-> 0, refresh |-> FALSE]
At(f, place) == run[f].at = place
Goes(f, r) == run' = [run EXCEPT ![f] = r]
\* What the run knew so far is not needed any more.
To(f, place) == Goes(f, [Idle EXCEPT !.at = place])
Rest == <<kind, sweep, locked>>
Calm == UNCHANGED <<trouble, harm>>
Trouble(what) ==
    /\ trouble < MaxTrouble /\ trouble' = trouble + 1
    /\ harm' = harm \cup what

-------------------------------------------------------------------------------
(* A fetcher *)

\* A run wants the file; refresh is the revalidation of a :latest cask.
\* Installs of one name exclude each other, `fetch` takes no lock.
Start(f) ==
    /\ At(f, "idle")
    /\ locked => \A g \in Fetchers : At(g, "idle")
    /\ \E refresh \in {FALSE, kind = "nocheck"} :
         Goes(f, [Idle EXCEPT !.at = "check", !.left = IF IsCask THEN 0 ELSE Retries, !.refresh = refresh])
    /\ UNCHANGED <<path, inc, link, content, Rest>> /\ Calm

\* fetch_blob compares the digest of what is there, fetch_manifest parses it,
\* and a cask container is trusted until verify_checksum.
Reusable == path # NoFile /\ (~IsCask => Whole(path))
Check(f) ==
    /\ At(f, "check")
    /\ IF Reusable /\ ~run[f].refresh THEN To(f, "link") ELSE Goes(f, [run[f] EXCEPT !.at = "request"])
    /\ UNCHANGED <<path, inc, link, content, Rest>> /\ Calm

\* download_blob removes what an earlier attempt left before each request and
\* after the last.
Leftover == IF kind = "blob" THEN NoFile ELSE inc

\* What failed is tried again; a cask is not.
Failed(r) ==
    IF r.left > 0 THEN [Idle EXCEPT !.at = "request", !.left = r.left - 1]
    ELSE [Idle EXCEPT !.at = "giveup"]

\* A cask whose server cannot be reached, or that has not changed there (304),
\* answers from the cache when it can; any other refusal is a failure unless
\* this is a revalidation.
Request(f) ==
    LET r == run[f]
    IN /\ At(f, "request")
       /\ inc' = Leftover
       /\ \/ Goes(f, [r EXCEPT !.at = "create", !.refresh = FALSE]) /\ Calm
          \/ r.refresh /\ path # NoFile /\ To(f, "link") /\ Calm
          \/ IsCask /\ path # NoFile /\ To(f, "link") /\ Trouble({})
          \/ ~(r.refresh /\ path # NoFile) /\ Goes(f, Failed(r)) /\ Trouble({})
       /\ UNCHANGED <<path, link, content, Rest>>

\* File::create truncates what another run has there, and shares it.
Truncated(f, i) ==
    /\ content' = [j \in Inodes |-> IF j = i \/ Unused(j) THEN Empty ELSE content[j]]
    /\ Goes(f, [run[f] EXCEPT !.at = "write", !.fd = i, !.next = 1, !.ok = TRUE])
\* Mutant: a file that has the final name is written in place.
CreateInPlace(f) ==
    LET i == IF path # NoFile THEN path ELSE IF inc = NoFile THEN Fresh ELSE inc
    IN /\ At(f, "create")
       /\ inc' = i
       /\ Truncated(f, i)
       /\ UNCHANGED <<path, link, Rest>> /\ Calm
Create(f) ==
    LET i == IF inc = NoFile THEN Fresh ELSE inc
    IN /\ At(f, "create")
       /\ inc' = i
       /\ Truncated(f, i)
       /\ UNCHANGED <<path, link, Rest>> /\ Calm

\* Mutant: the file is opened for appending.
WriteAppended(f) ==
    LET r == run[f]
        holes == {c \in Chunks : content[r.fd][c] = "hole"}
        Appended(data) ==
            IF holes = {} THEN content
            ELSE [content EXCEPT ![r.fd][Min(holes)] = IF Min(holes) = r.next THEN data ELSE "bad"]
    IN /\ At(f, "write") /\ r.next \in Chunks
       /\ \E data \in {"good", "bad"} :
            /\ content' = Appended(data)
            /\ Goes(f, [r EXCEPT !.next = @ + 1, !.ok = @ /\ data = "good"])
            /\ IF data = "bad" THEN Trouble({"data"}) ELSE Calm
       /\ UNCHANGED <<path, inc, link, Rest>>
\* The next chunk goes to the fetcher's own place in the file, wherever that is
\* by now; the digest is of what was received.
Write(f) ==
    LET r == run[f]
    IN /\ At(f, "write") /\ r.next \in Chunks
       /\ \E data \in {"good", "bad"} :
            /\ content' = [content EXCEPT ![r.fd][r.next] = data]
            /\ Goes(f, [r EXCEPT !.next = @ + 1, !.ok = @ /\ data = "good"])
            /\ IF data = "bad" THEN Trouble({"data"}) ELSE Calm
       /\ UNCHANGED <<path, inc, link, Rest>>

\* The answer breaks off, or the disk is full; a manifest is written only when
\* all of it has been read.  Only a cask's `.incomplete` goes at once, and only
\* if it is the read that failed.
BreakOff(f) ==
    /\ At(f, "write") /\ kind # "manifest"
    /\ Goes(f, Failed(run[f]))
    /\ IF IsCask THEN inc' \in {NoFile, inc} ELSE inc' = inc
    /\ Trouble({"data"})
    /\ UNCHANGED <<path, link, content, Rest>>

\* Mutant: the digest is compared by the caller only.
MismatchIgnored(f) == FALSE
\* A blob's digest is looked at before the rename, and another attempt made.
Mismatch(f) == kind = "blob" /\ ~run[f].ok
Retry(f) ==
    /\ At(f, "write") /\ run[f].next \notin Chunks /\ Mismatch(f)
    /\ Goes(f, Failed(run[f]))
    /\ UNCHANGED <<path, inc, link, content, Rest>> /\ Calm

\* A rename whose file is gone is an error at once.
Rename(f) ==
    /\ At(f, "write") /\ run[f].next \notin Chunks /\ ~Mismatch(f)
    /\ path' = IF inc = NoFile THEN path ELSE inc
    /\ inc' = NoFile
    /\ To(f, CASE inc = NoFile -> "failed" [] inc # NoFile /\ kind = "manifest" -> "verify" [] OTHER -> "link")
    /\ UNCHANGED <<link, content, Rest>> /\ Calm

\* The manifest is parsed, the container's checksum compared; without a
\* checksum everything matches.
Matches == path # NoFile /\ (kind = "nocheck" \/ Whole(path))
\* Mutant: what does not match is reported and stays.
VerifyReports(f) ==
    /\ At(f, "verify")
    /\ To(f, CASE ~Matches -> "failed" [] Matches /\ kind = "manifest" -> "link" [] OTHER -> "done")
    /\ UNCHANGED <<path, inc, link, content, Rest>> /\ Calm
Verify(f) ==
    /\ At(f, "verify")
    /\ path' = IF Matches THEN path ELSE NoFile
    /\ To(f, CASE ~Matches -> "failed" [] Matches /\ kind = "manifest" -> "link" [] OTHER -> "done")
    /\ UNCHANGED <<inc, link, content, Rest>> /\ Calm

\* link_into_cache, after which fetch_manifest parses once more; the symlink of
\* download_cask, which comes before the checksum.  Between the two the container
\* is marked as a web download, and when that fails it stays as it is (so does a
\* container that cannot be read for its checksum).
Link(f) ==
    /\ At(f, "link")
    /\ link' = TRUE
    /\ \/ /\ To(f, CASE IsCask -> "verify" [] kind = "manifest" /\ ~Reusable -> "failed" [] OTHER -> "done")
          /\ Calm
       \/ IsCask /\ To(f, "unmarked") /\ Trouble({})
    /\ UNCHANGED <<path, inc, content, Rest>>

\* Out of attempts.
GiveUp(f) ==
    /\ At(f, "giveup")
    /\ inc' = Leftover
    /\ To(f, "failed")
    /\ UNCHANGED <<path, link, content, Rest>> /\ Calm

Return(f) ==
    /\ run[f].at \in {"done", "failed", "unmarked"}
    /\ To(f, "idle")
    /\ UNCHANGED <<path, inc, link, content, Rest>> /\ Calm

Kill(f) ==
    /\ run[f].at \notin {"idle", "done", "failed", "unmarked"}
    /\ To(f, "idle")
    /\ Trouble({"kill"})
    /\ UNCHANGED <<path, inc, link, content, Rest>>

-------------------------------------------------------------------------------
(* cleanup_cache *)

\* What nothing in the cache references is listed first and removed later.
Orphans == {name \in {"path", "inc"} : IF name = "path" THEN path # NoFile /\ ~link ELSE inc # NoFile}
SweepList ==
    /\ sweep = {} /\ Orphans # {}
    /\ sweep' = Orphans
    /\ UNCHANGED <<kind, path, inc, link, content, run, locked>> /\ Calm
SweepRemove ==
    /\ \E name \in sweep :
         /\ sweep' = sweep \ {name}
         /\ path' = IF name = "path" THEN NoFile ELSE path
         /\ inc' = IF name = "inc" THEN NoFile ELSE inc
    /\ UNCHANGED <<kind, link, content, run, locked>> /\ Calm
\* A link that is old or stale goes with the file it points at.
SweepStale ==
    /\ link /\ link' = FALSE
    /\ path' = NoFile
    /\ UNCHANGED <<kind, inc, content, run, sweep, locked>> /\ Calm

-------------------------------------------------------------------------------
(* Specification *)

Init ==
    /\ kind \in Kinds
    /\ path = NoFile /\ inc = NoFile /\ link = FALSE
    /\ content = [i \in Inodes |-> Empty]
    /\ run = [f \in Fetchers |-> Idle]
    /\ sweep = {} /\ locked \in BOOLEAN
    /\ trouble = 0 /\ harm = {}

Next ==
    \/ \E f \in Fetchers : \/ Start(f) \/ Check(f) \/ Request(f) \/ Create(f) \/ Write(f) \/ BreakOff(f)
                           \/ Retry(f) \/ Rename(f) \/ Verify(f) \/ Link(f) \/ GiveUp(f) \/ Return(f) \/ Kill(f)
    \/ SweepList \/ SweepRemove \/ SweepStale

Spec == Init /\ [][Next]_vars

-------------------------------------------------------------------------------
(* Properties *)

\* The names point at inodes and the trouble stays within its bound.
TypeOK ==
    /\ {path, inc} \subseteq Inodes \cup {NoFile}
    /\ content \in [Inodes -> [Chunks -> {"hole", "good", "bad"}]]
    /\ \A f \in Fetchers : run[f].left \in 0..Retries /\ run[f].fd \in Inodes \cup {NoFile}
    /\ trouble \in 0..MaxTrouble /\ harm \subseteq {"data", "kill"}

\* "Returns the path of the verified cached blob" (fetch_blob): as long as the
\* lock of the formula keeps a second run out, what has the final name is the
\* bottle, whatever the server sent, whoever was killed or swept.
LockedBlobIsWhole == locked /\ kind = "blob" /\ path # NoFile => Whole(path)
\* The same without the lock, when `fetch` runs beside another run.
BlobIsWhole == kind = "blob" /\ path # NoFile => Whole(path)

\* Runs that share one `.incomplete` without a lock, and a sweep beside them,
\* leave a whole file or none when they are through, as long as nothing broke
\* off, was wrong or was killed.
QuietIsWhole ==
    (\A f \in Fetchers : At(f, "idle")) /\ harm = {} /\ path # NoFile => Whole(path)

\* "A corrupt or unexpected manifest must not stay in the cache"
\* (fetch_manifest), nor a container that is not the cask's: what a run that has
\* the lock returns is the file its checksum is of, whatever a run before it left
\* unchecked when it was killed or could not mark the container as a download;
\* and when it fails for another reason, what is at the final name can be used,
\* or there is nothing.  Only a manifest that a killed run left may outlast
\* requests that are refused.
RejectedIsNotKept ==
    \A f \in Fetchers :
      /\ locked /\ kind # "nocheck" /\ path # NoFile
      /\ At(f, "done") \/ (At(f, "failed") /\ (kind = "manifest" => "kill" \notin harm))
      => Whole(path)

\* "The cached file stays in place until a complete replacement has arrived"
\* (refetch): under the lock the file of a :latest cask loses none of its
\* content to a request that fails, breaks off or is killed.
Complete(c) == \A chunk \in Chunks : c[chunk] # "hole"
KeptUntilReplacedStep ==
    locked /\ kind = "nocheck" /\ path # NoFile /\ path' # NoFile /\ Complete(content[path])
     => Complete(content'[path'])
KeptUntilReplaced == [][KeptUntilReplacedStep]_vars

=================================================================================
