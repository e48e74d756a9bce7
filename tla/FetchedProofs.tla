----------------------------- MODULE FetchedProofs -----------------------------
(***************************************************************************)
(* What holds of the parts of Sources that fetch (the download cache, the  *)
(* API files, the taps), for any number of processes: each has an          *)
(* invariant of its own, which its steps keep.  SourcesProofs puts them    *)
(* together with the other parts.                                          *)
(***************************************************************************)
EXTENDS Sources, Sequences, FiniteSetTheorems, TLAPS

-------------------------------------------------------------------------------
(* The download cache *)
BlobPlaces == {"idle", "check", "request", "create", "write", "verify", "link", "giveup", "done", "failed", "unmarked"}
Data == {"hole", "good", "bad"}
Nodes == Blob!Inodes \cup {Blob!NoFile}
BlobRun == [at : BlobPlaces, fd : Nodes, next : Nat \ {0}, ok : BOOLEAN, left : 0..Retries, refresh : BOOLEAN]

BlobTyped ==
  /\ kind \in {"blob", "manifest", "cask", "nocheck"}
  /\ path \in Nodes /\ inc \in Nodes /\ (path = inc => path = Blob!NoFile)
  /\ link \in BOOLEAN /\ locked \in BOOLEAN
  /\ content \in [Blob!Inodes -> [Chunks -> Data]]
  /\ fetch \in [Procs -> BlobRun]
  /\ sweep \subseteq {"path", "inc"}
  /\ fetchTrouble \in 0..MaxFetchTrouble /\ harm \subseteq {"data", "kill"}

(* Only who writes has a file open, and under the lock there is one run. *)
Writing(f) == fetch[f].at = "write"
OpenToWrite == \A f \in Procs : IF Writing(f) THEN fetch[f].fd \in Blob!Inodes ELSE fetch[f].fd = Blob!NoFile /\ fetch[f].ok
Exclusive == locked => \A f, g \in Procs : fetch[f].at # "idle" /\ fetch[g].at # "idle" => f = g

(* What a run that is alone has written so far. *)
Writes(f) ==
  locked /\ Writing(f) =>
    /\ inc \in {Blob!NoFile, fetch[f].fd} /\ path # fetch[f].fd
    /\ \A c \in Chunks : c < fetch[f].next =>
         content[fetch[f].fd][c] # "hole" /\ (fetch[f].ok => content[fetch[f].fd][c] = "good")

(* Beside each other and undisturbed: what is not written yet, somebody writes. *)
Covered(i) ==
  \A c \in Chunks : content[i][c] = "good" \/ \E f \in Procs : Writing(f) /\ fetch[f].fd = i /\ fetch[f].next <= c
Undisturbed ==
  harm = {} => /\ \A f \in Procs : fetch[f].ok
               /\ path # Blob!NoFile => Covered(path)
               /\ inc # Blob!NoFile => Covered(inc)

(* Where what has the final name is still to be parsed. *)
Unverified(f) == fetch[f].at = "verify"
Verified ==
  locked /\ "kill" \notin harm /\ kind = "manifest" /\ path # Blob!NoFile /\ (\A f \in Procs : ~Unverified(f))
    => Blob!Whole(path)

(* What a run that is alone knows: a file it returns is whole, and there is no *)
(* container, however an earlier run left it, once it asks the server for one. *)
Asks(f) == fetch[f].at \in {"request", "create", "write", "giveup", "failed"}
Knows(f) ==
  locked =>
    /\ fetch[f].at = "done" /\ kind # "nocheck" /\ path # Blob!NoFile => Blob!Whole(path)
    /\ kind = "cask" => (fetch[f].at = "check" => ~fetch[f].refresh) /\ (Asks(f) => path = Blob!NoFile)

BlobInv ==
  /\ BlobTyped /\ OpenToWrite /\ Exclusive
  /\ \A f \in Procs : Writes(f) /\ Knows(f)
  /\ Blob!LockedBlobIsWhole /\ Undisturbed /\ Verified

-------------------------------------------------------------------------------
(* Inodes *)

(* The instance's finite sets are those of the library. *)
LEMMA FiniteSetsAreThose ==
  /\ \A S : Blob!IsFiniteSet(S) <=> IsFiniteSet(S)
  /\ \A S : Blob!Cardinality(S) = Cardinality(S)
BY DEF Blob!IsFiniteSet, IsFiniteSet, Blob!Cardinality, Cardinality

(* The chunks of a file are numbered from 1. *)
LEMMA ChunksAreARange ==
  ASSUME Blob!Parameters
  PROVE  \E n \in Nat : Chunks = 1..n
BY FiniteSetsAreThose, FS_CardinalityType DEF Blob!Parameters

(* Whoever is past the last chunk is past every one. *)
LEMMA ChunksAreNumbers ==
  ASSUME Blob!Parameters
  PROVE  /\ \A c \in Chunks : c \in Nat
         /\ \A n \in Nat \ {0} : n \notin Chunks => \A c \in Chunks : c < n
BY ChunksAreARange

(* There is one inode more than there are runs. *)
LEMMA InodesAreNumbers ==
  ASSUME Blob!Parameters
  PROVE  /\ Cardinality(Procs) \in Nat /\ Blob!Inodes \subseteq Nat /\ Blob!NoFile \notin Blob!Inodes
         /\ IsFiniteSet(Blob!Inodes) /\ Cardinality(Blob!Inodes) = Cardinality(Procs) + 1
<1>1. Cardinality(Procs) \in Nat
  BY FiniteSetsAreThose, FS_CardinalityType DEF Blob!Parameters
<1> DEFINE n == Cardinality(Procs) + 1
<1>2. n \in Int /\ n > 0
  BY <1>1
<1>3. IsFiniteSet(1..n) /\ Cardinality(1..n) = n
  <2> HIDE DEF n
  <2> QED BY <1>2, FS_Interval
<1> QED BY <1>1, <1>3, FiniteSetsAreThose DEF Blob!Inodes, Blob!NoFile

(* A set of inodes has a least one. *)
LEMMA LeastExists ==
  ASSUME Blob!Parameters, NEW S \in SUBSET Blob!Inodes, S # {}
  PROVE  Blob!Min(S) \in S
<1> DEFINE Below(i) == {k \in S : k < i}
           T == {Below(i) : i \in S}
<1>1. S \subseteq Nat /\ IsFiniteSet(S)
  BY InodesAreNumbers, FS_Subset
<1>2. IsWellFoundedOn(StrictSubsetOrdering(S), SUBSET S)
  BY <1>1, FS_StrictSubsetOrderingWellFounded, FS_FiniteSubsetsOfFinite
<1>3. \E x \in T : \A y \in T : <<y, x>> \notin StrictSubsetOrdering(S)
  <2>1. T \subseteq SUBSET S /\ T # {}
    OBVIOUS
  <2> HIDE DEF T
  <2> QED BY <1>2, <2>1, WFMin
<1>4. PICK i \in S : \A k \in S : <<Below(k), Below(i)>> \notin StrictSubsetOrdering(S)
  BY <1>3
<1>5. ASSUME NEW k \in S, k < i PROVE FALSE
  <2>0. k \in Nat /\ i \in Nat /\ \A j \in S : j \in Nat
    BY <1>1
  <2>1. Below(k) \subseteq Below(i) /\ k \in Below(i) /\ k \notin Below(k)
    <3>1. \A j \in S : j < k => j < i
      BY <2>0, <1>5
    <3>2. ~(k < k)
      BY <2>0
    <3> QED BY <3>1, <3>2, <1>5
  <2>2. Below(k) # Below(i) /\ Below(k) \in SUBSET S /\ Below(i) \in SUBSET S
    BY <2>1
  <2>3. <<Below(k), Below(i)>> \in StrictSubsetOrdering(S)
    <3> HIDE DEF Below
    <3> QED BY <2>1, <2>2 DEF StrictSubsetOrdering
  <2> QED BY <1>4, <2>3
<1>6. \A k \in S : i <= k
  BY <1>1, <1>5
<1> QED BY <1>6 DEF Blob!Min

(* Whoever creates a file finds an inode for it. *)
LEMMA FreshIsUnused ==
  ASSUME Blob!Parameters, BlobTyped, OpenToWrite, NEW f \in Procs, ~Writing(f), inc = Blob!NoFile
  PROVE  Blob!Fresh \in Blob!Inodes /\ Blob!Unused(Blob!Fresh)
<1> DEFINE free == {i \in Blob!Inodes : Blob!Unused(i)}
           user == [i \in Blob!Inodes |-> IF i = path THEN f ELSE CHOOSE g \in Procs : fetch[g].fd = i]
<1>1. ASSUME free = {} PROVE FALSE
  <2>1. \A i \in Blob!Inodes : i # path => \E g \in Procs : fetch[g].fd = i
    BY <1>1, InodesAreNumbers DEF Blob!Unused
  <2>2. \A i \in Blob!Inodes : user[i] \in Procs /\ (i # path => fetch[user[i]].fd = i)
    BY <2>1
  <2>3. user \in [Blob!Inodes -> Procs]
    BY <2>2
  <2>4. \A i \in Blob!Inodes : i = path => user[i] = f
    OBVIOUS
  <2> HIDE DEF user
  <2>5. \E x, y \in Blob!Inodes : x # y /\ user[x] = user[y]
    <3>1. Cardinality(Procs) < Cardinality(Blob!Inodes)
      BY InodesAreNumbers
    <3> QED BY <2>3, <3>1, InodesAreNumbers, FiniteSetsAreThose, FS_PigeonHole DEF Blob!Parameters
  <2>6. PICK x \in Blob!Inodes, y \in Blob!Inodes : x # y /\ user[x] = user[y]
    BY <2>5
  <2>7. fetch[f].fd = Blob!NoFile
    BY DEF OpenToWrite
  <2> QED BY <2>2, <2>4, <2>6, <2>7, InodesAreNumbers
<1>2. Blob!Min(free) \in free
  BY <1>1, LeastExists
<1> QED BY <1>2 DEF Blob!Fresh

-------------------------------------------------------------------------------
(* What each step makes of the run that takes it: r is what the run becomes. *)

(* A step that opens, writes and renames nothing, and may remove a name. *)
Around ==
  /\ content' = content /\ path' \in {path, Blob!NoFile} /\ inc' \in {inc, Blob!NoFile}
  /\ UNCHANGED <<kind, locked, sweep>> /\ link' \in BOOLEAN
  /\ fetchTrouble' \in 0..MaxFetchTrouble /\ harm \subseteq harm' /\ harm' \subseteq {"data", "kill"}
Moves(f, r) ==
  fetch' = [fetch EXCEPT ![f] = r] /\ r.at # "write" /\ r.fd = Blob!NoFile /\ r.ok /\ Around

(* What a run that does nothing is. *)
LEMMA IdleIs ==
  ASSUME Blob!Parameters
  PROVE  Blob!Idle \in BlobRun /\ Blob!Idle.at = "idle" /\ Blob!Idle.fd = Blob!NoFile /\ Blob!Idle.ok /\ Blob!Idle.next = 1
BY DEF Blob!Parameters, Blob!Idle, BlobRun, BlobPlaces, Nodes

(* A run that goes to a place has no file open there. *)
LEMMA ToIs ==
  ASSUME Blob!Parameters, NEW a \in BlobPlaces
  PROVE  LET r == [Blob!Idle EXCEPT !.at = a]
         IN r \in BlobRun /\ r.at = a /\ r.fd = Blob!NoFile /\ r.ok
BY IdleIs DEF BlobRun

(* A failed attempt is tried again or given up. *)
LEMMA FailedIs ==
  ASSUME Blob!Parameters, NEW r \in BlobRun
  PROVE  /\ Blob!Failed(r) \in BlobRun /\ Blob!Failed(r).at \in {"request", "giveup"} /\ Blob!Failed(r).fd = Blob!NoFile /\ Blob!Failed(r).ok
<1>1. r.left \in 0..Retries /\ Retries \in Nat
  BY DEF Blob!Parameters, BlobRun
<1>2. CASE r.left > 0
  <2>1. PICK left \in 0..Retries : left = r.left - 1
    BY <1>1, <1>2
  <2>2. Blob!Failed(r) = [Blob!Idle EXCEPT !.at = "request", !.left = left]
    BY <1>2, <2>1 DEF Blob!Failed
  <2> QED BY <2>2, IdleIs DEF BlobRun, BlobPlaces
<1>3. CASE ~(r.left > 0)
  <2>1. Blob!Failed(r) = [Blob!Idle EXCEPT !.at = "giveup"]
    BY <1>3 DEF Blob!Failed
  <2> QED BY <2>1, IdleIs DEF BlobRun, BlobPlaces
<1> QED BY <1>2, <1>3

(* What goes wrong stays within its bound and is not forgotten. *)
LEMMA CalmOrTrouble ==
  ASSUME Blob!Parameters, BlobTyped, NEW what \in SUBSET {"data", "kill"}, Blob!Calm \/ Blob!Trouble(what)
  PROVE  fetchTrouble' \in 0..MaxFetchTrouble /\ harm \subseteq harm' /\ harm' \subseteq {"data", "kill"}
<1>1. CASE Blob!Calm
  BY <1>1 DEF BlobTyped, Blob!Calm
<1>2. CASE Blob!Trouble(what)
  <2>1. fetchTrouble' \in 0..MaxFetchTrouble
    BY <1>2 DEF Blob!Parameters, BlobTyped, Blob!Trouble
  <2>2. harm' = harm \cup what
    BY <1>2 DEF Blob!Trouble
  <2> QED BY <2>1, <2>2 DEF BlobTyped
<1> QED BY <1>1, <1>2

(* The steps of a run that does not write and does not begin to. *)
MoveOf(f) ==
  \/ Blob!Start(f) \/ Blob!Check(f) \/ Blob!Request(f) \/ Blob!BreakOff(f) \/ Blob!Retry(f)
  \/ Blob!Verify(f) \/ Blob!Link(f) \/ Blob!GiveUp(f) \/ Blob!Return(f) \/ Blob!Kill(f)

(* None of these steps touches what is in a file. *)
LEMMA AroundIs ==
  ASSUME Blob!Parameters, BlobTyped, NEW f \in Procs, MoveOf(f)
  PROVE  Around
<1>1. Blob!Calm \/ Blob!Trouble({}) \/ Blob!Trouble({"data"}) \/ Blob!Trouble({"kill"})
  BY DEF MoveOf, Blob!Start, Blob!Check, Blob!Request, Blob!BreakOff, Blob!Retry, Blob!Verify, Blob!Link, Blob!GiveUp, Blob!Return, Blob!Kill
<1>2. fetchTrouble' \in 0..MaxFetchTrouble /\ harm \subseteq harm' /\ harm' \subseteq {"data", "kill"}
  <2>1. {} \in SUBSET {"data", "kill"} /\ {"data"} \in SUBSET {"data", "kill"} /\ {"kill"} \in SUBSET {"data", "kill"}
    OBVIOUS
  <2> QED BY <1>1, <2>1, CalmOrTrouble
<1>3. link' \in BOOLEAN
  BY DEF BlobTyped, MoveOf, Blob!Start, Blob!Check, Blob!Request, Blob!BreakOff, Blob!Retry, Blob!Verify, Blob!Link, Blob!GiveUp, Blob!Return, Blob!Kill
<1>4. content' = content /\ UNCHANGED <<kind, locked, sweep>>
  BY DEF MoveOf, Blob!Start, Blob!Check, Blob!Request, Blob!BreakOff, Blob!Retry, Blob!Verify, Blob!Link, Blob!GiveUp, Blob!Return, Blob!Kill, Blob!Rest
<1>5. path' \in {path, Blob!NoFile} /\ inc' \in {inc, Blob!NoFile}
  BY DEF MoveOf, Blob!Start, Blob!Check, Blob!Request, Blob!BreakOff, Blob!Retry, Blob!Verify, Blob!Link, Blob!GiveUp, Blob!Return, Blob!Kill, Blob!Leftover
<1> QED BY <1>2, <1>3, <1>4, <1>5 DEF Around

(* Each of these steps leaves the run without an open file. *)
LEMMA MovesIs ==
  ASSUME Blob!Parameters, BlobTyped, OpenToWrite, NEW f \in Procs, MoveOf(f)
  PROVE  \E r \in BlobRun : Moves(f, r)
<1> DEFINE G == \E r \in BlobRun : Moves(f, r)
<1>0. fetch[f] \in BlobRun /\ Around
  BY AroundIs DEF BlobTyped
<1>1. ASSUME NEW r \in BlobRun, Blob!Goes(f, r), r.at # "write", r.fd = Blob!NoFile, r.ok
      PROVE  G
  BY <1>0, <1>1 DEF Blob!Goes, Moves
<1> HIDE DEF G
<1>2. ASSUME NEW a \in BlobPlaces, Blob!To(f, a), a # "write"
      PROVE  G
  <2> DEFINE r == [Blob!Idle EXCEPT !.at = a]
  <2>1. Blob!Goes(f, r)
    BY <1>2 DEF Blob!To
  <2>2. r \in BlobRun /\ r.at = a /\ r.fd = Blob!NoFile /\ r.ok
    BY ToIs
  <2> HIDE DEF r
  <2> QED BY <1>1, <1>2, <2>1, <2>2
<1>3. ASSUME Blob!Goes(f, Blob!Failed(fetch[f]))
      PROVE  G
  BY <1>0, <1>1, <1>3, FailedIs
<1>4. ASSUME Blob!Start(f)
      PROVE  G
  <2>1. PICK refresh \in {FALSE, kind = "nocheck"} :
          Blob!Goes(f, [Blob!Idle EXCEPT !.at = "check", !.left = IF Blob!IsCask THEN 0 ELSE Retries, !.refresh = refresh])
    BY <1>4 DEF Blob!Start
  <2>2. PICK left \in 0..Retries : left = IF Blob!IsCask THEN 0 ELSE Retries
    BY DEF Blob!Parameters
  <2>3. refresh \in BOOLEAN
    BY <2>1
  <2> DEFINE r == [Blob!Idle EXCEPT !.at = "check", !.left = left, !.refresh = refresh]
  <2>4. Blob!Goes(f, r)
    BY <2>1, <2>2, Zenon
  <2>5. r \in BlobRun /\ r.at # "write" /\ r.fd = Blob!NoFile /\ r.ok
    BY <2>2, <2>3, IdleIs DEF BlobRun, BlobPlaces
  <2> HIDE DEF r
  <2> QED BY <1>1, <2>4, <2>5
<1>5. ASSUME NEW r, ~Writing(f), Blob!Goes(f, r),
             r = [fetch[f] EXCEPT !.at = "request"] \/ r = [fetch[f] EXCEPT !.at = "create", !.refresh = FALSE]
      PROVE  G
  <2>1. r \in BlobRun /\ r.at # "write" /\ r.fd = fetch[f].fd /\ r.ok = fetch[f].ok
    BY <1>0, <1>5 DEF BlobRun, BlobPlaces
  <2>2. fetch[f].fd = Blob!NoFile /\ fetch[f].ok
    BY <1>5 DEF OpenToWrite
  <2> QED BY <1>1, <1>5, <2>1, <2>2
<1>6. ASSUME Blob!Check(f)
      PROVE  G
  <2>1. ~Writing(f) /\ (Blob!To(f, "link") \/ \E r : r = [fetch[f] EXCEPT !.at = "request"] /\ Blob!Goes(f, r))
    BY <1>6 DEF Blob!Check, Blob!At, Writing
  <2> QED BY <1>2, <1>5, <2>1 DEF BlobPlaces
<1>7. ASSUME Blob!Request(f)
      PROVE  G
  <2>1. ~Writing(f) /\ \/ \E r : r = [fetch[f] EXCEPT !.at = "create", !.refresh = FALSE] /\ Blob!Goes(f, r)
                       \/ Blob!To(f, "link")
                       \/ Blob!Goes(f, Blob!Failed(fetch[f]))
    BY <1>7 DEF Blob!Request, Blob!At, Writing
  <2> QED BY <1>2, <1>3, <1>5, <2>1 DEF BlobPlaces
<1>8. ASSUME Blob!BreakOff(f) \/ Blob!Retry(f)
      PROVE  G
  BY <1>3, <1>8 DEF Blob!BreakOff, Blob!Retry
<1>9. ASSUME Blob!Verify(f) \/ Blob!Link(f) \/ Blob!GiveUp(f) \/ Blob!Return(f) \/ Blob!Kill(f)
      PROVE  G
  <2>1. \E a \in BlobPlaces : a # "write" /\ Blob!To(f, a)
    <3>1. CASE Blob!Verify(f)
      <4>1. \E a \in {"failed", "link", "done"} : Blob!To(f, a)
        BY <3>1 DEF Blob!Verify
      <4> QED BY <4>1 DEF BlobPlaces
    <3>2. CASE Blob!Link(f)
      <4>1. \E a \in {"failed", "verify", "done", "unmarked"} : Blob!To(f, a)
        BY <3>2 DEF Blob!Link
      <4> QED BY <4>1 DEF BlobPlaces
    <3>3. CASE Blob!GiveUp(f) \/ Blob!Return(f) \/ Blob!Kill(f)
      BY <3>3 DEF Blob!GiveUp, Blob!Return, Blob!Kill, BlobPlaces
    <3> QED BY <1>9, <3>1, <3>2, <3>3
  <2> QED BY <1>2, <2>1
<1>10. G
  BY <1>4, <1>6, <1>7, <1>8, <1>9 DEF MoveOf
<1> QED BY <1>10 DEF G

-------------------------------------------------------------------------------
(* Each step keeps the invariant. *)

Acts(f) == MoveOf(f) \/ Blob!Create(f) \/ Blob!Write(f) \/ Blob!Rename(f)

(* Under the lock nobody else is at work when a run takes a step. *)
LEMMA Alone ==
  ASSUME Blob!Parameters, BlobInv, NEW f \in Procs, Acts(f), locked
  PROVE  \A g \in Procs : g # f => fetch[g].at = "idle"
<1>1. CASE Blob!Start(f)
  BY <1>1 DEF Blob!Start, Blob!At
<1>2. CASE fetch[f].at # "idle"
  BY <1>2 DEF BlobInv, Exclusive
<1> QED
  BY <1>1, <1>2 DEF Acts, MoveOf, Blob!Check, Blob!Request, Blob!Create, Blob!Write, Blob!BreakOff, Blob!Retry, Blob!Rename, Blob!Verify, Blob!Link, Blob!GiveUp, Blob!Return, Blob!Kill, Blob!At

(* One run at a time under the lock. *)
LEMMA ExclusiveStep ==
  ASSUME Blob!Parameters, BlobInv, NEW f \in Procs, Acts(f), NEW r \in BlobRun, fetch' = [fetch EXCEPT ![f] = r], locked' = locked
  PROVE  Exclusive'
BY Alone DEF BlobInv, BlobTyped, Exclusive

(* Runs that are idle write nothing and have nothing to verify. *)
LEMMA IdleWrites ==
  ASSUME Blob!Parameters, BlobInv, NEW f \in Procs, Acts(f), NEW r \in BlobRun, fetch' = [fetch EXCEPT ![f] = r], locked' = locked, kind' = kind
  PROVE  \A g \in Procs : g # f =>
           /\ Writes(g)' /\ Knows(g)'
           /\ locked => ~Unverified(g) /\ ~Unverified(g)' /\ ~Writing(g)
BY Alone DEF BlobInv, BlobTyped, Writes, Writing, Unverified, Knows, Asks

(* Where a run is once it has taken a step. *)
LEMMA GoesIs ==
  ASSUME BlobTyped, NEW f \in Procs
  PROVE  /\ \A r : Blob!Goes(f, r) => fetch'[f] = r
         /\ \A a \in BlobPlaces : Blob!To(f, a) => fetch'[f].at = a
BY DEF BlobTyped, Blob!Goes, Blob!To, Blob!Idle

(* A run that stops writing before the end has met trouble. *)
LEMMA StoppingIsTrouble ==
  ASSUME Blob!Parameters, BlobInv, NEW f \in Procs, MoveOf(f), Writing(f), harm' = {}
  PROVE  FALSE
<1>1. harm = {} => fetch[f].ok
  BY DEF BlobInv, Undisturbed
<1>2. harm' = {} => harm = {}
  BY AroundIs DEF Around, BlobInv
<1> QED
  BY <1>1, <1>2 DEF MoveOf, Writing, Blob!Start, Blob!Check, Blob!Request, Blob!BreakOff, Blob!Retry, Blob!Mismatch, Blob!Verify, Blob!Link, Blob!GiveUp, Blob!Return, Blob!Kill, Blob!At, Blob!Trouble

(* A run goes on asking as long as there is no container, and returns what it *)
(* has compared.                                                              *)
LEMMA MovesKnow ==
  ASSUME Blob!Parameters, BlobInv, NEW f \in Procs, MoveOf(f)
  PROVE  Knows(f)'
<1>0. BlobTyped /\ Knows(f) /\ Blob!LockedBlobIsWhole /\ fetch[f] \in BlobRun
  BY DEF BlobInv, BlobTyped
<1>1. Around
  BY <1>0, AroundIs
<1> SUFFICES ASSUME locked
             PROVE  /\ fetch'[f].at = "done" /\ kind # "nocheck" /\ path' # Blob!NoFile => Blob!Whole(path)'
                    /\ kind = "cask" => /\ fetch'[f].at = "check" => ~fetch'[f].refresh
                                        /\ Asks(f)' => path' = Blob!NoFile
  BY <1>1 DEF Knows, Around
<1>2. CASE Blob!Start(f)
  <2>1. PICK refresh \in {FALSE, kind = "nocheck"} :
          Blob!Goes(f, [Blob!Idle EXCEPT !.at = "check", !.left = IF Blob!IsCask THEN 0 ELSE Retries, !.refresh = refresh])
    BY <1>2 DEF Blob!Start
  <2>2. fetch'[f].at = "check" /\ fetch'[f].refresh = refresh
    BY <1>0, <2>1, GoesIs DEF Blob!Idle
  <2> QED BY <2>1, <2>2 DEF Asks
<1>3. CASE Blob!Check(f)
  <2>1. CASE Blob!To(f, "link")
    BY <1>0, <2>1, GoesIs DEF BlobPlaces, Asks
  <2>2. CASE ~(Blob!Reusable /\ ~fetch[f].refresh) /\ Blob!Goes(f, [fetch[f] EXCEPT !.at = "request"])
    <3>1. fetch'[f].at = "request"
      BY <1>0, <2>2, GoesIs DEF BlobRun
    <3>2. kind = "cask" => path' = Blob!NoFile
      BY <1>0, <1>1, <1>3, <2>2 DEF Knows, Blob!Check, Blob!At, Blob!Reusable, Blob!IsCask, Around
    <3> QED BY <3>1, <3>2
  <2> QED BY <1>3, <2>1, <2>2 DEF Blob!Check
<1>4. CASE Blob!Request(f) \/ Blob!BreakOff(f) \/ Blob!Retry(f)
  <2>1. kind = "cask" => path' = Blob!NoFile
    BY <1>0, <1>1, <1>4 DEF Knows, Asks, Around, Blob!Request, Blob!BreakOff, Blob!Retry, Blob!At
  <2>2. fetch'[f].at \in {"create", "link", "request", "giveup"}
    <3>1. CASE Blob!Goes(f, Blob!Failed(fetch[f]))
      BY <1>0, <3>1, GoesIs, FailedIs
    <3>2. CASE Blob!Goes(f, [fetch[f] EXCEPT !.at = "create", !.refresh = FALSE])
      BY <1>0, <3>2, GoesIs DEF BlobRun
    <3>3. CASE Blob!To(f, "link")
      BY <1>0, <3>3, GoesIs DEF BlobPlaces
    <3> QED BY <1>4, <3>1, <3>2, <3>3 DEF Blob!Request, Blob!BreakOff, Blob!Retry
  <2> QED BY <2>1, <2>2
<1>5. CASE Blob!Verify(f)
  <2>1. PICK a \in {"failed", "link", "done"} :
          Blob!To(f, a) /\ a = CASE ~Blob!Matches -> "failed" [] Blob!Matches /\ kind = "manifest" -> "link" [] OTHER -> "done"
    BY <1>5 DEF Blob!Verify
  <2>2. fetch'[f].at = a
    BY <1>0, <2>1, GoesIs DEF BlobPlaces
  <2>3. path' = (IF Blob!Matches THEN path ELSE Blob!NoFile) /\ content' = content
    BY <1>5 DEF Blob!Verify
  <2> QED BY <2>1, <2>2, <2>3 DEF Asks, Blob!Matches, Blob!Whole
<1>6. CASE Blob!Link(f)
  <2>1. CASE Blob!IsCask
    <3>1. \E a \in {"verify", "unmarked"} : Blob!To(f, a)
      BY <1>6, <2>1 DEF Blob!Link, Blob!IsCask
    <3>2. fetch'[f].at \in {"verify", "unmarked"}
      BY <1>0, <3>1, GoesIs DEF BlobPlaces
    <3> QED BY <3>2 DEF Asks
  <2>2. CASE ~Blob!IsCask
    <3>1. PICK a \in {"failed", "done"} : Blob!To(f, a) /\ (a = "done" => kind # "manifest" \/ Blob!Reusable)
      BY <1>6, <2>2 DEF Blob!Link
    <3>2. fetch'[f].at = a
      BY <1>0, <3>1, GoesIs DEF BlobPlaces
    <3>3. a = "done" /\ path # Blob!NoFile => Blob!Whole(path)
      BY <1>0, <2>2, <3>1 DEF Blob!LockedBlobIsWhole, BlobTyped, Blob!IsCask, Blob!Reusable
    <3> QED BY <1>1, <2>2, <3>2, <3>3 DEF Blob!IsCask, Around, Blob!Whole
  <2> QED BY <2>1, <2>2
<1>7. CASE Blob!GiveUp(f)
  <2>1. fetch'[f].at = "failed"
    BY <1>0, <1>7, GoesIs DEF Blob!GiveUp, BlobPlaces
  <2>2. kind = "cask" => path' = Blob!NoFile
    BY <1>0, <1>7 DEF Knows, Asks, Blob!GiveUp, Blob!At
  <2> QED BY <2>1, <2>2
<1>8. CASE Blob!Return(f) \/ Blob!Kill(f)
  <2>1. fetch'[f].at = "idle"
    BY <1>0, <1>8, GoesIs DEF Blob!Return, Blob!Kill, BlobPlaces
  <2> QED BY <2>1 DEF Asks
<1> QED BY <1>2, <1>3, <1>4, <1>5, <1>6, <1>7, <1>8 DEF MoveOf

(* Starting, asking, breaking off, verifying, linking, returning, dying. *)
LEMMA MovesKeep ==
  ASSUME Blob!Parameters, BlobInv, NEW f \in Procs, MoveOf(f)
  PROVE  BlobInv'
<1>0. BlobTyped /\ OpenToWrite /\ Exclusive /\ Undisturbed /\ Verified /\ Blob!LockedBlobIsWhole
  BY DEF BlobInv
<1>1. PICK r \in BlobRun : Moves(f, r)
  BY <1>0, MovesIs
<1>2. fetch' = [fetch EXCEPT ![f] = r] /\ r.at # "write" /\ r.fd = Blob!NoFile /\ r.ok /\ fetch \in [Procs -> BlobRun]
  BY <1>0, <1>1 DEF Moves, BlobTyped
<1>3. /\ content' = content /\ path' \in {path, Blob!NoFile} /\ inc' \in {inc, Blob!NoFile}
      /\ kind' = kind /\ locked' = locked /\ sweep' = sweep /\ link' \in BOOLEAN
      /\ fetchTrouble' \in 0..MaxFetchTrouble /\ harm \subseteq harm' /\ harm' \subseteq {"data", "kill"}
  BY <1>1 DEF Moves, Around
<1>4. fetch' \in [Procs -> BlobRun] /\ fetch'[f] = r /\ \A g \in Procs : g # f => fetch'[g] = fetch[g]
  BY <1>2
<1>5. BlobTyped'
  <2>1. path' \in Nodes /\ inc' \in Nodes /\ (path' = inc' => path' = Blob!NoFile)
    BY <1>0, <1>3 DEF BlobTyped, Nodes
  <2> QED BY <1>0, <1>3, <1>4, <2>1 DEF BlobTyped
<1>6. OpenToWrite'
  BY <1>0, <1>2, <1>4 DEF OpenToWrite, Writing
<1>7. Acts(f)
  BY DEF Acts
<1>8. Exclusive'
  BY <1>2, <1>3, <1>7, ExclusiveStep
<1>9. \A g \in Procs : g # f => Writes(g)' /\ Knows(g)' /\ (locked => ~Unverified(g) /\ ~Unverified(g)')
  BY <1>2, <1>3, <1>7, IdleWrites
<1>10. Writes(f)'
  BY <1>2, <1>4 DEF Writes, Writing
<1>11. Blob!LockedBlobIsWhole'
  BY <1>0, <1>3 DEF Blob!LockedBlobIsWhole, Blob!Whole
<1>12. Undisturbed'
  <2> SUFFICES ASSUME harm' = {}
               PROVE  /\ \A g \in Procs : fetch'[g].ok
                      /\ path' # Blob!NoFile => Covered(path)'
                      /\ inc' # Blob!NoFile => Covered(inc)'
    BY DEF Undisturbed
  <2>1. harm = {} /\ ~Writing(f)
    BY <1>3, StoppingIsTrouble
  <2>2. \A g \in Procs : Writing(g) => Writing(g)' /\ fetch'[g] = fetch[g]
    BY <1>4, <2>1 DEF Writing
  <2>3. \A i \in Blob!Inodes : Covered(i) => Covered(i)'
    BY <1>3, <2>2 DEF Covered
  <2>4. path' # Blob!NoFile => Covered(path)'
    BY <1>0, <1>3, <2>1, <2>3 DEF Undisturbed, BlobTyped, Nodes
  <2>5. inc' # Blob!NoFile => Covered(inc)'
    BY <1>0, <1>3, <2>1, <2>3 DEF Undisturbed, BlobTyped, Nodes
  <2>6. \A g \in Procs : fetch'[g].ok
    BY <1>0, <1>2, <1>4, <2>1 DEF Undisturbed
  <2> QED BY <2>4, <2>5, <2>6
<1>13. Verified'
  <2> SUFFICES ASSUME locked, "kill" \notin harm', kind = "manifest", path' # Blob!NoFile, \A g \in Procs : ~Unverified(g)'
               PROVE  Blob!Whole(path)'
    BY <1>3 DEF Verified
  <2>1. path' = path /\ "kill" \notin harm
    BY <1>3
  <2>2. CASE ~Unverified(f)
    <3>1. \A g \in Procs : ~Unverified(g)
      BY <1>9, <2>2
    <3> QED BY <1>0, <1>3, <2>1, <3>1 DEF Verified, Blob!Whole
  <2>3. CASE Unverified(f)
    <3>1. ~Blob!Kill(f)
      BY <2>1 DEF Blob!Kill, Blob!Trouble
    <3>2. CASE Blob!Verify(f)
      <4>1. Blob!Whole(path)
        BY <2>1, <3>2 DEF Blob!Verify, Blob!Matches
      <4> QED BY <1>3, <2>1, <4>1 DEF Blob!Whole
    <3> QED BY <2>3, <3>1, <3>2 DEF MoveOf, Unverified, Blob!Start, Blob!Check, Blob!Request, Blob!BreakOff, Blob!Retry, Blob!Link, Blob!GiveUp, Blob!Return, Blob!At
  <2> QED BY <2>2, <2>3
<1>14. Knows(f)'
  BY MovesKnow
<1> QED BY <1>5, <1>6, <1>8, <1>9, <1>10, <1>11, <1>12, <1>13, <1>14 DEF BlobInv

(* `.incomplete` is created or truncated: its writer covers all of it. *)
LEMMA CreateKeeps ==
  ASSUME Blob!Parameters, BlobInv, NEW f \in Procs, Blob!Create(f)
  PROVE  BlobInv'
<1>0. BlobTyped /\ OpenToWrite /\ Exclusive /\ Undisturbed /\ Verified /\ Blob!LockedBlobIsWhole /\ fetch[f] \in BlobRun
  BY DEF BlobInv, BlobTyped
<1>a. PICK i : i = IF inc = Blob!NoFile THEN Blob!Fresh ELSE inc
  OBVIOUS
<1> DEFINE r == [fetch[f] EXCEPT !.at = "write", !.fd = i, !.next = 1, !.ok = TRUE]
<1>1. /\ inc' = i /\ fetch' = [fetch EXCEPT ![f] = r]
      /\ content' = [j \in Blob!Inodes |-> IF j = i \/ Blob!Unused(j) THEN Blob!Empty ELSE content[j]]
      /\ UNCHANGED <<path, link, kind, sweep, locked, fetchTrouble, harm>> /\ fetch[f].at = "create"
  BY <1>a DEF Blob!Create, Blob!Truncated, Blob!Rest, Blob!Calm, Blob!At, Blob!Goes
<1>2. ~Writing(f) /\ ~Unverified(f)
  BY <1>1 DEF Writing, Unverified
<1>3. i \in Blob!Inodes /\ i # path /\ i # Blob!NoFile
  <2>1. CASE inc = Blob!NoFile
    BY <1>a, <1>0, <1>2, <2>1, FreshIsUnused, InodesAreNumbers DEF Blob!Unused
  <2>2. CASE inc # Blob!NoFile
    BY <1>a, <1>0, <2>2, InodesAreNumbers DEF BlobTyped, Nodes
  <2> QED BY <2>1, <2>2
<1>4. r \in BlobRun /\ r.at = "write" /\ r.fd = i /\ r.next = 1 /\ r.ok
  <2>1. 1 \in Nat \ {0} /\ "write" \in BlobPlaces /\ i \in Nodes
    BY <1>3 DEF BlobPlaces, Nodes
  <2> QED BY <1>0, <2>1 DEF BlobRun
<1> HIDE DEF r
<1>5. fetch' \in [Procs -> BlobRun] /\ fetch'[f] = r /\ \A g \in Procs : g # f => fetch'[g] = fetch[g]
  BY <1>0, <1>1, <1>4 DEF BlobTyped
<1>6. path # Blob!NoFile => path \in Blob!Inodes /\ content'[path] = content[path]
  BY <1>0, <1>1, <1>3 DEF BlobTyped, Nodes, Blob!Unused
<1>7. BlobTyped'
  <2>1. Blob!Empty \in [Chunks -> Data]
    BY DEF Blob!Empty, Data
  <2>2. content' \in [Blob!Inodes -> [Chunks -> Data]]
    BY <1>0, <1>1, <2>1 DEF BlobTyped
  <2>3. path' \in Nodes /\ inc' \in Nodes /\ (path' = inc' => path' = Blob!NoFile)
    BY <1>0, <1>1, <1>3 DEF BlobTyped, Nodes
  <2> QED BY <1>0, <1>1, <1>5, <2>2, <2>3 DEF BlobTyped
<1>8. OpenToWrite'
  BY <1>0, <1>3, <1>4, <1>5 DEF OpenToWrite, Writing
<1>9. Acts(f)
  BY DEF Acts
<1>10. Exclusive'
  BY <1>1, <1>4, <1>9, ExclusiveStep
<1>11. \A g \in Procs : g # f => Writes(g)' /\ Knows(g)' /\ (locked => ~Unverified(g) /\ ~Unverified(g)')
  BY <1>1, <1>4, <1>9, IdleWrites
<1>12. Writes(f)'
  <2>1. \A c \in Chunks : ~(c < 1)
    BY ChunksAreARange
  <2> QED BY <1>1, <1>3, <1>4, <1>5, <2>1 DEF Writes, Writing
<1>13. Blob!LockedBlobIsWhole'
  BY <1>0, <1>1, <1>6 DEF Blob!LockedBlobIsWhole, Blob!Whole
<1>14. Undisturbed'
  <2> SUFFICES ASSUME harm = {}
               PROVE  /\ \A g \in Procs : fetch'[g].ok
                      /\ path # Blob!NoFile => Covered(path)'
                      /\ Covered(inc)'
    BY <1>1, <1>3 DEF Undisturbed
  <2>1. \A c \in Chunks : 1 <= c
    BY ChunksAreARange
  <2>2. Covered(inc)'
    <3>1. \A c \in Chunks : Writing(f)' /\ fetch'[f].fd = i /\ fetch'[f].next <= c
      BY <1>4, <1>5, <2>1 DEF Writing
    <3> QED BY <1>1, <3>1 DEF Covered
  <2>3. ASSUME path # Blob!NoFile PROVE Covered(path)'
    <3>1. Covered(path)
      BY <1>0, <2>3 DEF Undisturbed
    <3>2. \A g \in Procs : Writing(g) => Writing(g)' /\ fetch'[g] = fetch[g]
      BY <1>2, <1>5 DEF Writing
    <3> QED BY <1>1, <1>6, <2>3, <3>1, <3>2 DEF Covered
  <2>4. \A g \in Procs : fetch'[g].ok
    BY <1>0, <1>4, <1>5 DEF Undisturbed
  <2> QED BY <2>2, <2>3, <2>4
<1>15. Verified'
  <2> SUFFICES ASSUME locked, "kill" \notin harm, kind = "manifest", path # Blob!NoFile
               PROVE  Blob!Whole(path)'
    BY <1>1 DEF Verified
  <2>1. \A g \in Procs : ~Unverified(g)
    BY <1>2, <1>11
  <2>2. Blob!Whole(path)
    BY <1>0, <2>1 DEF Verified
  <2> QED BY <1>1, <1>6, <2>2 DEF Blob!Whole
<1>16. Knows(f)'
  BY <1>0, <1>1, <1>4, <1>5 DEF BlobInv, Knows, Asks
<1> QED BY <1>7, <1>8, <1>10, <1>11, <1>12, <1>13, <1>14, <1>15, <1>16 DEF BlobInv

(* A chunk is written: what lies behind the writer is good, or harm is known. *)
LEMMA WriteKeeps ==
  ASSUME Blob!Parameters, BlobInv, NEW f \in Procs, Blob!Write(f)
  PROVE  BlobInv'
<1>0. BlobTyped /\ OpenToWrite /\ Exclusive /\ Undisturbed /\ Verified /\ Blob!LockedBlobIsWhole /\ fetch[f] \in BlobRun /\ Writes(f)
  BY DEF BlobInv, BlobTyped
<1>1. PICK data \in {"good", "bad"} :
        /\ content' = [content EXCEPT ![fetch[f].fd][fetch[f].next] = data]
        /\ Blob!Goes(f, [fetch[f] EXCEPT !.next = @ + 1, !.ok = @ /\ data = "good"])
        /\ IF data = "bad" THEN Blob!Trouble({"data"}) ELSE Blob!Calm
  BY DEF Blob!Write
<1>2. UNCHANGED <<path, inc, link, kind, sweep, locked>> /\ Writing(f) /\ fetch[f].next \in Chunks
  BY DEF Blob!Write, Blob!Rest, Blob!At, Writing
<1>3. PICK ok \in BOOLEAN : ok = (fetch[f].ok /\ data = "good")
  OBVIOUS
<1>4. PICK i \in Blob!Inodes, n \in Nat \ {0} : i = fetch[f].fd /\ n = fetch[f].next
  BY <1>0, <1>2 DEF OpenToWrite, BlobRun
<1> DEFINE r == [fetch[f] EXCEPT !.next = n + 1, !.ok = ok]
<1>5. fetch' = [fetch EXCEPT ![f] = r]
  BY <1>1, <1>3, <1>4, Zenon DEF Blob!Goes
<1>6. r \in BlobRun /\ r.at = "write" /\ r.fd = i /\ r.next = n + 1 /\ r.ok = ok
  <2>1. n + 1 \in Nat \ {0}
    OBVIOUS
  <2> QED BY <1>0, <1>2, <1>4, <2>1 DEF BlobRun, Writing
<1> HIDE DEF r
<1>7. fetch' \in [Procs -> BlobRun] /\ fetch'[f] = r /\ \A g \in Procs : g # f => fetch'[g] = fetch[g]
  BY <1>0, <1>5, <1>6 DEF BlobTyped
<1>8. content' = [content EXCEPT ![i] = [content[i] EXCEPT ![n] = data]]
  BY <1>1, <1>4
<1>9. content[i] \in [Chunks -> Data] /\ n \in Chunks /\ content \in [Blob!Inodes -> [Chunks -> Data]]
  BY <1>0, <1>2, <1>4 DEF BlobTyped
<1>10. /\ \A j \in Blob!Inodes : j # i => content'[j] = content[j]
       /\ \A c \in Chunks : content'[i][c] = IF c = n THEN data ELSE content[i][c]
  BY <1>8, <1>9
<1>11. content' \in [Blob!Inodes -> [Chunks -> Data]]
  <2>1. [content[i] EXCEPT ![n] = data] \in [Chunks -> Data]
    BY <1>9 DEF Data
  <2> QED BY <1>8, <1>9, <2>1
<1>12. fetchTrouble' \in 0..MaxFetchTrouble /\ harm \subseteq harm' /\ harm' \subseteq {"data", "kill"}
  BY <1>0, <1>1, CalmOrTrouble
<1>13. BlobTyped'
  BY <1>0, <1>2, <1>7, <1>11, <1>12 DEF BlobTyped
<1>14. OpenToWrite'
  BY <1>0, <1>4, <1>6, <1>7 DEF OpenToWrite, Writing
<1>15. Acts(f)
  BY DEF Acts
<1>16. Exclusive'
  BY <1>2, <1>5, <1>6, <1>15, ExclusiveStep
<1>17. \A g \in Procs : g # f => Writes(g)' /\ Knows(g)' /\ (locked => ~Unverified(g) /\ ~Unverified(g)')
  BY <1>2, <1>5, <1>6, <1>15, IdleWrites
<1>18. Writes(f)'
  <2> SUFFICES ASSUME locked
               PROVE  /\ inc \in {Blob!NoFile, i} /\ path # i
                      /\ \A c \in Chunks : c < n + 1 =>
                           content'[i][c] # "hole" /\ (ok => content'[i][c] = "good")
    BY <1>2, <1>6, <1>7 DEF Writes
  <2>1. /\ inc \in {Blob!NoFile, i} /\ path # i
        /\ \A c \in Chunks : c < n => content[i][c] # "hole" /\ (fetch[f].ok => content[i][c] = "good")
    BY <1>0, <1>2, <1>4 DEF Writes
  <2>2. \A c \in Chunks : c < n + 1 => c = n \/ c < n
    BY ChunksAreNumbers, <1>4
  <2> QED BY <1>3, <1>10, <2>1, <2>2
<1>19. locked /\ path # Blob!NoFile => content'[path] = content[path]
  <2>1. locked => path # i
    BY <1>0, <1>2, <1>4 DEF Writes
  <2> QED BY <1>0, <1>10, <2>1 DEF BlobTyped, Nodes
<1>20. Blob!LockedBlobIsWhole'
  BY <1>0, <1>2, <1>19 DEF Blob!LockedBlobIsWhole, Blob!Whole
<1>21. Undisturbed'
  <2> SUFFICES ASSUME harm' = {}
               PROVE  /\ \A g \in Procs : fetch'[g].ok
                      /\ path # Blob!NoFile => Covered(path)'
                      /\ inc # Blob!NoFile => Covered(inc)'
    BY <1>2 DEF Undisturbed
  <2>1. harm = {} /\ data = "good"
    BY <1>1, <1>12 DEF Blob!Trouble
  <2>2. \A g \in Procs : fetch'[g].ok
    BY <1>0, <1>3, <1>6, <1>7, <2>1 DEF Undisturbed
  <2>3. ASSUME NEW j \in Blob!Inodes, Covered(j) PROVE Covered(j)'
    <3> SUFFICES ASSUME NEW c \in Chunks, content'[j][c] # "good"
                 PROVE  \E g \in Procs : Writing(g)' /\ fetch'[g].fd = j /\ fetch'[g].next <= c
      BY DEF Covered
    <3>1. content[j][c] # "good"
      BY <1>10, <2>1
    <3>2. PICK g \in Procs : Writing(g) /\ fetch[g].fd = j /\ fetch[g].next <= c
      BY <2>3, <3>1 DEF Covered
    <3>3. CASE g # f
      BY <1>7, <3>2, <3>3 DEF Writing
    <3>4. CASE g = f
      <4>1. j = i /\ n <= c /\ c # n
        BY <1>4, <1>10, <2>1, <3>2, <3>4
      <4>2. n + 1 <= c
        BY <1>4, <4>1, ChunksAreNumbers
      <4> QED BY <1>6, <1>7, <4>1, <4>2 DEF Writing
    <3> QED BY <3>3, <3>4
  <2>4. path # Blob!NoFile => Covered(path)'
    BY <1>0, <1>2, <2>1, <2>3 DEF Undisturbed, BlobTyped, Nodes
  <2>5. inc # Blob!NoFile => Covered(inc)'
    BY <1>0, <1>2, <2>1, <2>3 DEF Undisturbed, BlobTyped, Nodes
  <2> QED BY <2>2, <2>4, <2>5
<1>22. Verified'
  <2> SUFFICES ASSUME locked, "kill" \notin harm, kind = "manifest", path # Blob!NoFile
               PROVE  Blob!Whole(path)'
    BY <1>2, <1>12 DEF Verified
  <2>1. \A g \in Procs : ~Unverified(g)
    BY <1>2, <1>17 DEF Unverified, Writing
  <2>2. Blob!Whole(path)
    BY <1>0, <2>1 DEF Verified
  <2> QED BY <1>2, <1>19, <2>2 DEF Blob!Whole
<1>23. Knows(f)'
  BY <1>2, <1>6, <1>7 DEF BlobInv, Knows, Asks, Writing
<1> QED BY <1>13, <1>14, <1>16, <1>17, <1>18, <1>20, <1>21, <1>22, <1>23 DEF BlobInv

(* What gets the final name was written to its end. *)
LEMMA RenameKeeps ==
  ASSUME Blob!Parameters, BlobInv, NEW f \in Procs, Blob!Rename(f)
  PROVE  BlobInv'
<1>0. BlobTyped /\ OpenToWrite /\ Exclusive /\ Undisturbed /\ Verified /\ Blob!LockedBlobIsWhole /\ fetch[f] \in BlobRun /\ Writes(f)
  BY DEF BlobInv, BlobTyped
<1>1. /\ path' = (IF inc = Blob!NoFile THEN path ELSE inc) /\ inc' = Blob!NoFile
      /\ UNCHANGED <<content, link, kind, sweep, locked, fetchTrouble, harm>>
      /\ Writing(f) /\ fetch[f].next \notin Chunks /\ ~Blob!Mismatch(f)
  BY DEF Blob!Rename, Blob!Rest, Blob!Calm, Blob!At, Writing
<1>2. PICK a \in {"failed", "verify", "link"} :
        /\ Blob!To(f, a)
        /\ a = CASE inc = Blob!NoFile -> "failed" [] inc # Blob!NoFile /\ kind = "manifest" -> "verify" [] OTHER -> "link"
  BY DEF Blob!Rename
<1> DEFINE r == [Blob!Idle EXCEPT !.at = a]
<1>3. fetch' = [fetch EXCEPT ![f] = r]
  BY <1>2 DEF Blob!To, Blob!Goes
<1>4. r \in BlobRun /\ r.at = a /\ r.fd = Blob!NoFile /\ r.ok
  BY ToIs DEF BlobPlaces
<1> HIDE DEF r
<1>5. fetch' \in [Procs -> BlobRun] /\ fetch'[f] = r /\ \A g \in Procs : g # f => fetch'[g] = fetch[g]
  BY <1>0, <1>3, <1>4 DEF BlobTyped
<1>6. BlobTyped'
  <2>1. path' \in Nodes /\ inc' \in Nodes /\ (path' = inc' => path' = Blob!NoFile)
    BY <1>0, <1>1 DEF BlobTyped, Nodes
  <2> QED BY <1>0, <1>1, <1>5, <2>1 DEF BlobTyped
<1>7. OpenToWrite'
  BY <1>0, <1>4, <1>5 DEF OpenToWrite, Writing
<1>8. Acts(f)
  BY DEF Acts
<1>9. Exclusive'
  BY <1>1, <1>3, <1>4, <1>8, ExclusiveStep
<1>10. \A g \in Procs : g # f => Writes(g)' /\ Knows(g)' /\ (locked => ~Unverified(g) /\ ~Unverified(g)')
  BY <1>1, <1>3, <1>4, <1>8, IdleWrites
<1>11. Writes(f)'
  BY <1>4, <1>5 DEF Writes, Writing
<1>12. \A c \in Chunks : c < fetch[f].next
  BY <1>0, <1>1, ChunksAreNumbers DEF BlobRun
<1>13. locked /\ inc # Blob!NoFile /\ fetch[f].ok => Blob!Whole(inc)
  BY <1>0, <1>1, <1>12 DEF Writes, Blob!Whole
<1>14. Blob!LockedBlobIsWhole'
  BY <1>0, <1>1, <1>13 DEF Blob!LockedBlobIsWhole, Blob!Whole, Blob!Mismatch
<1>15. Undisturbed'
  <2> SUFFICES ASSUME harm = {}
               PROVE  /\ \A g \in Procs : fetch'[g].ok
                      /\ path' # Blob!NoFile => Covered(path)'
    BY <1>1 DEF Undisturbed
  <2>1. \A g \in Procs : fetch'[g].ok
    BY <1>0, <1>4, <1>5 DEF Undisturbed
  <2>2. ASSUME NEW j, Covered(j), content'[j] = content[j]
        PROVE  \A c \in Chunks : content'[j][c] = "good" \/ \E g \in Procs : Writing(g)' /\ fetch'[g].fd = j /\ fetch'[g].next <= c
    <3> SUFFICES ASSUME NEW c \in Chunks, content[j][c] # "good"
                 PROVE  \E g \in Procs : Writing(g)' /\ fetch'[g].fd = j /\ fetch'[g].next <= c
      BY <2>2
    <3>1. PICK g \in Procs : Writing(g) /\ fetch[g].fd = j /\ fetch[g].next <= c
      BY <2>2 DEF Covered
    <3>2. g # f
      BY <1>0, <1>12, <3>1, ChunksAreNumbers DEF BlobRun
    <3> QED BY <1>5, <3>1, <3>2 DEF Writing
  <2>3. path' # Blob!NoFile => Covered(path')
    BY <1>0, <1>1 DEF Undisturbed
  <2> QED BY <1>1, <2>1, <2>2, <2>3 DEF Covered
<1>16. Verified'
  <2> SUFFICES ASSUME locked, "kill" \notin harm, kind = "manifest", path' # Blob!NoFile, ~Unverified(f)'
               PROVE  Blob!Whole(path)'
    BY <1>1 DEF Verified
  <2>1. CASE inc = Blob!NoFile
    <3>1. \A g \in Procs : ~Unverified(g)
      BY <1>1, <1>10 DEF Unverified, Writing
    <3>2. Blob!Whole(path)
      BY <1>0, <1>1, <2>1, <3>1 DEF Verified
    <3> QED BY <1>1, <2>1, <3>2 DEF Blob!Whole
  <2>2. CASE inc # Blob!NoFile
    BY <1>2, <1>4, <1>5, <2>2 DEF Unverified
  <2> QED BY <2>1, <2>2
<1>17. Knows(f)'
  <2>1. fetch'[f].at = a
    BY <1>4, <1>5
  <2>2. locked /\ kind = "cask" => path = Blob!NoFile
    BY <1>1 DEF BlobInv, Knows, Asks, Writing
  <2> QED BY <1>1, <1>2, <2>1, <2>2 DEF Knows, Asks
<1> QED BY <1>6, <1>7, <1>9, <1>10, <1>11, <1>14, <1>15, <1>16, <1>17 DEF BlobInv

(* A sweep takes names away and nothing else. *)
LEMMA SweepsKeep ==
  ASSUME Blob!Parameters, BlobInv, Blob!SweepList \/ Blob!SweepRemove \/ Blob!SweepStale
  PROVE  BlobInv'
<1>0. BlobTyped /\ OpenToWrite /\ Exclusive /\ Undisturbed /\ Verified /\ Blob!LockedBlobIsWhole /\ \A f \in Procs : Writes(f) /\ Knows(f)
  BY DEF BlobInv
<1>1. /\ UNCHANGED <<kind, content, fetch, locked, fetchTrouble, harm>>
      /\ path' \in {path, Blob!NoFile} /\ inc' \in {inc, Blob!NoFile} /\ link' \in {link, FALSE}
  BY DEF Blob!SweepList, Blob!SweepRemove, Blob!SweepStale, Blob!Calm
<1>2. sweep' \subseteq {"path", "inc"}
  <2>1. CASE Blob!SweepList
    BY <2>1 DEF Blob!SweepList, Blob!Orphans
  <2>2. CASE Blob!SweepRemove \/ Blob!SweepStale
    BY <1>0, <2>2 DEF Blob!SweepRemove, Blob!SweepStale, BlobTyped
  <2> QED BY <2>1, <2>2
<1>3. BlobTyped'
  BY <1>0, <1>1, <1>2 DEF BlobTyped, Nodes
<1>4. OpenToWrite' /\ Exclusive'
  BY <1>0, <1>1 DEF OpenToWrite, Exclusive, Writing
<1>5. ASSUME NEW f \in Procs PROVE Writes(f)'
  <2>1. Writing(f) => fetch[f].fd # Blob!NoFile
    BY <1>0, InodesAreNumbers DEF OpenToWrite
  <2> QED BY <1>0, <1>1, <2>1 DEF Writes, Writing
<1>6. Blob!LockedBlobIsWhole'
  BY <1>0, <1>1 DEF Blob!LockedBlobIsWhole, Blob!Whole
<1>7. Undisturbed'
  <2>1. \A i \in Blob!Inodes : Covered(i) => Covered(i)'
    BY <1>1 DEF Covered, Writing
  <2>2. harm = {} /\ path' # Blob!NoFile => Covered(path)'
    BY <1>0, <1>1, <2>1 DEF Undisturbed, BlobTyped, Nodes
  <2>3. harm = {} /\ inc' # Blob!NoFile => Covered(inc)'
    BY <1>0, <1>1, <2>1 DEF Undisturbed, BlobTyped, Nodes
  <2> QED BY <1>0, <1>1, <2>2, <2>3 DEF Undisturbed
<1>8. Verified'
  BY <1>0, <1>1 DEF Verified, Unverified, Blob!Whole
<1>9. ASSUME NEW f \in Procs PROVE Knows(f)'
  BY <1>0, <1>1 DEF Knows, Asks, Blob!Whole
<1> QED BY <1>3, <1>4, <1>5, <1>6, <1>7, <1>8, <1>9 DEF BlobInv
-------------------------------------------------------------------------------
(* The invariant *)

(* There is no file at first. *)
LEMMA BlobInit ==
  ASSUME Blob!Parameters
  PROVE  Blob!Init => BlobInv
<1> SUFFICES ASSUME Blob!Init PROVE BlobInv
  OBVIOUS
<1>1. Blob!Empty \in [Chunks -> Data]
  BY DEF Blob!Empty, Data
<1>2. 0 \in 0..MaxFetchTrouble
  BY DEF Blob!Parameters
<1>3. \A f \in Procs : fetch[f] = Blob!Idle
  BY DEF Blob!Init
<1>4. fetch \in [Procs -> BlobRun]
  BY IdleIs DEF Blob!Init
<1>5. BlobTyped
  BY <1>1, <1>2, <1>4 DEF Blob!Parameters, Blob!Init, BlobTyped, Nodes
<1>6. OpenToWrite /\ Exclusive /\ \A f \in Procs : Writes(f) /\ Knows(f)
  BY <1>3, IdleIs DEF OpenToWrite, Exclusive, Writes, Writing, Knows, Asks
<1>7. Blob!LockedBlobIsWhole /\ Undisturbed /\ Verified
  BY <1>3, IdleIs DEF Blob!Init, Blob!LockedBlobIsWhole, Undisturbed, Verified
<1> QED BY <1>5, <1>6, <1>7 DEF BlobInv

(* The steps, as the lemmas sort them. *)
LEMMA BlobNextIs ==
  ASSUME Blob!Parameters, Blob!Next
  PROVE  (\E f \in Procs : Acts(f)) \/ Blob!SweepList \/ Blob!SweepRemove \/ Blob!SweepStale
BY DEF Blob!Next, Acts, MoveOf

(* Every step keeps the invariant. *)
LEMMA BlobKeeps ==
  ASSUME Blob!Parameters
  PROVE  BlobInv /\ [Blob!Next]_BlobVars => BlobInv'
<1> SUFFICES ASSUME BlobInv, [Blob!Next]_BlobVars PROVE BlobInv'
  OBVIOUS
<1>1. CASE \E f \in Procs : Acts(f)
  BY <1>1, MovesKeep, CreateKeeps, WriteKeeps, RenameKeeps DEF Acts
<1>2. CASE Blob!SweepList \/ Blob!SweepRemove \/ Blob!SweepStale
  BY <1>2, SweepsKeep
<1>3. CASE UNCHANGED BlobVars
  BY <1>3 DEF BlobVars, BlobInv, BlobTyped, OpenToWrite, Exclusive, Writes, Writing, Blob!LockedBlobIsWhole, Undisturbed, Covered,
              Verified, Unverified, Knows, Asks, Blob!Whole
<1> QED BY <1>1, <1>2, <1>3, BlobNextIs

(* The names point at inodes and the trouble stays within its bound. *)
LEMMA BlobTypes == BlobInv => Blob!TypeOK
BY DEF BlobInv, BlobTyped, Blob!TypeOK, BlobRun, Nodes, Data

(* Any number of runs that share one `.incomplete` without a lock leave a   *)
(* whole file or none, as long as nothing broke off, was wrong or killed.   *)
LEMMA SharingIsHarmless == BlobInv => Blob!QuietIsWhole
BY DEF BlobInv, BlobTyped, Nodes, Blob!QuietIsWhole, Undisturbed, Covered, Writing, Blob!At, Blob!Whole

(* fetch_manifest and download_cask return nothing their check would reject, *)
(* and leave nothing of the kind when they fail: a blob is whole before it   *)
(* has its name, a manifest is parsed and a container compared by the run    *)
(* that finds it, and removed at once.                                       *)
LEMMA RejectedGoes ==
  ASSUME BlobInv
  PROVE  Blob!RejectedIsNotKept
<1> SUFFICES ASSUME NEW f \in Procs, locked, kind # "nocheck", path # Blob!NoFile,
                    Blob!At(f, "done") \/ (Blob!At(f, "failed") /\ (kind = "manifest" => "kill" \notin harm))
             PROVE  Blob!Whole(path)
  BY DEF Blob!RejectedIsNotKept
<1>1. Knows(f) /\ Blob!LockedBlobIsWhole /\ Verified /\ kind \in {"blob", "manifest", "cask", "nocheck"}
  BY DEF BlobInv, BlobTyped
<1>2. CASE Blob!At(f, "done")
  BY <1>1, <1>2 DEF Knows, Blob!At
<1>3. CASE Blob!At(f, "failed") /\ kind = "manifest"
  <2>1. Exclusive /\ fetch[f].at = "failed"
    BY <1>3 DEF BlobInv, Blob!At
  <2>2. \A g \in Procs : ~Unverified(g)
    BY <2>1 DEF Exclusive, Unverified
  <2>3. "kill" \notin harm
    BY <1>3 DEF Blob!At
  <2> QED BY <1>1, <1>3, <2>2, <2>3 DEF Verified
<1>4. CASE Blob!At(f, "failed") /\ kind = "blob"
  BY <1>1, <1>4 DEF Blob!LockedBlobIsWhole
<1>5. CASE Blob!At(f, "failed") /\ kind = "cask"
  BY <1>1, <1>5 DEF Knows, Asks, Blob!At
<1> QED BY <1>1, <1>2, <1>3, <1>4, <1>5

(* refetch's promise: under the lock the file of a :latest cask is replaced *)
(* by a complete one only.                                                  *)
LEMMA CompleteIsKept ==
  ASSUME Blob!Parameters, BlobInv, [Blob!Next]_BlobVars
  PROVE  Blob!KeptUntilReplacedStep
<1> SUFFICES ASSUME locked, kind = "nocheck", path # Blob!NoFile, path' # Blob!NoFile, Blob!Complete(content[path])
             PROVE  Blob!Complete(content'[path'])
  BY DEF Blob!KeptUntilReplacedStep
<1>1. BlobTyped /\ OpenToWrite /\ \A f \in Procs : Writes(f)
  BY DEF BlobInv
<1>2. ASSUME NEW f \in Procs, MoveOf(f) PROVE path' = path /\ content' = content
  BY <1>1, <1>2, AroundIs DEF Around
<1>3. ASSUME NEW f \in Procs, Blob!Create(f) PROVE path' = path /\ content'[path] = content[path]
  <2>1. ~Writing(f)
    BY <1>3 DEF Blob!Create, Blob!At, Writing
  <2>2. inc = Blob!NoFile => Blob!Unused(Blob!Fresh)
    BY <1>1, <2>1, FreshIsUnused
  <2>3. ~Blob!Unused(path) /\ path \in Blob!Inodes
    BY <1>1 DEF Blob!Unused, BlobTyped, Nodes
  <2>4. path # IF inc = Blob!NoFile THEN Blob!Fresh ELSE inc
    BY <1>1, <2>2, <2>3 DEF BlobTyped
  <2> QED BY <1>3, <2>3, <2>4 DEF Blob!Create, Blob!Truncated
<1>4. ASSUME NEW f \in Procs, Blob!Write(f) PROVE path' = path /\ content'[path] = content[path]
  <2>1. path # fetch[f].fd
    BY <1>1, <1>4 DEF Writes, Writing, Blob!Write, Blob!At
  <2> QED BY <1>1, <1>4, <2>1 DEF Blob!Write, BlobTyped, Nodes
<1>5. ASSUME NEW f \in Procs, Blob!Rename(f), inc # Blob!NoFile PROVE content' = content /\ Blob!Complete(content[path'])
  <2>1. Writing(f) /\ fetch[f].next \notin Chunks /\ path' = inc /\ content' = content
    BY <1>5 DEF Blob!Rename, Blob!At, Writing
  <2>2. \A c \in Chunks : c < fetch[f].next
    BY <1>1, <2>1, ChunksAreNumbers DEF BlobTyped, BlobRun
  <2> QED BY <1>1, <1>5, <2>1, <2>2 DEF Writes, Blob!Complete
<1>6. ASSUME NEW f \in Procs, Blob!Rename(f), inc = Blob!NoFile PROVE path' = path /\ content' = content
  BY <1>6 DEF Blob!Rename
<1>7. CASE Blob!SweepList \/ Blob!SweepRemove \/ Blob!SweepStale \/ UNCHANGED BlobVars
  BY <1>7 DEF Blob!SweepList, Blob!SweepRemove, Blob!SweepStale, BlobVars
<1> QED BY <1>2, <1>3, <1>4, <1>5, <1>6, <1>7, BlobNextIs DEF Acts

-------------------------------------------------------------------------------
(* The API files *)
ApiPlaces == {"idle", "stat", "open", "read", "prune", "write", "reopen", "ask", "answer", "replace", "touch", "mark"}
Outcomes == {"none", "unchanged", "updated", "offline"}
Phases == {"none", "before", "after", "use"}
ApiRun == [at : ApiPlaces, auto : BOOLEAN, phase : Phases, since : Nat,
        payload : Nat, fp : Nat, outcome : Outcomes]

(* Where a run remembers the fingerprint, and where a payload. *)
HasFp(p) == api[p].at \in {"open", "read", "prune", "write", "reopen"}
HasPayload(p) == api[p].at \in {"prune", "write", "replace"}

ApiTyped ==
  /\ published \in Seq(Nat) /\ apiClock \in Nat /\ second \in Nat
  /\ file \in [payload : Nat, mtime : Nat]
  /\ indexes \subseteq [fp : Nat, payload : Nat]
  /\ marker \in BOOLEAN
  /\ api \in [Procs -> ApiRun]

(* Every time is past, and every payload was published; what a run asks with *)
(* is no later than the file, which others only replace and touch.           *)
IsPublished(n) == n \in 1..Api!Newest
IsPast(t) == t \in 1..apiClock
Past ==
  /\ Api!Newest >= 1
  /\ file = Api!NoFile \/ (IsPublished(file.payload) /\ IsPast(file.mtime))
  /\ \A i \in indexes : IsPast(i.fp) /\ IsPublished(i.payload)
  /\ \A i, k \in indexes : i.fp = k.fp => i = k
PastOf(p) ==
  /\ HasFp(p) => IsPast(api[p].fp)
  /\ HasPayload(p) => IsPublished(api[p].payload)
  /\ api[p].since <= apiClock /\ (file # Api!NoFile => api[p].since <= file.mtime)

(* What a run is about to write under the fingerprint it took was in the file
   when the file had it. *)
BuildsOfItsFile(p) ==
  api[p].at \in {"prune", "write"} /\ api[p].fp = file.mtime => api[p].payload = file.payload

(* The newest payload is in the file, or came while a run had an answer, or in
   a second in which the file had been dated. *)
UpToDate == file = Api!NoFile \/ file.payload = Api!Newest \/ Api!Newest \in overtaken
AnswerIsTrue(p) ==
  /\ api[p].at = "answer" /\ Api!NotModified(p) => UpToDate
  /\ api[p].at = "touch" => UpToDate
  /\ api[p].at = "replace" => api[p].payload = Api!Newest \/ Api!Newest \in overtaken

ApiInv ==
  /\ ApiTyped /\ Past
  /\ Api!IndexIsOfItsFile /\ Api!MissedOnlyIfOvertaken
  /\ \A p \in Procs : PastOf(p) /\ BuildsOfItsFile(p) /\ AnswerIsTrue(p)

-------------------------------------------------------------------------------
(* What p learns. *)

(* A step of p that changes nothing but what p knows. *)
LEMMA OnlyKnows ==
  ASSUME NEW p \in Procs, NEW r \in ApiRun, ApiInv, Api!Goes(p, r), UNCHANGED Api!World, UNCHANGED Api!Store,
         PastOf(p)', BuildsOfItsFile(p)', AnswerIsTrue(p)'
  PROVE  ApiInv'
<1>1. api' \in [Procs -> ApiRun] /\ \A q \in Procs : q # p => api'[q] = api[q]
  BY DEF ApiInv, ApiTyped, Api!Goes
<1>2. ApiTyped' /\ Past' /\ Api!IndexIsOfItsFile' /\ Api!MissedOnlyIfOvertaken'
  BY <1>1 DEF ApiInv, ApiTyped, Api!World, Api!Store, Past, IsPublished, IsPast, Api!IndexIsOfItsFile, Api!MissedOnlyIfOvertaken, Api!Newest
<1>3. ASSUME NEW q \in Procs, q # p
      PROVE  PastOf(q)' /\ BuildsOfItsFile(q)' /\ AnswerIsTrue(q)'
  <2>1. api'[q] = api[q]
    BY <1>1, <1>3
  <2> QED
    BY <2>1 DEF ApiInv, Api!World, Api!Store, PastOf, HasFp, HasPayload, IsPublished, IsPast, BuildsOfItsFile,
         AnswerIsTrue, Api!NotModified, UpToDate, Api!Newest
<1> QED BY <1>2, <1>3 DEF ApiInv

(* What p has just learnt is all that is new. *)
LEMMA ReadingKeeps ==
  ASSUME ApiInv, NEW p \in Procs,
         Api!Start(p) \/ Api!Stat(p) \/ Api!Open(p) \/ Api!Read(p) \/ Api!Reopen(p) \/ Api!Ask(p) \/ Api!Answer(p) \/ Api!NoAnswer(p)
  PROVE  ApiInv'
<1> DEFINE r == api[p]
<1>0. r \in ApiRun /\ UNCHANGED Api!World /\ UNCHANGED Api!Store /\ 0 \in Nat /\ file.mtime \in Nat /\ file.payload \in Nat
      /\ Api!Newest \in Nat /\ apiClock \in Nat
  BY DEF ApiInv, ApiTyped, Api!Start, Api!Stat, Api!Open, Api!Read, Api!Reopen, Api!Ask, Api!Answer, Api!NoAnswer, Api!Newest
<1> DEFINE G == \E s \in ApiRun : Api!Goes(p, s) /\ PastOf(p)' /\ BuildsOfItsFile(p)' /\ AnswerIsTrue(p)'
<1>1. SUFFICES G
  BY <1>0, OnlyKnows
<1> USE DEF PastOf, BuildsOfItsFile, AnswerIsTrue, HasFp, HasPayload
<1>2. ASSUME NEW s \in ApiRun, Api!Goes(p, s)
      PROVE  api'[p] = s
  BY <1>2 DEF Api!Goes, ApiInv, ApiTyped
<1>3. /\ PastOf(p) /\ BuildsOfItsFile(p) /\ AnswerIsTrue(p)
  BY DEF ApiInv
<1>4. ASSUME NEW s \in ApiRun, Api!Goes(p, s), s.at \in {"idle", "stat", "ask", "mark"}, s.since \in {0, r.since}
      PROVE  G
  <2>1. api'[p] = s
    BY <1>2, <1>4
  <2> QED BY <2>1, <1>0, <1>3, <1>4 DEF Api!World, Api!Store
<1>5. Api!Idle \in ApiRun /\ Api!Idle.at = "idle" /\ Api!Idle.since = 0 /\ (Api!Goes(p, Api!Idle) => G)
  <2>1. Api!Idle \in ApiRun /\ Api!Idle.at = "idle" /\ Api!Idle.since = 0
    BY DEF Api!Idle, ApiRun, ApiPlaces, Outcomes, Phases
  <2> QED BY <2>1, <1>4, <1>0
<1>6. \A a \in ApiPlaces : /\ [r EXCEPT !.at = a].since = r.since /\ [r EXCEPT !.at = a].at = a
                        /\ [r EXCEPT !.at = a].fp = r.fp /\ [r EXCEPT !.at = a].payload = r.payload
                        /\ [r EXCEPT !.at = a, !.fp = 0, !.payload = 0].at = a
                        /\ [r EXCEPT !.at = a, !.fp = 0, !.payload = 0].since = r.since
  BY <1>0 DEF ApiRun
<1>7. Api!Loaded(p) => G
  <2> SUFFICES ASSUME Api!Loaded(p) PROVE G
    OBVIOUS
  <2> DEFINE s == [r EXCEPT !.at = IF r.phase = "before" THEN "ask" ELSE "mark", !.fp = 0, !.payload = 0]
  <2>1. s \in ApiRun /\ s.at \in {"ask", "mark"} /\ s.since = r.since
    BY <1>0 DEF ApiRun, ApiPlaces, Outcomes, Phases
  <2>2. Api!Goes(p, s)
    BY DEF Api!Loaded
  <2> QED BY <2>1, <2>2, <1>3, <1>4
<1>8. Api!LoadFails(p) => G
  BY <1>5, <1>7 DEF Api!LoadFails, Api!Fails
<1>9. CASE Api!Start(p)
  <2>1. PICK command \in {"update", "auto", "load"} :
          Api!Goes(p, [Api!Idle EXCEPT !.at = "stat", !.auto = command = "auto",
                               !.phase = IF command = "load" THEN "use" ELSE "before"])
    BY <1>9 DEF Api!Start
  <2>2. PICK auto \in BOOLEAN : auto = (command = "auto")
    OBVIOUS
  <2>3. PICK phase \in {"use", "before"} : phase = IF command = "load" THEN "use" ELSE "before"
    OBVIOUS
  <2> DEFINE s == [Api!Idle EXCEPT !.at = "stat", !.auto = auto, !.phase = phase]
  <2>4. Api!Goes(p, s)
    <3> DEFINE t == [Api!Idle EXCEPT !.at = "stat", !.auto = command = "auto",
                                 !.phase = IF command = "load" THEN "use" ELSE "before"]
    <3>1. t = s
      BY <2>2, <2>3, Zenon
    <3>2. Api!Goes(p, t)
      BY <2>1
    <3> HIDE DEF s, t
    <3> QED BY <3>1, <3>2
  <2>5. s \in ApiRun /\ s.at = "stat" /\ s.since = 0
    BY <2>2, <2>3 DEF Api!Idle, ApiRun, ApiPlaces, Outcomes, Phases
  <2> HIDE DEF s
  <2> QED BY <2>4, <2>5, <1>0, <1>4
<1>10. CASE Api!Stat(p)
  <2>1. CASE file = Api!NoFile
    BY <1>10, <2>1, <1>8 DEF Api!Stat
  <2>2. CASE file # Api!NoFile
    <3> DEFINE s == [r EXCEPT !.fp = file.mtime, !.at = IF r.outcome = "updated" THEN "read" ELSE "open"]
    <3>1. s \in ApiRun /\ s.at \in {"read", "open"} /\ s.fp = file.mtime /\ s.since = r.since
      BY <1>0 DEF ApiRun, ApiPlaces, Outcomes, Phases
    <3>2. Api!Goes(p, s) /\ api'[p] = s
      BY <1>10, <2>2, <1>2, <3>1 DEF Api!Stat
    <3>3. file.mtime \in 1..apiClock
      BY <2>2, <1>0 DEF ApiInv, Past, IsPast
    <3>4. PastOf(p)' /\ BuildsOfItsFile(p)' /\ AnswerIsTrue(p)'
      BY <3>1, <3>2, <3>3, <1>0, <1>3 DEF Api!World, Api!Store, IsPast
    <3> QED BY <3>1, <3>2, <3>4
  <2> QED BY <2>1, <2>2
<1>11. CASE Api!Open(p)
  <2>1. CASE Api!To(p, "read") /\ Api!At(p, "open")
    <3> DEFINE s == [r EXCEPT !.at = "read"]
    <3>1. s \in ApiRun /\ s.at = "read" /\ s.fp = r.fp /\ s.since = r.since
      BY <1>0, <1>6 DEF ApiRun, ApiPlaces, Outcomes, Phases
    <3>2. Api!Goes(p, s) /\ api'[p] = s
      BY <2>1, <1>2, <3>1 DEF Api!To
    <3>3. PastOf(p)' /\ BuildsOfItsFile(p)' /\ AnswerIsTrue(p)'
      BY <2>1, <3>1, <3>2, <1>0, <1>3 DEF Api!World, Api!Store, Api!At, IsPast
    <3> QED BY <3>1, <3>2, <3>3
  <2> QED BY <2>1, <1>11, <1>7 DEF Api!Open
<1>12. CASE Api!Read(p)
  <2>1. CASE file = Api!NoFile
    BY <1>12, <2>1, <1>8 DEF Api!Read
  <2>2. CASE file # Api!NoFile
    <3> DEFINE s == [r EXCEPT !.at = "prune", !.payload = file.payload]
    <3>1. s \in ApiRun /\ s.at = "prune" /\ s.fp = r.fp /\ s.payload = file.payload /\ s.since = r.since
      BY <1>0 DEF ApiRun, ApiPlaces, Outcomes, Phases
    <3>2. Api!Goes(p, s) /\ api'[p] = s
      BY <1>12, <2>2, <1>2, <3>1 DEF Api!Read
    <3>3. file.payload \in 1..Api!Newest /\ r.fp \in 1..apiClock /\ r.since <= apiClock /\ r.since <= file.mtime
      BY <1>12, <2>2, <1>0, <1>3 DEF ApiInv, Past, IsPublished, IsPast, Api!Read, Api!At
    <3>4. PastOf(p)' /\ BuildsOfItsFile(p)' /\ AnswerIsTrue(p)'
      BY <3>1, <3>2, <3>3, <1>0 DEF Api!World, Api!Store, IsPast, IsPublished, Api!Newest
    <3> QED BY <3>1, <3>2, <3>4
  <2> QED BY <2>1, <2>2
<1>13. CASE Api!Reopen(p)
  BY <1>13, <1>7, <1>8 DEF Api!Reopen
<1>14. CASE Api!Ask(p)
  <2>1. CASE Api!Goes(p, [r EXCEPT !.at = "stat", !.auto = FALSE, !.phase = "after", !.outcome = "unchanged"])
    <3> DEFINE s == [r EXCEPT !.at = "stat", !.auto = FALSE, !.phase = "after", !.outcome = "unchanged"]
    <3>1. s \in ApiRun /\ s.at = "stat" /\ s.since = r.since
      BY <1>0 DEF ApiRun, ApiPlaces, Outcomes, Phases
    <3> QED BY <2>1, <3>1, <1>3, <1>4
  <2>2. CASE Api!Goes(p, [r EXCEPT !.at = "answer", !.auto = FALSE, !.since = file.mtime])
    <3> DEFINE s == [r EXCEPT !.at = "answer", !.auto = FALSE, !.since = file.mtime]
    <3>1. s \in ApiRun /\ s.at = "answer" /\ s.since = file.mtime
      BY <1>0 DEF ApiRun, ApiPlaces, Outcomes, Phases
    <3>2. Api!Goes(p, s) /\ api'[p] = s
      BY <2>2, <1>2, <3>1
    <3>3. file.mtime <= apiClock
      BY <1>0 DEF ApiInv, Past, IsPast, Api!NoFile
    <3>4. published[Api!Newest] <= file.mtime => UpToDate
      BY <1>0 DEF ApiInv, Api!MissedOnlyIfOvertaken, UpToDate, Past, IsPublished
    <3>5. Api!NotModified(p)' => UpToDate'
      BY <3>1, <3>2, <3>4, <1>0 DEF Api!NotModified, UpToDate, Api!World, Api!Store, Api!Newest
    <3>6. PastOf(p)' /\ BuildsOfItsFile(p)' /\ AnswerIsTrue(p)'
      BY <3>1, <3>2, <3>3, <3>5, <1>0 DEF Api!World, Api!Store
    <3> QED BY <3>1, <3>2, <3>6
  <2> QED BY <1>14, <2>1, <2>2 DEF Api!Ask
<1>15. CASE Api!Answer(p)
  <2>1. CASE Api!NotModified(p) /\ Api!Goes(p, [r EXCEPT !.at = "touch", !.since = 0, !.outcome = "unchanged"])
    <3> DEFINE s == [r EXCEPT !.at = "touch", !.since = 0, !.outcome = "unchanged"]
    <3>1. s \in ApiRun /\ s.at = "touch" /\ s.since = 0
      BY <1>0 DEF ApiRun, ApiPlaces, Outcomes, Phases
    <3>2. Api!Goes(p, s) /\ api'[p] = s
      BY <2>1, <1>2, <3>1
    <3>3. UpToDate'
      BY <1>15, <2>1, <1>3, <1>0 DEF Api!Answer, Api!At, UpToDate, Api!World, Api!Store, Api!Newest
    <3>4. PastOf(p)' /\ BuildsOfItsFile(p)' /\ AnswerIsTrue(p)'
      BY <3>1, <3>2, <3>3, <1>0 DEF Api!World, Api!Store
    <3> QED BY <3>1, <3>2, <3>4
  <2>2. CASE Api!Goes(p, [r EXCEPT !.at = "replace", !.since = 0, !.payload = Api!Newest])
    <3> DEFINE s == [r EXCEPT !.at = "replace", !.since = 0, !.payload = Api!Newest]
    <3>1. s \in ApiRun /\ s.at = "replace" /\ s.since = 0 /\ s.payload = Api!Newest
      BY <1>0 DEF ApiRun, ApiPlaces, Outcomes, Phases
    <3>2. Api!Goes(p, s) /\ api'[p] = s
      BY <2>2, <1>2, <3>1
    <3>3. Api!Newest >= 1 /\ Api!Newest' = Api!Newest
      BY <1>0 DEF ApiInv, Past, Api!World, Api!Newest
    <3>4. PastOf(p)' /\ BuildsOfItsFile(p)' /\ AnswerIsTrue(p)'
      BY <3>1, <3>2, <3>3, <1>0 DEF Api!World, Api!Store, IsPublished
    <3> QED BY <3>1, <3>2, <3>4
  <2> QED BY <1>15, <2>1, <2>2 DEF Api!Answer
<1>16. CASE Api!NoAnswer(p)
  <2>1. CASE Api!Goes(p, [r EXCEPT !.at = "stat", !.since = 0, !.phase = "after", !.outcome = "offline"])
    <3> DEFINE s == [r EXCEPT !.at = "stat", !.since = 0, !.phase = "after", !.outcome = "offline"]
    <3>1. s \in ApiRun /\ s.at = "stat" /\ s.since = 0
      BY <1>0 DEF ApiRun, ApiPlaces, Outcomes, Phases
    <3>2. Api!Goes(p, s)
      BY <2>1
    <3> HIDE DEF s
    <3> QED BY <3>1, <3>2, <1>0, <1>4
  <2> QED BY <1>16, <2>1, <1>5 DEF Api!NoAnswer, Api!Fails
<1> QED BY <1>9, <1>10, <1>11, <1>12, <1>13, <1>14, <1>15, <1>16

-------------------------------------------------------------------------------
(* The steps that change the files, and the server. *)

(* What is published while a run has an answer, or in a second the file is *)
(* dated with, is overtaken.                                               *)
LEMMA PublishKeeps ==
  ASSUME ApiInv, Api!Publish
  PROVE  ApiInv'
<1>0. /\ published \in Seq(Nat) /\ apiClock \in Nat /\ apiClock' = apiClock + 1 /\ apiClock' \in Nat /\ second' \in Nat
      /\ published' = Append(published, second') /\ file' = file /\ indexes' = indexes /\ api' = api
      /\ marker' = marker
  BY DEF ApiInv, ApiTyped, Api!Publish, Api!Tick, Api!Store
<1>1. Api!Newest' = Api!Newest + 1 /\ published'[Api!Newest'] = second' /\ Api!Newest >= 1 /\ Api!Newest \in Nat /\ published' \in Seq(Nat)
  BY <1>0 DEF Api!Newest, ApiInv, Past
<1>2. ApiTyped'
  BY <1>0, <1>1 DEF ApiInv, ApiTyped
<1>3. Past'
  <2>1. \A n : (IsPublished(n) => IsPublished(n)') /\ (IsPast(n) => IsPast(n)')
    BY <1>0, <1>1 DEF IsPublished, IsPast
  <2>2. Api!Newest' >= 1
    BY <1>1
  <2>3. Past
    BY DEF ApiInv
  <2>4. file' = Api!NoFile \/ (IsPublished(file.payload)' /\ IsPast(file.mtime)')
    BY <1>0, <2>1, <2>3 DEF Past
  <2>5. \A i \in indexes' : IsPast(i.fp)' /\ IsPublished(i.payload)'
    BY <1>0, <2>1, <2>3 DEF Past
  <2> QED BY <1>0, <2>2, <2>3, <2>4, <2>5 DEF Past
<1>4. Api!IndexIsOfItsFile'
  BY <1>0 DEF ApiInv, Api!IndexIsOfItsFile
<1>5. file # Api!NoFile /\ second' <= file.mtime => Api!Newest' \in overtaken'
  BY <1>1 DEF Api!Publish
<1>6. Api!MissedOnlyIfOvertaken'
  BY <1>0, <1>1, <1>5 DEF Api!MissedOnlyIfOvertaken
<1>7. ASSUME NEW q \in Procs
      PROVE  PastOf(q)' /\ BuildsOfItsFile(q)' /\ AnswerIsTrue(q)'
  <2>0. PastOf(q) /\ BuildsOfItsFile(q) /\ api[q] \in ApiRun /\ file.mtime \in Nat
    BY DEF ApiInv, ApiTyped
  <2>1. PastOf(q)' /\ BuildsOfItsFile(q)'
    BY <1>0, <1>1, <2>0 DEF PastOf, HasFp, HasPayload, IsPublished, IsPast, BuildsOfItsFile, ApiRun
  <2>2. api[q].at \in {"replace", "touch"} => Api!Newest' \in overtaken'
    BY <1>0, <1>1 DEF Api!Publish
  <2>3. Api!NotModified(q)' => UpToDate'
    <3> SUFFICES ASSUME second' <= api[q].since, file # Api!NoFile
                 PROVE  Api!Newest' \in overtaken'
      BY <1>0, <1>1 DEF Api!NotModified, UpToDate
    <3>1. second' <= file.mtime
      BY <1>0, <2>0 DEF PastOf, ApiRun
    <3> QED BY <1>5, <3>1
  <2> QED BY <1>0, <2>1, <2>2, <2>3 DEF AnswerIsTrue, UpToDate
<1> QED BY <1>2, <1>3, <1>4, <1>6, <1>7 DEF ApiInv

(* A step of p that leaves the file and the server alone. *)
LEMMA IndexStepKeeps ==
  ASSUME ApiInv, NEW p \in Procs, Api!Prune(p) \/ Api!WriteIndex(p) \/ Api!Mark(p)
  PROVE  ApiInv'
<1> DEFINE r == api[p]
<1>0. /\ r \in ApiRun /\ file' = file /\ published' = published /\ apiClock' = apiClock /\ overtaken' = overtaken
      /\ Api!Newest' = Api!Newest /\ 0 \in Nat /\ apiClock \in Nat /\ Api!Newest \in Nat
      /\ PastOf(p) /\ BuildsOfItsFile(p)
  BY DEF ApiInv, ApiTyped, Api!Prune, Api!WriteIndex, Api!Mark, Api!World, Api!Newest
<1>1. PICK s \in ApiRun : Api!Goes(p, s) /\ s.since = r.since * (IF s.at = "idle" THEN 0 ELSE 1)
                      /\ \/ Api!Prune(p) /\ s.at = "write" /\ s.fp = r.fp /\ s.payload = r.payload
                         \/ Api!WriteIndex(p) /\ s.at = "reopen" /\ s.fp = r.fp
                         \/ Api!Mark(p) /\ s.at = "idle"
  <2>1. CASE Api!Prune(p)
    <3> DEFINE s == [r EXCEPT !.at = "write"]
    <3>1. s \in ApiRun /\ s.at = "write" /\ s.fp = r.fp /\ s.payload = r.payload /\ s.since = r.since /\ r.since \in Nat
      BY <1>0 DEF ApiRun, ApiPlaces
    <3>2. Api!Goes(p, s)
      BY <2>1 DEF Api!Prune, Api!To
    <3> HIDE DEF s
    <3> QED BY <2>1, <3>1, <3>2
  <2>2. CASE Api!WriteIndex(p)
    <3> DEFINE s == [r EXCEPT !.at = "reopen", !.payload = 0]
    <3>1. s \in ApiRun /\ s.at = "reopen" /\ s.fp = r.fp /\ s.since = r.since /\ r.since \in Nat
      BY <1>0 DEF ApiRun, ApiPlaces
    <3>2. Api!Goes(p, s)
      BY <2>2 DEF Api!WriteIndex
    <3> HIDE DEF s
    <3> QED BY <2>2, <3>1, <3>2
  <2>3. CASE Api!Mark(p)
    <3>1. Api!Idle \in ApiRun /\ Api!Idle.at = "idle" /\ Api!Idle.since = 0 /\ r.since \in Nat
      BY <1>0 DEF Api!Idle, ApiRun, ApiPlaces, Outcomes, Phases
    <3>2. Api!Goes(p, Api!Idle)
      BY <2>3 DEF Api!Mark
    <3> QED BY <2>3, <3>1, <3>2
  <2> QED BY <2>1, <2>2, <2>3
<1>2. api' \in [Procs -> ApiRun] /\ api'[p] = s /\ \A q \in Procs : q # p => api'[q] = api[q]
  BY <1>1 DEF Api!Goes, ApiInv, ApiTyped
<1>3. s.since \in Nat /\ s.since <= apiClock /\ (file # Api!NoFile => s.since <= file.mtime)
  <2>1. file.mtime \in Nat /\ s.since \in {0, r.since}
    BY <1>0, <1>1 DEF ApiInv, ApiTyped, ApiRun
  <2> QED BY <1>0, <2>1 DEF PastOf, ApiRun
<1>4. PastOf(p)' /\ BuildsOfItsFile(p)' /\ AnswerIsTrue(p)'
  <2>1. CASE Api!Prune(p)
    BY <1>0, <1>1, <1>2, <1>3, <2>1 DEF PastOf, HasFp, HasPayload, IsPublished, IsPast, BuildsOfItsFile, AnswerIsTrue, Api!Prune, Api!At
  <2>2. CASE Api!WriteIndex(p)
    BY <1>0, <1>1, <1>2, <1>3, <2>2 DEF PastOf, HasFp, HasPayload, IsPublished, IsPast, BuildsOfItsFile, AnswerIsTrue, Api!WriteIndex, Api!At
  <2>3. CASE s.at = "idle"
    BY <1>0, <1>1, <1>2, <1>3, <2>3 DEF PastOf, HasFp, HasPayload, BuildsOfItsFile, AnswerIsTrue
  <2> QED BY <1>1, <2>1, <2>2, <2>3
<1>5. ASSUME NEW q \in Procs, q # p
      PROVE  PastOf(q)' /\ BuildsOfItsFile(q)' /\ AnswerIsTrue(q)'
  BY <1>0, <1>2, <1>5 DEF ApiInv, PastOf, HasFp, HasPayload, IsPublished, IsPast, BuildsOfItsFile,
       AnswerIsTrue, Api!NotModified, UpToDate
<1>6. /\ indexes' \subseteq [fp : Nat, payload : Nat]
      /\ \A i \in indexes' : IsPast(i.fp) /\ IsPublished(i.payload)
      /\ \A i, k \in indexes' : i.fp = k.fp => i = k
      /\ Api!IndexIsOfItsFile'
  <2>0. /\ indexes \subseteq [fp : Nat, payload : Nat]
        /\ \A i \in indexes : IsPast(i.fp) /\ IsPublished(i.payload)
        /\ \A i, k \in indexes : i.fp = k.fp => i = k
        /\ Api!IndexIsOfItsFile
    BY DEF ApiInv, ApiTyped, Past
  <2>1. CASE indexes' \subseteq indexes
    BY <1>0, <2>0, <2>1 DEF Api!IndexIsOfItsFile
  <2>2. CASE Api!WriteIndex(p)
    <3> DEFINE new == [fp |-> r.fp, payload |-> r.payload]
    <3>1. new \in [fp : Nat, payload : Nat] /\ new.fp = r.fp /\ new.payload = r.payload
      BY <1>0 DEF ApiRun
    <3>2. /\ \A i \in indexes' : i = new \/ (i \in indexes /\ i.fp # new.fp)
      BY <2>2, <3>1 DEF Api!WriteIndex, Api!Named
    <3>3. IsPast(new.fp) /\ IsPublished(new.payload) /\ (new.fp = file.mtime => new.payload = file.payload)
      BY <1>0, <2>2, <3>1 DEF PastOf, HasFp, HasPayload, BuildsOfItsFile, Api!WriteIndex, Api!At
    <3> HIDE DEF new
    <3> QED BY <1>0, <2>0, <3>1, <3>2, <3>3 DEF Api!IndexIsOfItsFile
  <2> QED BY <1>1, <2>1, <2>2 DEF Api!Prune, Api!Mark, Api!Named
<1>7. marker' \in BOOLEAN /\ second' \in Nat
  BY <1>1 DEF Api!Prune, Api!WriteIndex, Api!Mark, Api!World, ApiInv, ApiTyped
<1>8. ApiTyped' /\ Past' /\ Api!MissedOnlyIfOvertaken'
  BY <1>0, <1>2, <1>6, <1>7 DEF ApiInv, ApiTyped, Past, Api!MissedOnlyIfOvertaken, IsPast, IsPublished
<1> QED BY <1>4, <1>5, <1>6, <1>8 DEF ApiInv

(* A run that ends, with the file or after it has removed it. *)
LEMMA EndingKeeps ==
  ASSUME ApiInv, NEW p \in Procs, Api!Forged(p) \/ Api!Kill(p)
  PROVE  ApiInv'
<1>0. /\ Api!Idle \in ApiRun /\ Api!Idle.at = "idle" /\ Api!Idle.since = 0 /\ Api!Goes(p, Api!Idle) /\ apiClock \in Nat
      /\ (file' = file \/ file' = Api!NoFile) /\ UNCHANGED <<Api!World, indexes, marker>> /\ Api!Newest' = Api!Newest
      /\ Api!NoFile \in [payload : Nat, mtime : Nat] /\ Api!NoFile.mtime = 0 /\ file.mtime \in Nat
  BY DEF Api!Idle, ApiRun, ApiPlaces, Outcomes, Phases, Api!Forged, Api!Kill, Api!Fails, Api!Store, Api!NoFile, ApiInv, ApiTyped, Api!World, Api!Newest
<1>1. api' \in [Procs -> ApiRun] /\ api'[p] = Api!Idle /\ \A q \in Procs : q # p => api'[q] = api[q]
  BY <1>0 DEF Api!Goes, ApiInv, ApiTyped
<1>2. PastOf(p)' /\ BuildsOfItsFile(p)' /\ AnswerIsTrue(p)'
  BY <1>0, <1>1 DEF PastOf, HasFp, HasPayload, BuildsOfItsFile, AnswerIsTrue, Api!World
<1>3. ASSUME NEW q \in Procs, q # p
      PROVE  PastOf(q)' /\ BuildsOfItsFile(q)' /\ AnswerIsTrue(q)'
  <2>1. api'[q] = api[q] /\ PastOf(q) /\ BuildsOfItsFile(q) /\ AnswerIsTrue(q)
    BY <1>1, <1>3 DEF ApiInv
  <2>2. PastOf(q)'
    BY <1>0, <2>1 DEF PastOf, HasFp, HasPayload, IsPublished, IsPast, Api!World
  <2>3. BuildsOfItsFile(q)'
    BY <1>0, <2>1 DEF BuildsOfItsFile, PastOf, HasFp, IsPast
  <2>4. AnswerIsTrue(q)'
    BY <1>0, <2>1 DEF AnswerIsTrue, Api!NotModified, UpToDate, Api!World
  <2> QED BY <2>2, <2>3, <2>4
<1>4. Api!IndexIsOfItsFile'
  BY <1>0 DEF Api!IndexIsOfItsFile, ApiInv, Past, IsPast
<1>5. ApiTyped' /\ Past' /\ Api!MissedOnlyIfOvertaken'
  BY <1>0, <1>1 DEF ApiInv, ApiTyped, Past, Api!MissedOnlyIfOvertaken, IsPast, IsPublished, Api!World
<1> QED BY <1>2, <1>3, <1>4, <1>5 DEF ApiInv

(* The file is replaced, or touched: it gets a time that no fingerprint has. *)
LEMMA FileStepKeeps ==
  ASSUME ApiInv, NEW p \in Procs, Api!Replace(p) \/ Api!Touch(p)
  PROVE  ApiInv'
<1> DEFINE r == api[p]
<1>0. /\ r \in ApiRun /\ published' = published /\ overtaken' = overtaken /\ indexes' = indexes /\ marker' = marker
      /\ Api!Newest' = Api!Newest /\ apiClock' = apiClock + 1 /\ apiClock \in Nat /\ apiClock' \in Nat /\ Api!Newest \in Nat
      /\ PastOf(p) /\ AnswerIsTrue(p) /\ file \in [payload : Nat, mtime : Nat] /\ second' \in Nat
  BY DEF ApiInv, ApiTyped, Past, Api!Replace, Api!Touch, Api!Tick, Api!Newest
<1>1. /\ file' \in [payload : Nat, mtime : Nat]
      /\ \/ file' = Api!NoFile /\ file = Api!NoFile
         \/ file'.mtime = apiClock' /\ IsPublished(file'.payload) /\ (file'.payload = Api!Newest \/ Api!Newest \in overtaken)
  <2>1. CASE Api!Replace(p)
    <3>1. file' = [payload |-> r.payload, mtime |-> apiClock'] /\ r.at = "replace"
      BY <2>1 DEF Api!Replace, Api!At
    <3>2. file' \in [payload : Nat, mtime : Nat] /\ file'.mtime = apiClock' /\ file'.payload = r.payload
      BY <1>0, <3>1 DEF ApiRun
    <3> QED BY <1>0, <3>1, <3>2 DEF PastOf, HasPayload, AnswerIsTrue
  <2>2. CASE Api!Touch(p)
    <3>1. UpToDate
      BY <1>0, <2>2 DEF Api!Touch, Api!At, AnswerIsTrue
    <3>2. CASE file = Api!NoFile
      BY <1>0, <2>2, <3>2 DEF Api!Touch
    <3>3. CASE file # Api!NoFile
      <4>1. file' = [file EXCEPT !.mtime = apiClock']
        BY <2>2, <3>3 DEF Api!Touch
      <4>2. file' \in [payload : Nat, mtime : Nat] /\ file'.mtime = apiClock' /\ file'.payload = file.payload
        BY <1>0, <4>1
      <4>3. IsPublished(file.payload)
        BY <3>3 DEF ApiInv, Past
      <4> QED BY <3>1, <3>3, <4>2, <4>3 DEF UpToDate
    <3> QED BY <3>2, <3>3
  <2> QED BY <2>1, <2>2
<1>2. PICK s \in ApiRun : Api!Goes(p, s) /\ s.since = r.since
                      /\ (s.at = "stat" \/ (s.at = "touch" /\ Api!Replace(p)))
  <2>1. CASE Api!Replace(p)
    <3> DEFINE s == [r EXCEPT !.at = "touch", !.payload = 0, !.outcome = "updated"]
    <3>1. s \in ApiRun /\ s.at = "touch" /\ s.since = r.since
      BY <1>0 DEF ApiRun, ApiPlaces, Outcomes
    <3>2. Api!Goes(p, s)
      BY <2>1 DEF Api!Replace
    <3> HIDE DEF s
    <3> QED BY <2>1, <3>1, <3>2
  <2>2. CASE Api!Touch(p)
    <3> DEFINE s == [r EXCEPT !.at = "stat", !.phase = "after"]
    <3>1. s \in ApiRun /\ s.at = "stat" /\ s.since = r.since
      BY <1>0 DEF ApiRun, ApiPlaces, Phases
    <3>2. Api!Goes(p, s)
      BY <2>2 DEF Api!Touch
    <3> HIDE DEF s
    <3> QED BY <2>2, <3>1, <3>2
  <2> QED BY <2>1, <2>2
<1>3. api' \in [Procs -> ApiRun] /\ api'[p] = s /\ \A q \in Procs : q # p => api'[q] = api[q]
  BY <1>2 DEF Api!Goes, ApiInv, ApiTyped
<1>4. UpToDate => UpToDate'
  BY <1>0, <1>1 DEF UpToDate
<1>5. Api!Replace(p) => UpToDate'
  BY <1>0, <1>1 DEF UpToDate
<1>6. PastOf(p)' /\ BuildsOfItsFile(p)' /\ AnswerIsTrue(p)'
  <2>1. r.since <= apiClock' /\ r.since \in Nat /\ (file' # Api!NoFile => r.since <= file'.mtime)
    BY <1>0, <1>1 DEF PastOf, ApiRun
  <2> QED BY <1>2, <1>3, <1>5, <2>1 DEF PastOf, HasFp, HasPayload, BuildsOfItsFile, AnswerIsTrue
<1>7. ASSUME NEW q \in Procs, q # p
      PROVE  PastOf(q)' /\ BuildsOfItsFile(q)' /\ AnswerIsTrue(q)'
  <2>1. api'[q] = api[q] /\ PastOf(q) /\ BuildsOfItsFile(q) /\ AnswerIsTrue(q) /\ api[q] \in ApiRun
    BY <1>3, <1>7 DEF ApiInv, ApiTyped
  <2>2. PastOf(q)'
    BY <1>0, <1>1, <2>1 DEF PastOf, HasFp, HasPayload, IsPublished, IsPast, ApiRun
  <2>3. BuildsOfItsFile(q)'
    <3>1. HasFp(q) => api[q].fp # file'.mtime
      BY <1>0, <1>1, <2>1 DEF PastOf, IsPast, Api!NoFile
    <3> QED BY <2>1, <3>1 DEF BuildsOfItsFile, HasFp
  <2>4. AnswerIsTrue(q)'
    BY <1>0, <1>4, <2>1 DEF AnswerIsTrue, Api!NotModified
  <2> QED BY <2>2, <2>3, <2>4
<1>8. Api!IndexIsOfItsFile'
  <2>1. ASSUME NEW i \in indexes PROVE i.fp # file'.mtime
    BY <1>0, <1>1 DEF ApiInv, Past, IsPast, Api!NoFile
  <2> QED BY <1>0, <2>1 DEF Api!IndexIsOfItsFile
<1>9. Past'
  <2>1. \A n : (IsPublished(n) => IsPublished(n)') /\ (IsPast(n) => IsPast(n)')
    BY <1>0 DEF IsPublished, IsPast
  <2>2. file' = Api!NoFile \/ (IsPublished(file.payload)' /\ IsPast(file.mtime)')
    BY <1>0, <1>1 DEF IsPublished, IsPast
  <2>3. Api!Newest' >= 1
    BY <1>0 DEF ApiInv, Past
  <2> QED BY <1>0, <2>1, <2>2, <2>3 DEF ApiInv, Past
<1>10. Api!MissedOnlyIfOvertaken'
  BY <1>0, <1>1 DEF Api!MissedOnlyIfOvertaken
<1>11. ApiTyped'
  BY <1>0, <1>1, <1>3 DEF ApiInv, ApiTyped
<1> QED BY <1>6, <1>7, <1>8, <1>9, <1>10, <1>11 DEF ApiInv

-------------------------------------------------------------------------------
(* There is no file at first. *)
LEMMA ApiInit == Api!Init => ApiInv
<1> SUFFICES ASSUME Api!Init PROVE ApiInv
  OBVIOUS
<1>1. Api!Idle \in ApiRun /\ Api!Idle.at = "idle" /\ Api!Idle.since = 0 /\ Api!NoFile \in [payload : Nat, mtime : Nat] /\ Api!NoFile.mtime = 0
  BY DEF Api!Idle, ApiRun, ApiPlaces, Outcomes, Phases, Api!NoFile
<1>2. \A p \in Procs : api[p] = Api!Idle
  BY DEF Api!Init
<1>3. published \in Seq(Nat) /\ Api!Newest = 1 /\ apiClock = 1 /\ second = 1
  BY DEF Api!Init, Api!Newest
<1>4. ApiTyped /\ Past /\ Api!IndexIsOfItsFile /\ Api!MissedOnlyIfOvertaken
  <2>1. ApiTyped
    <3>1. api \in [Procs -> ApiRun] /\ file \in [payload : Nat, mtime : Nat] /\ indexes = {}
      BY <1>1 DEF Api!Init
    <3>2. marker \in BOOLEAN
      BY DEF Api!Init
    <3> QED BY <1>3, <3>1, <3>2 DEF ApiTyped
  <2>2. Past
    BY <1>3 DEF Api!Init, Past
  <2> QED BY <2>1, <2>2 DEF Api!Init, Api!IndexIsOfItsFile, Api!MissedOnlyIfOvertaken
<1>5. \A p \in Procs : PastOf(p) /\ BuildsOfItsFile(p) /\ AnswerIsTrue(p)
  <2> SUFFICES ASSUME NEW p \in Procs PROVE PastOf(p) /\ BuildsOfItsFile(p) /\ AnswerIsTrue(p)
    OBVIOUS
  <2>1. ~HasFp(p) /\ ~HasPayload(p) /\ api[p].at = "idle" /\ api[p].since = 0
    BY <1>1, <1>2 DEF HasFp, HasPayload
  <2>2. PastOf(p)
    BY <2>1 DEF PastOf, Api!Init
  <2>3. BuildsOfItsFile(p)
    BY <2>1 DEF BuildsOfItsFile
  <2>4. AnswerIsTrue(p)
    BY <2>1 DEF AnswerIsTrue
  <2> QED BY <2>2, <2>3, <2>4
<1> QED BY <1>4, <1>5 DEF ApiInv

(* Index::load, build and fetch_packages together keep the invariant. *)
LEMMA ApiKeeps == ApiInv /\ [Api!Next]_ApiVars => ApiInv'
<1> SUFFICES ASSUME ApiInv, [Api!Next]_ApiVars PROVE ApiInv'
  OBVIOUS
<1>1. CASE UNCHANGED ApiVars
  BY <1>1 DEF ApiVars, ApiInv, ApiTyped, Past, Api!IndexIsOfItsFile, Api!MissedOnlyIfOvertaken, PastOf, BuildsOfItsFile, AnswerIsTrue,
       HasFp, HasPayload, IsPublished, IsPast, Api!NotModified, UpToDate, Api!Newest
<1>2. CASE Api!Publish
  BY <1>2, PublishKeeps
<1>3. ASSUME NEW p \in Procs,
             Api!Start(p) \/ Api!Stat(p) \/ Api!Open(p) \/ Api!Read(p) \/ Api!Reopen(p) \/ Api!Ask(p) \/ Api!Answer(p) \/ Api!NoAnswer(p)
      PROVE  ApiInv'
  BY <1>3, ReadingKeeps
<1>4. ASSUME NEW p \in Procs, Api!Prune(p) \/ Api!WriteIndex(p) \/ Api!Mark(p)
      PROVE  ApiInv'
  BY <1>4, IndexStepKeeps
<1>5. ASSUME NEW p \in Procs, Api!Forged(p) \/ Api!Kill(p)
      PROVE  ApiInv'
  BY <1>5, EndingKeeps
<1>6. ASSUME NEW p \in Procs, Api!Replace(p) \/ Api!Touch(p)
      PROVE  ApiInv'
  BY <1>6, FileStepKeeps
<1> QED BY <1>1, <1>2, <1>3, <1>4, <1>5, <1>6 DEF Api!Next

(* What the files hold and the runs know keeps its type, and an index's name
   is its own (api/index.rs). *)
LEMMA ApiTypes == ApiInv => Api!TypeOK
<1> SUFFICES ASSUME ApiInv PROVE Api!TypeOK
  OBVIOUS
<1>1. /\ ApiTyped /\ Past /\ Api!Newest \in Nat /\ apiClock \in Nat
  BY DEF ApiInv, ApiTyped, Api!Newest
<1>2. file.payload \in 0..Api!Newest /\ file.mtime \in 0..apiClock
  BY <1>1 DEF Past, IsPublished, IsPast, Api!NoFile
<1>3. \A i \in indexes : i.payload \in 1..Api!Newest /\ Api!Named(i.fp) = {i}
  BY <1>1 DEF Past, IsPublished, Api!Named
<1>4. /\ marker \in BOOLEAN
      /\ \A p \in Procs : api[p].outcome \in {"none", "unchanged", "updated", "offline"}
  BY <1>1 DEF ApiTyped, ApiRun, Outcomes
<1> QED BY <1>2, <1>3, <1>4 DEF Api!TypeOK

-------------------------------------------------------------------------------
(* A tap *)
TapPlaces == {"idle", "clone", "checkout", "checked out", "failed", "untap", "remove", "fetched", "merging",
           "parse", "store", "loaded"}
File == [stamp : Nat, content : Nat]
Dir == [owner : Procs, file : File \cup {None}, git : Procs \cup {None}]
Work == [pc : TapPlaces, force : BOOLEAN, since : BOOLEAN, stamp : Nat, record : File \cup {None}, pours : BOOLEAN]

TapTyped ==
  /\ remote \in Nat /\ tapClock \in Nat
  /\ dir \in Dir \cup {None}
  /\ cache \in File \cup {None}
  /\ tapProc \in [Procs -> Work]

(* A record is of a file that has been there, and of the one that is there if
   it has its stamp. *)
OfTheFile(record) ==
  /\ record \in File /\ record.stamp <= tapClock
  /\ Tap!HasFile /\ record.stamp = dir.file.stamp => record.content = dir.file.content

Reads(p) ==
  /\ Tap!At(p, "parse") => tapProc[p].stamp <= tapClock
  /\ Tap!At(p, "store") => OfTheFile(tapProc[p].record)
Untaps(p) == Tap!At(p, "remove") /\ keg /\ ~tapProc[p].force => tapProc[p].since

TapInv ==
  /\ TapTyped
  /\ Tap!HasFile => dir.file.stamp <= tapClock
  /\ cache # None => OfTheFile(cache)
  /\ \A p \in Procs : Reads(p) /\ Untaps(p)

-------------------------------------------------------------------------------
(* A step after which the file is the one that was there, or none, or one with
   a stamp that no record has. *)
FileStep ==
  /\ tapClock' \in Nat /\ tapClock' >= tapClock /\ dir' \in Dir \cup {None}
  /\ Tap!HasFile' => dir'.file.stamp <= tapClock'
  /\ Tap!HasFile' => (Tap!HasFile /\ dir'.file = dir.file) \/ dir'.file.stamp > tapClock

(* What was read stays true of such a step. *)
LEMMA RecordsStay ==
  ASSUME TapInv, FileStep, NEW record, OfTheFile(record)
  PROVE  OfTheFile(record)'
BY DEF TapInv, TapTyped, FileStep, OfTheFile, File

(* git and untap: every step that touches the directory is one. *)
LEMMA StepsOfTheFile ==
  ASSUME TapInv, Tap!Next
  PROVE  FileStep
<1>0. TapTyped /\ tapClock \in Nat /\ remote \in Nat /\ (Tap!HasFile => dir.file.stamp <= tapClock)
  BY DEF TapInv, TapTyped
<1>1. CASE dir' = dir /\ tapClock' = tapClock
  BY <1>0, <1>1 DEF FileStep, TapTyped, Tap!HasFile, Tap!IsDir
<1>2. CASE dir' = None /\ tapClock' = tapClock
  BY <1>0, <1>2 DEF FileStep, Tap!HasFile, Tap!IsDir
<1>3. ASSUME NEW p \in Procs, NEW git \in Procs, dir' = [owner |-> p, file |-> None, git |-> git], tapClock' = tapClock
      PROVE  FileStep
  BY <1>0, <1>3 DEF FileStep, Tap!HasFile, Tap!IsDir, Dir
<1>4. ASSUME NEW held \in Nat, NEW git \in Procs \cup {None}, dir \in Dir, tapClock' = tapClock + 1,
             \/ dir' = [dir EXCEPT !.file = [stamp |-> tapClock + 1, content |-> held]]
             \/ dir' = [dir EXCEPT !.file = [stamp |-> tapClock + 1, content |-> held], !.git = git]
      PROVE  FileStep
  <2>1. [stamp |-> tapClock + 1, content |-> held] \in File
    BY <1>0 DEF File
  <2>2. dir' \in Dir /\ dir'.file = [stamp |-> tapClock + 1, content |-> held]
    BY <1>4, <2>1 DEF Dir
  <2> QED BY <1>0, <1>4, <2>2 DEF FileStep
<1>5. ASSUME NEW p \in Procs, Tap!CloneBegin(p) \/ Tap!CloneFailed(p) \/ Tap!UntapRemove(p)
      PROVE  FileStep
  BY <1>1, <1>2, <1>3, <1>5 DEF Tap!CloneBegin, Tap!CloneFailed, Tap!UntapRemove
<1>6. ASSUME NEW p \in Procs, Tap!Checkout(p) \/ Tap!CloneEnd(p) \/ Tap!MergeBegin(p) \/ Tap!MergeEnd(p)
      PROVE  FileStep
  <2>1. 0 \in Nat /\ p \in Procs \cup {None} /\ None \in Procs \cup {None} /\ (Tap!IsDir => dir \in Dir)
    BY <1>0 DEF TapTyped, Tap!IsDir
  <2>2. CASE Tap!Checkout(p)
    BY <1>4, <2>1, <2>2 DEF Tap!Checkout, Tap!Owns, Tap!Write, Tap!Half
  <2>3. CASE Tap!CloneEnd(p)
    BY ZenonT(120), <1>0, <1>4, <2>1, <2>3 DEF Tap!CloneEnd, Tap!Owns
  <2>4. CASE Tap!MergeBegin(p)
    BY ZenonT(120), <1>1, <1>4, <2>1, <2>4 DEF Tap!MergeBegin, Tap!HasFile, Tap!Half
  <2>5. CASE Tap!MergeEnd(p)
    BY ZenonT(120), <1>0, <1>1, <1>4, <2>1, <2>5 DEF Tap!MergeEnd, Tap!Merges
  <2> QED BY <1>6, <2>2, <2>3, <2>4, <2>5
<1>7. ASSUME NEW p \in Procs,
             \/ Tap!TapStart(p) \/ Tap!CloneBreaks(p) \/ Tap!UntapStart(p) \/ Tap!UntapCheck(p) \/ Tap!UpdateStart(p)
             \/ Tap!LoadStart(p) \/ Tap!Parse(p) \/ Tap!Store(p) \/ Tap!Pour(p)
      PROVE  FileStep
  BY <1>1, <1>7 DEF Tap!TapStart, Tap!CloneBreaks, Tap!UntapStart, Tap!UntapCheck, Tap!UpdateStart, Tap!LoadStart, Tap!Parse, Tap!Store, Tap!Pour
<1>8. CASE Tap!Push \/ Tap!Uninstall
  BY <1>1, <1>8 DEF Tap!Push, Tap!Uninstall
<1> QED BY <1>5, <1>6, <1>7, <1>8 DEF Tap!Next

(* What a process remembers afterwards. *)
LEMMA ProcessStep ==
  ASSUME TapInv, Tap!Next, NEW q \in Procs
  PROVE  tapProc' \in [Procs -> Work] /\ Reads(q)' /\ Untaps(q)'
<1>0. /\ TapTyped /\ tapClock \in Nat /\ Reads(q) /\ Untaps(q) /\ FileStep /\ tapProc \in [Procs -> Work]
  BY StepsOfTheFile DEF TapInv, TapTyped
<1>1. \A record : OfTheFile(record) => OfTheFile(record)'
  BY <1>0, RecordsStay
<1>2. tapClock' \in Nat /\ tapClock <= tapClock'
  BY <1>0 DEF FileStep
<1>3. ASSUME tapProc'[q] = tapProc[q], keg' = keg \/ ~keg'
      PROVE  Reads(q)' /\ Untaps(q)'
  <2>1. tapProc[q].stamp \in Nat
    BY <1>0 DEF Work
  <2>2. Reads(q)'
    BY <1>0, <1>1, <1>2, <1>3, <2>1 DEF Reads, Tap!At
  <2>3. Untaps(q)'
    BY <1>0, <1>3 DEF Untaps, Tap!At
  <2> QED BY <2>2, <2>3
<1>4. Tap!Idle \in Work /\ Tap!Idle.pc = "idle"
  BY DEF Tap!Idle, Work, TapPlaces
<1>5. ASSUME NEW w \in Work, tapProc'[q] = w, w.pc \notin {"parse", "store", "remove"}
      PROVE  Reads(q)' /\ Untaps(q)'
  BY <1>5 DEF Reads, Untaps, Tap!At
<1>6. ASSUME NEW p \in Procs, NEW pc \in TapPlaces, Tap!Goto(p, pc), pc \notin {"parse", "store", "remove"}, keg' = keg
      PROVE  tapProc' \in [Procs -> Work] /\ Reads(q)' /\ Untaps(q)'
  <2>1. [tapProc[p] EXCEPT !.pc = pc] \in Work /\ [tapProc[p] EXCEPT !.pc = pc].pc = pc
    BY <1>0 DEF Work
  <2>2. tapProc' = [tapProc EXCEPT ![p] = [tapProc[p] EXCEPT !.pc = pc]]
    BY <1>6 DEF Tap!Goto
  <2> QED BY <1>0, <1>3, <1>5, <1>6, <2>1, <2>2
<1>7. ASSUME NEW p \in Procs, Tap!Stop(p), keg' = keg
      PROVE  tapProc' \in [Procs -> Work] /\ Reads(q)' /\ Untaps(q)'
  BY <1>0, <1>3, <1>4, <1>5, <1>7 DEF Tap!Stop
<1>8. ASSUME UNCHANGED tapProc, keg' = keg \/ ~keg'
      PROVE  tapProc' \in [Procs -> Work] /\ Reads(q)' /\ Untaps(q)'
  BY <1>0, <1>3, <1>8
<1> USE DEF TapPlaces
<1>9. ASSUME NEW p \in Procs,
             \/ Tap!TapStart(p) \/ Tap!CloneBegin(p) \/ Tap!Checkout(p) \/ Tap!CloneEnd(p) \/ Tap!CloneBreaks(p) \/ Tap!CloneFailed(p)
             \/ Tap!UntapRemove(p) \/ Tap!UpdateStart(p) \/ Tap!MergeBegin(p) \/ Tap!MergeEnd(p)
      PROVE  tapProc' \in [Procs -> Work] /\ Reads(q)' /\ Untaps(q)'
  BY <1>6, <1>7, <1>8, <1>9 DEF Tap!TapStart, Tap!CloneBegin, Tap!Checkout, Tap!CloneEnd, Tap!CloneBreaks, Tap!CloneFailed,
       Tap!UntapRemove, Tap!UpdateStart, Tap!MergeBegin, Tap!MergeEnd, Tap!Write
<1>10. ASSUME NEW p \in Procs, Tap!UntapStart(p) \/ Tap!UntapCheck(p)
       PROVE  tapProc' \in [Procs -> Work] /\ Reads(q)' /\ Untaps(q)'
  <2>1. CASE Tap!Stop(p) \/ UNCHANGED tapProc
    BY <1>7, <1>8, <1>10, <2>1 DEF Tap!UntapStart, Tap!UntapCheck
  <2>2. CASE Tap!UntapStart(p) /\ \E force \in BOOLEAN : tapProc' = [tapProc EXCEPT ![p].pc = "untap", ![p].force = force]
    <3>1. PICK force \in BOOLEAN : tapProc' = [tapProc EXCEPT ![p].pc = "untap", ![p].force = force]
      BY <2>2
    <3> DEFINE w == [tapProc[p] EXCEPT !.pc = "untap", !.force = force]
    <3>2. w \in Work /\ w.pc = "untap"
      BY <1>0 DEF Work
    <3>3. tapProc' = [tapProc EXCEPT ![p] = w]
      BY <3>1
    <3> HIDE DEF w
    <3> QED BY <1>0, <1>3, <1>5, <2>2, <3>2, <3>3 DEF Tap!UntapStart
  <2>3. CASE Tap!UntapCheck(p) /\ (keg => tapProc[p].force) /\ tapProc' = [tapProc EXCEPT ![p].pc = "remove", ![p].since = FALSE]
    <3> DEFINE w == [tapProc[p] EXCEPT !.pc = "remove", !.since = FALSE]
    <3>1. w \in Work /\ w.pc = "remove" /\ w.force = tapProc[p].force
      BY <1>0 DEF Work
    <3>2. tapProc' = [tapProc EXCEPT ![p] = w] /\ keg' = keg
      BY <2>3 DEF Tap!UntapCheck
    <3>3. tapProc' \in [Procs -> Work]
      BY <1>0, <3>1, <3>2
    <3>4. CASE q = p
      <4>1. tapProc'[q] = w
        BY <1>0, <3>2, <3>4
      <4> HIDE DEF w
      <4> QED BY <2>3, <3>1, <3>2, <3>3, <4>1 DEF Reads, Untaps, Tap!At
    <3>5. CASE q # p
      BY <1>0, <1>3, <3>2, <3>3, <3>5
    <3> QED BY <3>4, <3>5
  <2> QED BY <1>10, <2>1, <2>2, <2>3 DEF Tap!UntapStart, Tap!UntapCheck
<1>11. ASSUME NEW p \in Procs, Tap!LoadStart(p)
       PROVE  tapProc' \in [Procs -> Work] /\ Reads(q)' /\ Untaps(q)'
  <2>0. Tap!HasFile /\ dir.file \in File /\ keg' = keg /\ dir.file.stamp <= tapClock /\ cache \in File \cup {None}
    BY <1>0, <1>11 DEF Tap!LoadStart, Tap!HasFile, Tap!IsDir, TapTyped, Dir, TapInv
  <2>1. PICK pours \in BOOLEAN :
          \/ tapProc' = [tapProc EXCEPT ![p] = [tapProc[p] EXCEPT !.pc = "loaded", !.record = cache, !.pours = pours]]
          \/ tapProc' = [tapProc EXCEPT ![p] = [tapProc[p] EXCEPT !.pc = "parse", !.stamp = dir.file.stamp, !.pours = pours]]
    <3>1. PICK pours \in BOOLEAN :
            tapProc' = [tapProc EXCEPT ![p] =
                    IF cache # None /\ cache.stamp = dir.file.stamp
                    THEN [@ EXCEPT !.pc = "loaded", !.record = cache, !.pours = pours]
                    ELSE [@ EXCEPT !.pc = "parse", !.stamp = dir.file.stamp, !.pours = pours]]
      BY <1>11 DEF Tap!LoadStart
    <3> QED BY <3>1, Zenon
  <2> DEFINE v == [tapProc[p] EXCEPT !.pc = "loaded", !.record = cache, !.pours = pours]
             w == [tapProc[p] EXCEPT !.pc = "parse", !.stamp = dir.file.stamp, !.pours = pours]
  <2>2. v \in Work /\ v.pc = "loaded" /\ w \in Work /\ w.pc = "parse" /\ w.stamp = dir.file.stamp
    BY ZenonT(120), <1>0, <2>0 DEF Work, File
  <2>3. tapProc' = [tapProc EXCEPT ![p] = v] \/ tapProc' = [tapProc EXCEPT ![p] = w]
    BY <2>1
  <2> HIDE DEF v, w
  <2>4. tapProc' \in [Procs -> Work]
    BY <1>0, <2>2, <2>3
  <2>5. CASE q # p
    BY <1>0, <1>3, <2>0, <2>3, <2>4, <2>5
  <2>6. CASE q = p /\ tapProc'[q] = v
    BY <1>5, <2>2, <2>4, <2>6
  <2>7. CASE q = p /\ tapProc'[q] = w
    <3>1. dir.file.stamp <= tapClock'
      BY <1>11, <2>0 DEF Tap!LoadStart
    <3> QED BY <2>2, <2>4, <2>7, <3>1 DEF Reads, Untaps, Tap!At
  <2> QED BY <1>0, <2>3, <2>5, <2>6, <2>7
<1>12. ASSUME NEW p \in Procs, Tap!Parse(p)
       PROVE  tapProc' \in [Procs -> Work] /\ Reads(q)' /\ Untaps(q)'
  <2> PICK x : x = [stamp |-> tapProc[p].stamp, content |-> IF Tap!HasFile THEN dir.file.content ELSE Tap!Half]
    OBVIOUS
  <2> DEFINE w == [tapProc[p] EXCEPT !.pc = "store", !.record = x]
  <2>0. UNCHANGED <<dir, tapClock, keg>> /\ tapProc[p] \in Work /\ tapProc[p].stamp \in Nat /\ tapProc[p].stamp <= tapClock
    BY <1>0, <1>12 DEF Tap!Parse, TapInv, Reads, Tap!At, Work
  <2>1. x \in File /\ x.stamp = tapProc[p].stamp /\ (Tap!HasFile => x.content = dir.file.content)
    BY <1>0, <2>0 DEF Tap!HasFile, Tap!IsDir, TapTyped, Dir, File, Tap!Half
  <2>2. OfTheFile(x)'
    BY <2>0, <2>1 DEF OfTheFile, Tap!HasFile, Tap!IsDir
  <2>3. tapProc' = [tapProc EXCEPT ![p] = w]
    BY <1>12 DEF Tap!Parse
  <2>4. w \in Work /\ w.pc = "store" /\ w.record = x
    BY <2>0, <2>1 DEF Work
  <2> HIDE DEF w
  <2>5. tapProc' \in [Procs -> Work]
    BY <1>0, <2>3, <2>4
  <2>6. CASE q # p
    BY <1>0, <1>3, <2>0, <2>3, <2>5, <2>6
  <2>7. CASE q = p
    <3>1. tapProc'[q] = w
      BY <1>0, <2>3, <2>7
    <3> QED BY <2>2, <2>4, <2>5, <3>1 DEF Reads, Untaps, Tap!At
  <2> QED BY <2>6, <2>7
<1>13. ASSUME NEW p \in Procs, Tap!Store(p)
       PROVE  tapProc' \in [Procs -> Work] /\ Reads(q)' /\ Untaps(q)'
  BY <1>6, <1>13 DEF Tap!Store
<1>14. ASSUME NEW p \in Procs, Tap!Pour(p)
       PROVE  tapProc' \in [Procs -> Work] /\ Reads(q)' /\ Untaps(q)'
  <2>1. CASE Tap!Stop(p) /\ UNCHANGED keg
    BY <1>7, <2>1
  <2>2. CASE tapProc' = [r \in Procs |-> IF r = p THEN Tap!Idle ELSE [tapProc[r] EXCEPT !.since = TRUE]]
    <3>1. \A r \in Procs : /\ [tapProc[r] EXCEPT !.since = TRUE] \in Work /\ [tapProc[r] EXCEPT !.since = TRUE].since
                           /\ [tapProc[r] EXCEPT !.since = TRUE].pc = tapProc[r].pc
                           /\ [tapProc[r] EXCEPT !.since = TRUE].stamp = tapProc[r].stamp
                           /\ [tapProc[r] EXCEPT !.since = TRUE].record = tapProc[r].record
      BY ZenonT(120), <1>0 DEF Work
    <3>2. tapProc' \in [Procs -> Work]
      BY <1>4, <2>2, <3>1
    <3>3. CASE q = p
      BY <1>4, <1>5, <2>2, <3>2, <3>3
    <3>4. CASE q # p
      <4>1. tapProc'[q].pc = tapProc[q].pc /\ tapProc'[q].since /\ tapProc'[q].stamp = tapProc[q].stamp /\ tapProc'[q].record = tapProc[q].record
        BY ZenonT(120), <2>2, <3>1, <3>4
      <4>2. tapProc[q].stamp \in Nat
        BY <1>0 DEF Work
      <4> QED BY <1>0, <1>1, <1>2, <3>2, <4>1, <4>2 DEF Reads, Untaps, Tap!At
    <3> QED BY <3>3, <3>4
  <2> QED BY <1>14, <2>1, <2>2 DEF Tap!Pour
<1>15. CASE Tap!Push \/ Tap!Uninstall
  BY SMTT(60), <1>8, <1>15 DEF Tap!Push, Tap!Uninstall
<1> QED BY <1>9, <1>10, <1>11, <1>12, <1>13, <1>14, <1>15 DEF Tap!Next

(* The cache is cleared, or gets what a process has read. *)
LEMMA CacheStep ==
  ASSUME TapInv, Tap!Next
  PROVE  cache' \in File \cup {None} /\ (cache' # None => OfTheFile(cache)')
<1>1. cache' = cache \/ cache' = None \/ \E p \in Procs : Tap!At(p, "store") /\ cache' = tapProc[p].record
  BY DEF Tap!Next, Tap!Push, Tap!Uninstall, Tap!TapStart, Tap!CloneBegin, Tap!Checkout, Tap!CloneEnd, Tap!CloneBreaks, Tap!CloneFailed, Tap!UntapStart,
       Tap!UntapCheck, Tap!UntapRemove, Tap!UpdateStart, Tap!MergeBegin, Tap!MergeEnd, Tap!LoadStart, Tap!Parse, Tap!Store, Tap!Pour
<1>2. \A record : OfTheFile(record) => record \in File /\ OfTheFile(record)'
  BY StepsOfTheFile, RecordsStay DEF OfTheFile
<1>3. CASE cache' = cache
  BY <1>2, <1>3 DEF TapInv, TapTyped, OfTheFile
<1>4. CASE \E p \in Procs : Tap!At(p, "store") /\ cache' = tapProc[p].record
  <2>1. PICK p \in Procs : OfTheFile(tapProc[p].record) /\ cache' = tapProc[p].record
    BY <1>4 DEF TapInv, Reads
  <2> QED BY <1>2, <2>1 DEF OfTheFile
<1> QED BY SMTT(60), <1>1, <1>3, <1>4

-------------------------------------------------------------------------------
(* Nothing has been read of a tap that is not there. *)
LEMMA TapInit == Tap!Init => TapInv
<1> SUFFICES ASSUME Tap!Init PROVE TapInv
  OBVIOUS
<1>1. Tap!Idle \in Work /\ Tap!Idle.pc = "idle"
  BY DEF Tap!Idle, Work, TapPlaces
<1>2. TapTyped
  BY <1>1 DEF Tap!Init, TapTyped
<1>3. \A p \in Procs : tapProc[p] = Tap!Idle
  BY DEF Tap!Init
<1>4. \A p \in Procs : Reads(p) /\ Untaps(p)
  BY <1>1, <1>3 DEF Reads, Untaps, Tap!At
<1> QED BY <1>2, <1>4 DEF Tap!Init, TapInv, Tap!HasFile, Tap!IsDir

(* All steps of tap.rs and api/taps.rs keep the invariant. *)
LEMMA TapKeeps == TapInv /\ [Tap!Next]_TapVars => TapInv'
<1> SUFFICES ASSUME TapInv, [Tap!Next]_TapVars PROVE TapInv'
  OBVIOUS
<1>1. CASE UNCHANGED TapVars
  BY SMTT(60), <1>1 DEF TapVars, TapInv, TapTyped, Reads, Untaps, OfTheFile, Tap!HasFile, Tap!IsDir, Tap!At
<1>2. CASE Tap!Next
  <2>0. remote' = remote \/ remote' = remote + 1
    BY <1>2 DEF Tap!Next, Tap!Push, Tap!Uninstall, Tap!TapStart, Tap!CloneBegin, Tap!Checkout, Tap!CloneEnd, Tap!CloneBreaks, Tap!CloneFailed,
       Tap!UntapStart, Tap!UntapCheck, Tap!UntapRemove, Tap!UpdateStart, Tap!MergeBegin, Tap!MergeEnd, Tap!LoadStart, Tap!Parse, Tap!Store, Tap!Pour
  <2>1. remote' \in Nat
    BY <2>0 DEF TapInv, TapTyped
  <2>2. tapClock' \in Nat /\ dir' \in Dir \cup {None} /\ (Tap!HasFile' => dir'.file.stamp <= tapClock')
    BY <1>2, StepsOfTheFile DEF FileStep
  <2>3. cache' \in File \cup {None} /\ (cache' # None => OfTheFile(cache)')
    BY <1>2, CacheStep
  <2>4. \A q \in Procs : tapProc' \in [Procs -> Work] /\ Reads(q)' /\ Untaps(q)'
    BY <1>2, ProcessStep
  <2>5. tapProc' \in [Procs -> Work]
    <3>1. CASE Procs = {}
      BY <1>2, <3>1 DEF TapInv, TapTyped, Tap!Next, Tap!Push, Tap!Uninstall
    <3> QED BY <2>4, <3>1
  <2> QED BY SMTT(60), <2>1, <2>2, <2>3, <2>4, <2>5 DEF TapInv, TapTyped
<1> QED BY <1>1, <1>2

(* untap.rs looks at the kegs once, and what it removes with a keg was poured since. *)
LEMMA UntapsSawNone == TapInv => Tap!UntapSawNoKegStep
BY DEF TapInv, Untaps, Tap!UntapSawNoKegStep
===============================================================================
