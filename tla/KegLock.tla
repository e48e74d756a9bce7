------------------------------- MODULE KegLock ------------------------------
(***************************************************************************)
(* The lock file protocol of one rack, `var/homebrew/locks/<name>.formula. *)
(* lock`: `keg::lock::lock` (src/keg/lock.rs) takes it and `brew cleanup`  *)
(* (`cleanup_lockfiles`, src/ops/cleanup.rs) unlinks the files it finds    *)
(* unlocked. Different names never interact, so one name is modelled.      *)
(*                                                                         *)
(* A file name and the file it names are different things: `path` is the   *)
(* inode the name refers to now, and a process keeps the inode it opened   *)
(* even after the name was unlinked or created anew. flock(2) belongs to   *)
(* the inode. An inode nobody refers to can be handed out again.           *)
(***************************************************************************)
EXTENDS Naturals

CONSTANTS
  Locker,     (* processes that run a command under the rack's lock *)
  Cleaner,    (* processes that run `cleanup_lockfiles`             *)
  Inode,      (* the inodes the file system can hand out            *)
  MaxTries,   (* the bound of the retry loop, 8 in the code         *)
  None        (* no inode, no process                               *)

Proc == Locker \union Cleaner

ASSUME DisjointRoles == Locker \cap Cleaner = {}
ASSUME NoneIsOutside == None \notin Proc /\ None \notin Inode
ASSUME SomeTries == MaxTries \in Nat \ {0}

VARIABLES
  path,    (* the inode the lock file's name refers to, or None     *)
  flock,   (* the process holding flock(2) on each inode, or None   *)
  fd,      (* the inode each process has open, or None              *)
  pc,      (* where each process is                                 *)
  tries    (* iterations of `lock`'s loop each locker has finished  *)

vars == <<path, flock, fd, pc, tries>>

LockerPC == {"idle", "opening", "opened", "locked", "held"}
CleanerPC == {"idle", "opened", "locked", "unlinked"}

(* Each variable keeps its type; `lock` never loops more than MaxTries times. *)
TypeOK ==
  /\ path \in Inode \union {None}
  /\ flock \in [Inode -> Proc \union {None}]
  /\ fd \in [Proc -> Inode \union {None}]
  /\ pc \in [Proc -> LockerPC \union CleanerPC]
  /\ tries \in [Locker -> 0..MaxTries]

Init ==
  /\ path \in Inode \union {None}
  /\ flock = [i \in Inode |-> None]
  /\ fd = [p \in Proc |-> None]
  /\ pc = [p \in Proc |-> "idle"]
  /\ tries = [p \in Locker |-> 0]

\* Mutated forms, each one slip in the code it stands for: flock in shared mode;
\* `lock` without the inode comparison; the retry loop without its bound, and with
\* a bound it does not test; a cleaner that unlinks without the flock.
FlockShared(p) ==
  /\ pc[p] = "opened"
  /\ flock' = [flock EXCEPT ![fd[p]] = p]
  /\ pc' = [pc EXCEPT ![p] = "locked"]
  /\ UNCHANGED <<path, fd, tries>>

SameInodeUnchecked(p) ==
  /\ pc[p] = "locked"
  /\ pc' = [pc EXCEPT ![p] = "held"]
  /\ UNCHANGED <<path, flock, fd, tries>>

ReplacedUncounted(p) ==
  /\ pc[p] = "locked"
  /\ path # fd[p]
  /\ fd' = [fd EXCEPT ![p] = None]
  /\ flock' = [i \in Inode |-> IF flock[i] = p THEN None ELSE flock[i]]
  /\ pc' = [pc EXCEPT ![p] = "opening"]
  /\ UNCHANGED <<path, tries>>

ReplacedUnbounded(p) ==
  /\ pc[p] = "locked"
  /\ path # fd[p]
  /\ fd' = [fd EXCEPT ![p] = None]
  /\ flock' = [i \in Inode |-> IF flock[i] = p THEN None ELSE flock[i]]
  /\ pc' = [pc EXCEPT ![p] = "opening"]
  /\ tries' = [tries EXCEPT ![p] = @ + 1]
  /\ UNCHANGED path

UnlinkUnlocked(c) ==
  /\ pc[c] \in {"opened", "locked"}
  /\ path' = None
  /\ pc' = [pc EXCEPT ![c] = "unlinked"]
  /\ UNCHANGED <<flock, fd, tries>>

Unused(i) == i # path /\ \A p \in Proc : fd[p] # i

GoTo(p, l) == pc' = [pc EXCEPT ![p] = l]

(* Closing the descriptor gives up the flock it carries. *)
Close(p) ==
  /\ fd' = [fd EXCEPT ![p] = None]
  /\ flock' = [i \in Inode |-> IF flock[i] = p THEN None ELSE flock[i]]

-----------------------------------------------------------------------------
(* `lock`: open or create, flock without waiting, compare the inodes.      *)

Begin(p) ==
  /\ pc[p] = "idle"
  /\ GoTo(p, "opening")
  /\ tries' = [tries EXCEPT ![p] = 0]
  /\ UNCHANGED <<path, flock, fd>>

OpenOrCreate(p) ==
  /\ pc[p] = "opening"
  /\ \/ path # None /\ UNCHANGED path
     \/ path = None /\ \E i \in Inode : Unused(i) /\ path' = i
  /\ fd' = [fd EXCEPT ![p] = path']
  /\ GoTo(p, "opened")
  /\ UNCHANGED <<flock, tries>>

Flock(p) ==
  /\ pc[p] = "opened"
  /\ flock[fd[p]] = None
  /\ flock' = [flock EXCEPT ![fd[p]] = p]
  /\ GoTo(p, "locked")
  /\ UNCHANGED <<path, fd, tries>>

(* LOCK_NB found the file locked: the caller gets OperationInProgressError
   (a cleaner goes on with the next file). *)
Busy(p) ==
  /\ pc[p] = "opened"
  /\ flock[fd[p]] # None
  /\ Close(p)
  /\ GoTo(p, "idle")
  /\ UNCHANGED <<path, tries>>

SameInode(p) ==
  /\ pc[p] = "locked"
  /\ path = fd[p]
  /\ GoTo(p, "held")
  /\ UNCHANGED <<path, flock, fd, tries>>

(* The file was unlinked or replaced between open and flock: the handle is
   dropped, and the loop goes round again until its bound. *)
Replaced(p) ==
  /\ pc[p] = "locked"
  /\ path # fd[p]
  /\ Close(p)
  /\ tries' = [tries EXCEPT ![p] = @ + 1]
  /\ GoTo(p, IF tries'[p] < MaxTries THEN "opening" ELSE "idle")
  /\ UNCHANGED path

Release(p) ==
  /\ pc[p] = "held"
  /\ Close(p)
  /\ GoTo(p, "idle")
  /\ UNCHANGED <<path, tries>>

-----------------------------------------------------------------------------
(* `cleanup_lockfiles`: open without creating, flock, unlink the NAME,     *)
(* unlock. It does not compare the inodes.                                 *)

OpenExisting(c) ==
  /\ pc[c] = "idle"
  /\ path # None
  /\ fd' = [fd EXCEPT ![c] = path]
  /\ GoTo(c, "opened")
  /\ UNCHANGED <<path, flock, tries>>

Unlink(c) ==
  /\ pc[c] = "locked"
  /\ path' = None
  /\ GoTo(c, "unlinked")
  /\ UNCHANGED <<flock, fd, tries>>

Unlock(c) ==
  /\ pc[c] = "unlinked"
  /\ Close(c)
  /\ GoTo(c, "idle")
  /\ UNCHANGED <<path, tries>>

-----------------------------------------------------------------------------
(* A process can be killed anywhere; the kernel closes its descriptors.    *)
Die(p) ==
  /\ pc[p] # "idle"
  /\ Close(p)
  /\ GoTo(p, "idle")
  /\ UNCHANGED <<path, tries>>

LockerStep(p) ==
  \/ OpenOrCreate(p)
  \/ Flock(p)
  \/ Busy(p)
  \/ SameInode(p)
  \/ Replaced(p)

CleanerStep(c) ==
  \/ OpenExisting(c)
  \/ Flock(c)
  \/ Busy(c)
  \/ Unlink(c)
  \/ Unlock(c)

Next ==
  \/ \E p \in Locker : Begin(p) \/ LockerStep(p) \/ Release(p)
  \/ \E c \in Cleaner : CleanerStep(c)
  \/ \E p \in Proc : Die(p)

Spec == Init /\ [][Next]_vars

(* `lock` makes only non-blocking calls, so a running process that is not  *)
(* killed keeps taking its steps. Nothing is assumed of cleaners, of Begin *)
(* or of how long a caller keeps its lock.                                 *)
FairSpec == Spec /\ \A p \in Locker : WF_vars(LockerStep(p))

-----------------------------------------------------------------------------
(* Properties *)

(* `lock` returned Ok and the `Lock` is alive. *)
Holds(p) == pc[p] = "held"

(* Two processes never hold the rack's lock at once: the reason for the
   inode comparison in `lock` (keg/lock.rs:53-55). *)
MutualExclusion ==
  \A p, q \in Locker : Holds(p) /\ Holds(q) => p = q

(* The file a holder locked is still the one its name refers to, so the next
   `lock` meets that flock: no cleaner unlinks a lock file in use. *)
HeldFileIsNamed ==
  \A p \in Locker : Holds(p) => path = fd[p]

(* A running `lock` call ends, holding or refused, however often cleaners
   replace the file under it: the retry loop is bounded. *)
AttemptEnds ==
  \A p \in Locker : pc[p] = "opening" ~> pc[p] \in {"idle", "held"}

(* The protocol implements the abstract lock the rest of the system is
   modelled with. *)
Holders == {p \in Locker : Holds(p)}

Holder == IF Holders = {} THEN None ELSE CHOOSE p \in Holders : TRUE

Abstract == INSTANCE RackLock WITH Proc <- Locker, holder <- Holder

ImplementsRackLock == Abstract!Spec
=============================================================================
