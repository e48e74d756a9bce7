--------------------------- MODULE KegLockProofs ----------------------------
(***************************************************************************)
(* The lock file protocol is a lock, for any number of lockers, as long as *)
(* no two cleaners run: mutual exclusion and the refinement of RackLock.   *)
(* With two cleaners it is not (the run locks_two_cleaners).               *)
(***************************************************************************)
EXTENDS KegLock, TLAPS

OneCleaner == \A c, d \in Cleaner : c = d

(* A descriptor is open exactly between the open and the close. *)
FdFollowsPc ==
  \A p \in Proc : fd[p] = None <=> pc[p] \in {"idle", "opening"}

(* flock is held on the inode the holder has open, by those past `Flock`. *)
FlockFollowsPc ==
  /\ \A p \in Proc : pc[p] \in {"locked", "held", "unlinked"} => flock[fd[p]] = p
  /\ \A i \in Inode : flock[i] # None =>
       /\ fd[flock[i]] = i
       /\ pc[flock[i]] \in {"locked", "held", "unlinked"}

RolesKeepTheirPc ==
  /\ \A p \in Locker : pc[p] \in LockerPC
  /\ \A c \in Cleaner : pc[c] \in CleanerPC

(* An attempt under way has an iteration of its loop left. *)
TriesLeft ==
  \A p \in Locker : pc[p] \in {"opening", "opened", "locked"} => tries[p] < MaxTries

(* Until it unlinks it, the one cleaner's file is the one the name names:
   only cleaners take the name away. *)
CleanerFileIsNamed ==
  \A c \in Cleaner : pc[c] \in {"opened", "locked"} => path = fd[c]

IInv ==
  /\ TypeOK
  /\ FdFollowsPc
  /\ FlockFollowsPc
  /\ RolesKeepTheirPc
  /\ TriesLeft
  /\ CleanerFileIsNamed
  /\ HeldFileIsNamed

USE DisjointRoles, NoneIsOutside, SomeTries

(* The protocol starts with the invariant. *)
LEMMA InitIInv == Init => IInv
  BY DEF Init, IInv, TypeOK, FdFollowsPc, FlockFollowsPc, RolesKeepTheirPc, TriesLeft,
         CleanerFileIsNamed, HeldFileIsNamed, Holds, LockerPC, CleanerPC, Proc

(* Every step of the protocol keeps the invariant when there is one cleaner. *)
LEMMA StepIInv ==
  ASSUME OneCleaner, IInv, [Next]_vars
  PROVE  IInv'
<1> USE DEF IInv, TypeOK, FdFollowsPc, FlockFollowsPc, RolesKeepTheirPc, TriesLeft,
            CleanerFileIsNamed, HeldFileIsNamed, Holds, LockerPC, CleanerPC, Proc,
            GoTo, Close
<1>1. ASSUME NEW p \in Locker, Begin(p) PROVE IInv'
  BY <1>1 DEF Begin
<1>2. ASSUME NEW p \in Locker, OpenOrCreate(p) PROVE IInv'
  BY <1>2 DEF OpenOrCreate, Unused
<1>3. ASSUME NEW p \in Proc, Flock(p) PROVE IInv'
  BY <1>3 DEF Flock
<1>4. ASSUME NEW p \in Proc, Busy(p) PROVE IInv'
  BY <1>4 DEF Busy
<1>5. ASSUME NEW p \in Locker, SameInode(p) PROVE IInv'
  BY <1>5 DEF SameInode
<1>6. ASSUME NEW p \in Locker, Replaced(p) PROVE IInv'
  BY <1>6 DEF Replaced
<1>7. ASSUME NEW p \in Locker, Release(p) PROVE IInv'
  BY <1>7 DEF Release
<1>8. ASSUME NEW c \in Cleaner, OpenExisting(c) PROVE IInv'
  BY <1>8 DEF OpenExisting
<1>9. ASSUME NEW c \in Cleaner, Unlink(c) PROVE IInv'
  BY <1>9 DEF Unlink, OneCleaner
<1>10. ASSUME NEW c \in Cleaner, Unlock(c) PROVE IInv'
  BY <1>10 DEF Unlock
<1>11. ASSUME NEW p \in Proc, Die(p) PROVE IInv'
  BY <1>11 DEF Die
<1>12. CASE UNCHANGED vars
  BY <1>12 DEF vars
<1>13. QED
  BY <1>1, <1>2, <1>3, <1>4, <1>5, <1>6, <1>7, <1>8, <1>9, <1>10, <1>11, <1>12
     DEF Next, LockerStep, CleanerStep

(* The type invariant of the run, for every set of lockers and inodes. *)
THEOREM TypeCorrect ==
  ASSUME OneCleaner
  PROVE  Spec => []TypeOK
<1>1. IInv /\ [Next]_vars => IInv'
  BY StepIInv
<1>2. IInv => TypeOK
  BY DEF IInv
<1>3. QED
  BY <1>1, <1>2, InitIInv, PTL DEF Spec

(* keg/lock.rs:53-55: two processes never hold locks on files with different
   inodes, nor on one file: the rack's lock excludes. *)
THEOREM LockExcludes ==
  ASSUME OneCleaner
  PROVE  Spec => []MutualExclusion
<1>1. IInv /\ [Next]_vars => IInv'
  BY StepIInv
<1>2. IInv => MutualExclusion
  (* Both holders' files are the named one, and flock has one holder. *)
  BY DEF IInv, MutualExclusion, HeldFileIsNamed, Holds, FlockFollowsPc, Proc
<1>3. QED
  BY <1>1, <1>2, InitIInv, PTL DEF Spec

(* No cleaner unlinks the file of a lock in use. *)
THEOREM HeldFileStaysNamed ==
  ASSUME OneCleaner
  PROVE  Spec => []HeldFileIsNamed
<1>1. IInv /\ [Next]_vars => IInv'
  BY StepIInv
<1>2. IInv => HeldFileIsNamed
  BY DEF IInv
<1>3. QED
  BY <1>1, <1>2, InitIInv, PTL DEF Spec

-----------------------------------------------------------------------------
(* The refinement of RackLock.                                             *)

(* Who holds the abstract lock, from who holds the concrete one. *)
LEMMA OneHolder == \A q : (CHOOSE p \in {q} : TRUE) = q
  OBVIOUS

(* Nobody holds the abstract lock at the start. *)
LEMMA InitRefines == Init => Abstract!Init
  BY DEF Init, Abstract!Init, Holder, Holders, Holds, Proc

(* Every step of the protocol is a step of the abstract lock or leaves it alone. *)
LEMMA StepRefines ==
  ASSUME IInv, IInv', [Next]_vars
  PROVE  [Abstract!Next]_Holder
<1>1. ASSUME NEW q \in Locker, SameInode(q)
      PROVE  Abstract!Acquire(q)
  (* The file q has just found named is q's, so nobody held the lock. *)
  <2>1. Holders = {}
    BY <1>1 DEF SameInode, IInv, HeldFileIsNamed, Holders, Holds, FlockFollowsPc, Proc
  <2>2. Holders' = {q}
    BY <1>1, <2>1 DEF SameInode, GoTo, Holders, Holds, IInv, TypeOK, Proc
  <2>3. Holder = None /\ Holder' = q
    BY <2>1, <2>2, OneHolder DEF Holder
  <2>4. QED
    BY <2>3 DEF Abstract!Acquire
<1>2. ASSUME NEW q \in Locker, Holds(q), pc' = [pc EXCEPT ![q] = "idle"]
      PROVE  Abstract!Release(q)
  <2>1. Holders = {q}
    BY <1>2 DEF Holders, Holds, IInv, HeldFileIsNamed, FlockFollowsPc, Proc
  <2>2. Holders' = {}
    BY <1>2, <2>1 DEF Holders, Holds, IInv, TypeOK, Proc
  <2>3. Holder = q /\ Holder' = None
    BY <2>1, <2>2, OneHolder DEF Holder
  <2>4. QED
    BY <2>3 DEF Abstract!Release
<1>3. ASSUME NEW p \in Proc, NEW l \in LockerPC \union CleanerPC,
             pc' = [pc EXCEPT ![p] = l], l # "held", pc[p] # "held"
      PROVE  UNCHANGED Holder
  <2>1. Holders' = Holders
    BY <1>3 DEF Holders, Holds, IInv, TypeOK, Proc
  <2>2. QED
    BY <2>1 DEF Holder
<1> USE DEF GoTo, LockerPC, CleanerPC, Proc
<1>4. ASSUME NEW p \in Locker, Begin(p) \/ OpenOrCreate(p) \/ Replaced(p)
      PROVE  UNCHANGED Holder
  <2>1. CASE Begin(p)
    BY <1>3, <2>1 DEF Begin
  <2>2. CASE OpenOrCreate(p)
    BY <1>3, <2>2 DEF OpenOrCreate
  <2>3. CASE Replaced(p)
    BY <1>3, <2>3 DEF Replaced
  <2>4. QED
    BY <1>4, <2>1, <2>2, <2>3
<1>5. ASSUME NEW p \in Proc, Flock(p) \/ Busy(p)
      PROVE  UNCHANGED Holder
  <2>1. CASE Flock(p)
    BY <1>3, <2>1 DEF Flock
  <2>2. CASE Busy(p)
    BY <1>3, <2>2 DEF Busy
  <2>3. QED
    BY <1>5, <2>1, <2>2
<1>6. ASSUME NEW c \in Cleaner, OpenExisting(c) \/ Unlink(c) \/ Unlock(c)
      PROVE  UNCHANGED Holder
  <2>1. CASE OpenExisting(c)
    BY <1>3, <2>1 DEF OpenExisting
  <2>2. CASE Unlink(c)
    BY <1>3, <2>2 DEF Unlink
  <2>3. CASE Unlock(c)
    BY <1>3, <2>3 DEF Unlock
  <2>4. QED
    BY <1>6, <2>1, <2>2, <2>3
<1>7. ASSUME NEW p \in Proc, Die(p)
      PROVE  [Abstract!Next]_Holder
  <2>1. CASE Holds(p)
    <3>1. p \in Locker
      BY <2>1 DEF IInv, RolesKeepTheirPc, Holds
    <3>2. Abstract!Release(p)
      BY <1>2, <1>7, <2>1, <3>1 DEF Die
    <3>3. QED
      BY <3>1, <3>2 DEF Abstract!Next
  <2>2. CASE ~Holds(p)
    BY <1>3, <1>7, <2>2 DEF Die, Holds
  <2>3. QED
    BY <2>1, <2>2
<1>8. ASSUME NEW p \in Locker, Release(p)
      PROVE  Abstract!Release(p)
  BY <1>2, <1>8 DEF Release, Holds
<1>9. CASE UNCHANGED vars
  BY <1>9 DEF vars, Holder, Holders, Holds
<1>10. QED
  BY <1>1, <1>4, <1>5, <1>6, <1>7, <1>8, <1>9
     DEF Next, LockerStep, CleanerStep, Abstract!Next

(* `lock` and the drop of a `Lock` implement the atomic lock of RackLock. *)
THEOREM LockImplementsRackLock ==
  ASSUME OneCleaner
  PROVE  Spec => ImplementsRackLock
<1>1. IInv /\ [Next]_vars => IInv'
  BY StepIInv
<1>2. IInv /\ IInv' /\ [Next]_vars => [Abstract!Next]_Holder
  BY StepRefines
<1>3. QED
  BY <1>1, <1>2, InitIInv, InitRefines, PTL
     DEF Spec, ImplementsRackLock, Abstract!Spec
=============================================================================
