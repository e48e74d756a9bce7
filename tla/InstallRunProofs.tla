-------------------------- MODULE InstallRunProofs --------------------------
(***************************************************************************)
(* For any number of processes and formulae and any dependency graphs: of  *)
(* two runs that collide, one gets all its locks; what a run poured stays  *)
(* as it left it until it comes to it again; what it finished has what it  *)
(* needs; and every rack it touched is left whole.                         *)
(***************************************************************************)
EXTENDS InstallRun, SequenceTheorems, FiniteSetTheorems, TLAPS

Place == {"idle", "locking", "fetch", "pour", "finish", "remove", "release"}

LockTypes ==
  /\ holder \in [Formula -> Proc \union {None}]
  /\ pc \in [Proc -> Place]
  /\ DOMAIN run = Proc

(* A process without a run has no lock. *)
IdleHoldsNothing ==
  \A p \in Proc : pc[p] = "idle" => \A f \in Formula : holder[f] # p

(* What a run has locked sorts before what it still has to lock. *)
TakenInOrder ==
  \A p \in Proc : pc[p] = "locking" =>
    \A f, g \in Formula :
      holder[f] = p /\ holder[g] # p /\ g \in run[p].wanted => f < g

IInv == LockTypes /\ IdleHoldsNothing /\ TakenInOrder

USE NamesAreOrdered, NobodyIsNone

(* The invariant holds at the start. *)
LEMMA InitIInv == Init => IInv
<1> SUFFICES ASSUME Init PROVE IInv
  OBVIOUS
<1>1. LockTypes
  BY DEF Init, LockTypes, Place
<1>2. IdleHoldsNothing
  BY DEF Init, IdleHoldsNothing
<1>3. TakenInOrder
  BY DEF Init, TakenInOrder
<1> QED
  BY <1>1, <1>2, <1>3 DEF IInv

-----------------------------------------------------------------------------
(* What a process may do to the locks and to its own place without disturbing
   the order in which anybody takes them. *)

Begins(p) ==
  /\ pc[p] = "idle"
  /\ pc' = [pc EXCEPT ![p] = "locking"]
  /\ \E r : run' = [run EXCEPT ![p] = r]
  /\ UNCHANGED holder

Takes(p) ==
  \E f \in Formula :
    /\ IsNext(p, f)
    /\ holder[f] = None
    /\ holder' = [holder EXCEPT ![f] = p]
    /\ UNCHANGED run
    /\ \E l \in Place \ {"idle"} : pc' = [pc EXCEPT ![p] = l]

Drops(p) ==
  /\ DropLocks(p)
  /\ pc' = [pc EXCEPT ![p] = "idle"]
  /\ \E r : run' = [run EXCEPT ![p] = r]

GoesOn(p) ==
  /\ \E l \in Place \ {"idle", "locking"} : pc' = [pc EXCEPT ![p] = l]
  /\ run' = run \/ \E r : run' = [run EXCEPT ![p] = r]
  /\ UNCHANGED holder

Behaves(p) == Begins(p) \/ Takes(p) \/ Drops(p) \/ GoesOn(p)

(* Every step of a process is one of these. *)
LEMMA StepsBehave ==
  ASSUME NEW p \in Proc, Plan(p) \/ Work(p)
  PROVE  Behaves(p)
<1>1. CASE Plan(p)
  <2>1. \E r : Start(p, r)
    BY <1>1 DEF Plan, PlanInstall, PlanReinstall, PlanUninstall
  <2>2. Begins(p)
    BY <2>1 DEF Start, Begins, Go, Remember
  <2> QED
    BY <2>2 DEF Behaves
<1>2. CASE TakeLock(p)
  <2>1. PICK f \in Formula :
          /\ IsNext(p, f)
          /\ holder[f] = None
          /\ holder' = [holder EXCEPT ![f] = p]
          /\ Go(p, "locking", IF run[p].wanted \subseteq Held(p) \union {f} THEN AfterLocks(p)
                              ELSE "locking")
          /\ UNCHANGED <<direct, racks, run>>
    BY <1>2 DEF TakeLock
  <2>2. \E l \in Place \ {"idle"} : pc' = [pc EXCEPT ![p] = l]
    BY <2>1 DEF Go, AfterLocks, Place
  <2>3. Takes(p)
    BY <2>1, <2>2 DEF Takes
  <2> QED
    BY <2>3 DEF Behaves
<1>3. CASE LockBusy(p) \/ Release(p)
  BY <1>3 DEF LockBusy, Release, Behaves, Drops, Go, Remember
<1>4. CASE Fetch(p) \/ RemoveKeg(p)
  BY <1>4 DEF Fetch, RemoveKeg, Behaves, GoesOn, Go, Place
<1>5. CASE Pour(p) \/ PourFails(p)
  <2>1. PICK f \in Formula : Pouring(p, f) /\ \E r : Remember(p, r)
    BY <1>5 DEF Pour, PourFails
  <2>2. GoesOn(p)
    BY <2>1 DEF Pouring, GoesOn, Go, Remember, Place
  <2> QED
    BY <2>2 DEF Behaves
<1>6. CASE NotPoured(p) \/ GiveUp(p) \/ FinishItem(p)
  <2>1. PICK f \in Formula : Finishing(p, f) /\ \E r : Remember(p, r)
    BY <1>6 DEF NotPoured, GiveUp, FinishItem, Failed
  <2>2. GoesOn(p)
    BY <2>1 DEF Finishing, GoesOn, Go, Remember, Place
  <2> QED
    BY <2>2 DEF Behaves
<1> QED
  BY <1>1, <1>2, <1>3, <1>4, <1>5, <1>6 DEF Work

(* They keep the invariant. *)
LEMMA BehavingKeepsIInv ==
  ASSUME NEW p \in Proc, IInv, Behaves(p)
  PROVE  IInv'
<1>1. LockTypes'
  BY DEF IInv, LockTypes, Behaves, Begins, Takes, Drops, GoesOn, DropLocks, Place
<1>2. ASSUME NEW q \in Proc, q # p
      PROVE  /\ pc'[q] = pc[q]
             /\ run'[q] = run[q]
             /\ \A f \in Formula : holder'[f] = q <=> holder[f] = q
  BY <1>2 DEF IInv, LockTypes, Behaves, Begins, Takes, Drops, GoesOn, DropLocks
<1>3. IdleHoldsNothing'
  <2> SUFFICES ASSUME pc'[p] = "idle", NEW f \in Formula
               PROVE  holder'[f] # p
    BY <1>2 DEF IInv, IdleHoldsNothing
  <2>1. Drops(p)
    BY DEF IInv, LockTypes, Behaves, Begins, Takes, GoesOn
  <2> QED
    BY <2>1 DEF IInv, LockTypes, Drops, DropLocks
<1>4. TakenInOrder'
  <2> SUFFICES ASSUME pc'[p] = "locking", NEW f \in Formula, NEW g \in Formula,
                      holder'[f] = p, holder'[g] # p, g \in run'[p].wanted
               PROVE  f < g
    BY <1>2 DEF IInv, TakenInOrder
  <2>1. CASE Begins(p)
    BY <2>1 DEF Begins, IInv, IdleHoldsNothing
  <2>2. CASE Takes(p)
    <3>1. PICK h \in Formula : /\ IsNext(p, h)
                               /\ holder[h] = None
                               /\ holder' = [holder EXCEPT ![h] = p]
                               /\ UNCHANGED run
      BY <2>2 DEF Takes
    <3>2. g \in run[p].wanted /\ holder[g] # p /\ g # h
      BY <3>1 DEF IInv, LockTypes
    <3>3. CASE f = h
      <4>1. h <= g
        BY <3>1, <3>2 DEF IsNext, Held
      <4>2. h \in Int /\ g \in Int
        BY NamesAreOrdered
      <4> QED
        BY <3>2, <3>3, <4>1, <4>2
    <3>4. CASE f # h
      <4>1. holder[f] = p
        BY <3>1, <3>4 DEF IInv, LockTypes
      <4> QED
        BY <3>1, <3>2, <4>1 DEF IInv, TakenInOrder, IsNext
    <3> QED
      BY <3>3, <3>4
  <2>3. pc'[p] # "locking" \/ Begins(p) \/ Takes(p)
    BY DEF IInv, LockTypes, Behaves, Drops, GoesOn
  <2> QED
    BY <2>1, <2>2, <2>3
<1> QED
  BY <1>1, <1>3, <1>4 DEF IInv

(* So does every step of the system. *)
LEMMA StepIInv == IInv /\ [Next]_vars => IInv'
<1> SUFFICES ASSUME IInv, [Next]_vars PROVE IInv'
  OBVIOUS
<1>1. CASE Next
  BY <1>1, StepsBehave, BehavingKeepsIInv DEF Next
<1>2. CASE UNCHANGED vars
  BY <1>2 DEF vars, IInv, LockTypes, IdleHoldsNothing, TakenInOrder
<1> QED
  BY <1>1, <1>2

(* Two runs that want the same racks never refuse each other, because every
   run takes its locks in the order of the names (`take_locks`). *)
THEOREM CollidingRunsDoNotBothFail == Spec => []NoMutualRefusal
<1>1. IInv => NoMutualRefusal
  <2> SUFFICES ASSUME IInv, NEW p \in Proc, NEW q \in Proc, p # q,
                      NEW f \in Formula, NEW g \in Formula,
                      IsNext(p, f), holder[f] = q, IsNext(q, g), holder[g] = p
               PROVE  FALSE
    BY DEF NoMutualRefusal
  <2>1. g < f
    BY DEF IInv, TakenInOrder, IsNext
  <2>2. f < g
    BY DEF IInv, TakenInOrder, IsNext
  <2> QED
    BY <2>1, <2>2
<1> QED
  BY <1>1, InitIInv, StepIInv, PTL DEF Spec

-----------------------------------------------------------------------------
(* What a run knows of its items is true of the racks, and of nobody else's. *)

(* How many items the last loop has come to. *)
Passed(r) == Len(r.items) - Len(r.left)

(* A plan locks the racks of all its items, and lists none of them twice. *)
PlanIsLocked(r) ==
  /\ ToSet(r.items) \subseteq r.wanted
  /\ r.roots \subseteq r.wanted
  /\ \A i, j \in 1..Len(r.items) : r.items[i] = r.items[j] => i = j

(* What is poured is still to be finished, and what is left is the end of the
   plan. *)
PouredIsLeft(r) ==
  /\ Len(r.left) <= Len(r.items)
  /\ \A k \in 1..Len(r.left) : r.left[k] = r.items[Passed(r) + k]
  /\ r.unpoured \subseteq ToSet(r.items)
  /\ r.unpoured \intersect (r.poured \union r.backed) = {}
  /\ r.poured \subseteq ToSet(r.left)

(* What the loop has passed is finished or failed, and what is finished has
   finished what it needs of the items before it. *)
DoneInOrder(r) ==
  /\ \A f \in r.done : \E i \in 1..Passed(r) : r.items[i] = f
  /\ \A i \in 1..Passed(r) : r.items[i] \in r.done \union r.failed
  /\ \A i, j \in 1..Len(r.items) :
       i < j /\ r.items[j] \in r.done /\ r.items[i] \in direct[r.items[j]]
         => r.items[i] \in r.done

(* Before the last loop everything is left, and only between the first pour and
   the end of that loop is there something poured; all along the run has its
   locks. *)
InStage(p) ==
  /\ pc[p] \notin {"finish", "release"} => run[p].left = run[p].items
  /\ pc[p] \notin {"pour", "finish"} => run[p].poured = {}
  /\ pc[p] \notin {"idle", "locking"} => \A f \in run[p].wanted : holder[f] = p

(* The racks are as the run remembers them. *)
RacksAreKnown(p) ==
  /\ \A f \in run[p].done : keg[f] = "installed"
  /\ \A f \in run[p].poured : /\ keg[f] = "unfinished"
                              /\ f \in run[p].backed <=> aside[f] # "none"

Sound(p) ==
  /\ PlanIsLocked(run[p])
  /\ PouredIsLeft(run[p])
  /\ DoneInOrder(run[p])
  /\ InStage(p)
  /\ RacksAreKnown(p)

(* Whatever is not whole is some run's. *)
PartialIsPoured ==
  \A f \in Formula :
    keg[f] = "unfinished" \/ aside[f] # "none" => \E p \in Proc : f \in run[p].poured

RunInv ==
  /\ TypeOK
  /\ \A p \in Proc : Sound(p)
  /\ PartialIsPoured

(* The item the last loop comes to next, and what is then left. *)
LEMMA NextItem ==
  ASSUME NEW r \in Run, PouredIsLeft(r), r.left # <<>>
  PROVE  /\ Passed(r) \in Nat
         /\ Passed(r) + 1 \in 1..Len(r.items)
         /\ Head(r.left) = r.items[Passed(r) + 1]
         /\ Tail(r.left) \in Seq(Formula)
         /\ Len(Tail(r.left)) = Len(r.left) - 1
         /\ \A k \in 1..Len(Tail(r.left)) : Tail(r.left)[k] = r.items[Passed(r) + 1 + k]
         /\ \A f \in ToSet(r.left) : f = Head(r.left) \/ f \in ToSet(Tail(r.left))
<1>1. /\ r.left \in Seq(Formula) /\ r.items \in Seq(Formula)
      /\ Len(r.left) \in Nat \ {0} /\ Len(r.items) \in Nat
  BY EmptySeq, LenProperties DEF Run
<1>2. /\ Tail(r.left) \in Seq(Formula)
      /\ Len(Tail(r.left)) = Len(r.left) - 1
      /\ \A k \in 1..Len(Tail(r.left)) : Tail(r.left)[k] = r.left[k + 1]
  BY <1>1, HeadTailProperties
<1>3. Head(r.left) = r.left[1]
  BY <1>1
<1>4. Passed(r) \in Nat /\ Passed(r) + 1 \in 1..Len(r.items)
  <2>1. Len(r.left) <= Len(r.items)
    BY DEF PouredIsLeft
  <2>2. \A a, b \in Nat : a # 0 /\ a <= b => b - a \in Nat /\ (b - a) + 1 \in 1..b
    OBVIOUS
  <2> QED
    BY <1>1, <2>1, <2>2 DEF Passed
<1>5. Head(r.left) = r.items[Passed(r) + 1]
  BY <1>1, <1>3 DEF PouredIsLeft
<1>6. ASSUME NEW k \in 1..Len(Tail(r.left))
      PROVE  Tail(r.left)[k] = r.items[Passed(r) + 1 + k]
  <2>1. k + 1 \in 1..Len(r.left) /\ Passed(r) + (k + 1) = Passed(r) + 1 + k
    BY <1>1, <1>2, <1>4
  <2> QED
    BY <1>2, <2>1 DEF PouredIsLeft
<1>7. ASSUME NEW f \in ToSet(r.left), f # Head(r.left)
      PROVE  f \in ToSet(Tail(r.left))
  <2>1. PICK i \in 1..Len(r.left) : f = r.left[i]
    BY <1>1, LenProperties DEF ToSet
  <2>2. i - 1 \in 1..Len(Tail(r.left)) /\ Tail(r.left)[i - 1] = f
    BY <1>1, <1>2, <1>3, <1>7, <2>1
  <2>3. DOMAIN Tail(r.left) = 1..Len(Tail(r.left))
    BY <1>2, LenProperties
  <2> QED
    BY <2>2, <2>3 DEF ToSet
<1> QED
  BY <1>2, <1>4, <1>5, <1>6, <1>7

(* Going on to the next item keeps what the run knows of its plan, if the item
   fails or nothing it needs failed. *)
LEMMA PassingKeepsOrder ==
  ASSUME NEW r \in Run, PlanIsLocked(r), PouredIsLeft(r), DoneInOrder(r), r.left # <<>>,
         NEW f, f = Head(r.left), NEW s \in Run,
         s.items = r.items, s.wanted = r.wanted, s.roots = r.roots,
         s.unpoured = r.unpoured, s.backed = r.backed,
         s.left = Tail(r.left), s.poured = r.poured \ {f},
         \/ s.done = r.done /\ s.failed = r.failed \union {f}
         \/ /\ s.done = r.done \union {f} /\ s.failed = r.failed
            /\ direct[f] \intersect r.failed = {}
  PROVE  PlanIsLocked(s) /\ PouredIsLeft(s) /\ DoneInOrder(s) /\ f \notin r.done
<1> DEFINE n == Passed(r)
<1>1. /\ n \in Nat
      /\ n + 1 \in 1..Len(r.items)
      /\ f = r.items[n + 1]
      /\ Len(s.left) = Len(r.left) - 1
      /\ \A k \in 1..Len(s.left) : s.left[k] = r.items[n + 1 + k]
      /\ \A g \in ToSet(r.left) : g = f \/ g \in ToSet(s.left)
  BY NextItem
<1>2. Len(r.left) \in Nat /\ Len(r.items) \in Nat /\ Len(s.left) \in Nat
  BY LenProperties DEF Run
<1>3. Passed(s) = n + 1
  <2>1. \A a, b \in Nat : b - (a - 1) = (b - a) + 1
    OBVIOUS
  <2> QED
    BY <1>1, <1>2, <2>1 DEF Passed
<1>4. PlanIsLocked(s)
  BY DEF PlanIsLocked
<1>5. PouredIsLeft(s)
  <2>1. Len(s.left) <= Len(s.items)
    BY <1>1, <1>2 DEF PouredIsLeft
  <2>2. \A k \in 1..Len(s.left) : s.left[k] = s.items[Passed(s) + k]
    BY <1>1, <1>3
  <2>3. s.poured \subseteq ToSet(s.left)
    BY <1>1 DEF PouredIsLeft
  <2> HIDE DEF n
  <2> QED
    BY <2>1, <2>2, <2>3 DEF PouredIsLeft
<1>6. f \notin r.done
  <2> SUFFICES ASSUME f \in r.done PROVE FALSE
    OBVIOUS
  <2>1. PICK i \in 1..n : r.items[i] = f
    BY DEF DoneInOrder
  <2>2. i \in 1..Len(r.items) /\ i # n + 1
    BY <1>1, <1>2
  <2> QED
    BY <1>1, <2>1, <2>2 DEF PlanIsLocked
<1>7. \A g \in s.done : \E i \in 1..Passed(s) : s.items[i] = g
  <2> TAKE g \in s.done
  <2>1. CASE g = f
    <3>1. n + 1 \in 1..Passed(s)
      BY <1>1, <1>3
    <3> QED
      BY <1>1, <2>1, <3>1
  <2>2. CASE g # f
    <3>1. PICK i \in 1..n : r.items[i] = g
      BY <2>2 DEF DoneInOrder
    <3>2. i \in 1..Passed(s)
      BY <1>1, <1>3
    <3> QED
      BY <3>1, <3>2
  <2> QED
    BY <2>1, <2>2
<1>8. \A i \in 1..Passed(s) : s.items[i] \in s.done \union s.failed
  <2> TAKE i \in 1..Passed(s)
  <2>1. i \in 1..n \/ i = n + 1
    BY <1>1, <1>3
  <2> QED
    BY <1>1, <2>1 DEF DoneInOrder
<1>9. ASSUME NEW i \in 1..Len(s.items), NEW j \in 1..Len(s.items), i < j,
             s.items[j] \in s.done, s.items[i] \in direct[s.items[j]]
      PROVE  s.items[i] \in s.done
  <2>1. CASE s.items[j] \in r.done
    BY <1>9, <2>1 DEF DoneInOrder
  <2>2. CASE s.items[j] \notin r.done
    <3>1. s.items[j] = f /\ direct[f] \intersect r.failed = {}
      BY <1>9, <2>2
    <3>2. j = n + 1
      BY <1>1, <1>9, <3>1 DEF PlanIsLocked
    <3>3. i \in 1..n
      BY <1>1, <1>9, <3>2
    <3>4. r.items[i] \in r.done \union r.failed
      BY <3>3 DEF DoneInOrder
    <3> QED
      BY <1>9, <3>1, <3>4
  <2> QED
    BY <2>1, <2>2
<1> QED
  BY <1>4, <1>5, <1>6, <1>7, <1>8, <1>9 DEF DoneInOrder

(* `build_plan` lists formulae, each once. *)
LEMMA ItemsAreListedOnce ==
  ASSUME NEW roots, NEW wanted \in SUBSET Formula, NEW items \in ItemLists(roots, wanted)
  PROVE  /\ items \in Seq(Formula)
         /\ \A i, j \in 1..Len(items) : items[i] = items[j] => i = j
<1> DEFINE S == UNION {Brings(r) : r \in wanted}
<1>1. items \in SetToSeqs(S)
  BY DEF ItemLists
<1>2. S \subseteq Formula
  BY DEF Brings, Dependencies, Closure
<1>3. Cardinality(S) \in Nat
  <2> HIDE DEF S
  <2>1. IsFiniteSet(S)
    BY <1>2, FormulaeAreFinite, FS_Subset
  <2> QED
    BY <2>1, FS_CardinalityType
<1>4. /\ items \in [1..Cardinality(S) -> S]
      /\ \A i, j \in 1..Cardinality(S) : i # j => items[i] # items[j]
  BY <1>1 DEF SetToSeqs
<1> HIDE DEF S
<1>5. items \in Seq(S)
  BY <1>3, <1>4, SeqDef
<1>6. items \in Seq(Formula) /\ Len(items) = Cardinality(S)
  <2>1. items \in Seq(Formula) /\ Len(items) \in Nat /\ DOMAIN items = 1..Len(items)
    BY <1>2, <1>5, SeqMonotonic, LenProperties
  <2>2. DOMAIN items = 1..Cardinality(S)
    BY <1>4
  <2>3. \A a, b \in Nat : 1..a = 1..b => a = b
    <3> SUFFICES ASSUME NEW a \in Nat, NEW b \in Nat, 1..a = 1..b, a < b PROVE FALSE
      OBVIOUS
    <3>1. b \in 1..b /\ b \notin 1..a
      OBVIOUS
    <3> QED
      BY <3>1
  <2> QED
    BY <1>3, <2>1, <2>2, <2>3
<1> QED
  BY <1>4, <1>6

-----------------------------------------------------------------------------
(* What a step of one process leaves alone. *)

StepOf(p) ==
  /\ direct' = direct
  /\ \A q \in Proc \ {p} :
       /\ run'[q] = run[q]
       /\ pc'[q] = pc[q]
       /\ \A f \in Formula : holder[f] = q => holder'[f] = q
  /\ \A f \in Formula : keg'[f] # keg[f] \/ aside'[f] # aside[f] => holder[f] = p

(* What is not whole after it the process remembers, or was so before it. *)
PartialIsMine(p) ==
  \A f \in Formula :
    keg'[f] = "unfinished" \/ aside'[f] # "none" =>
      \/ f \in run'[p].poured
      \/ f \notin run[p].poured /\ keg'[f] = keg[f] /\ aside'[f] = aside[f]

SoundStep(p) == TypeOK' /\ StepOf(p) /\ Sound(p)' /\ PartialIsMine(p)

(* What a run poured and what it finished is in racks it has locked. *)
LEMMA PouredIsLocked ==
  ASSUME TypeOK, NEW p \in Proc, Sound(p)
  PROVE  /\ \A f \in run[p].poured \union run[p].done :
              f \in ToSet(run[p].items) /\ f \in Formula /\ holder[f] = p
         /\ ToSet(run[p].items) \subseteq Formula
<1> DEFINE r == run[p]
<1>1. /\ r \in Run /\ r.items \in Seq(Formula) /\ r.left \in Seq(Formula)
      /\ r.poured \subseteq Formula /\ r.done \subseteq Formula
      /\ Len(r.items) \in Nat /\ Len(r.left) \in Nat
      /\ DOMAIN r.items = 1..Len(r.items) /\ DOMAIN r.left = 1..Len(r.left)
  BY LenProperties DEF TypeOK, Run
<1>2. PlanIsLocked(r) /\ PouredIsLeft(r) /\ DoneInOrder(r) /\ InStage(p)
  BY DEF Sound
<1> HIDE DEF r
<1>3. ToSet(r.items) \subseteq Formula
  BY <1>1, ElementOfSeq DEF ToSet
<1>5. ASSUME NEW f \in r.poured PROVE f \in ToSet(r.items)
  <2>1. f \in ToSet(r.left) /\ Len(r.left) <= Len(r.items)
    BY <1>2 DEF PouredIsLeft
  <2>2. PICK k \in 1..Len(r.left) : f = r.left[k]
    BY <1>1, <2>1 DEF ToSet
  <2>3. f = r.items[Passed(r) + k]
    BY <1>2, <2>2 DEF PouredIsLeft
  <2>4. \A a, b \in Nat : b <= a => \A i \in 1..b : (a - b) + i \in 1..a
    OBVIOUS
  <2>5. Passed(r) + k \in 1..Len(r.items)
    BY <1>1, <2>1, <2>4 DEF Passed
  <2> QED
    BY <1>1, <2>3, <2>5 DEF ToSet
<1>6. ASSUME NEW f \in r.done PROVE f \in ToSet(r.items)
  <2>1. PICK i \in 1..Passed(r) : r.items[i] = f
    BY <1>2 DEF DoneInOrder
  <2>2. \A a, b \in Nat : 1..(a - b) \subseteq 1..a
    OBVIOUS
  <2>3. i \in 1..Len(r.items)
    BY <1>1, <2>1, <2>2 DEF Passed
  <2> QED
    BY <1>1, <2>1, <2>3 DEF ToSet
<1>7. pc[p] \notin {"idle", "locking"} \/ r.poured \union r.done = {}
  <2> SUFFICES ASSUME pc[p] \in {"idle", "locking"} PROVE r.poured \union r.done = {}
    OBVIOUS
  <2>1. r.poured = {} /\ r.left = r.items
    BY <1>2 DEF InStage, r
  <2>2. \A a \in Nat : 1..(a - a) = {}
    OBVIOUS
  <2>3. 1..Passed(r) = {}
    BY <1>1, <2>1, <2>2 DEF Passed
  <2> QED
    BY <1>2, <2>1, <2>3 DEF DoneInOrder
<1>8. pc[p] \notin {"idle", "locking"} => \A f \in ToSet(r.items) : holder[f] = p
  BY <1>2 DEF InStage, PlanIsLocked, r
<1>9. r = run[p]
  BY DEF r
<1> QED
  BY <1>3, <1>5, <1>6, <1>7, <1>8, <1>9

(* What a step has to show of the process that takes it. *)
LEMMA SoundAfter ==
  ASSUME NEW p \in Proc, direct' = direct, NEW r, run'[p] = r,
         PlanIsLocked(r), PouredIsLeft(r), DoneInOrder(r), InStage(p)', RacksAreKnown(p)'
  PROVE  Sound(p)'
<1>1. PlanIsLocked(run[p])'
  BY DEF PlanIsLocked
<1>2. PouredIsLeft(run[p])'
  BY DEF PouredIsLeft, Passed
<1>3. DoneInOrder(run[p])'
  BY DEF DoneInOrder, Passed
<1> QED
  BY <1>1, <1>2, <1>3 DEF Sound

(* A step leaves what the others know true. *)
LEMMA OthersStaySound ==
  ASSUME TypeOK, TypeOK', NEW p \in Proc, StepOf(p), NEW q \in Proc \ {p}, Sound(q)
  PROVE  Sound(q)'
<1>1. /\ run'[q] = run[q] /\ pc'[q] = pc[q] /\ direct' = direct
      /\ \A f \in Formula : holder[f] = q => holder'[f] = q /\ keg'[f] = keg[f] /\ aside'[f] = aside[f]
  BY NobodyIsNone DEF StepOf
<1>2. run[q].wanted \subseteq Formula
  BY DEF TypeOK, Run
<1>3. InStage(q)'
  BY <1>1, <1>2 DEF Sound, InStage
<1>4. RacksAreKnown(q)'
  BY <1>1, PouredIsLocked DEF Sound, RacksAreKnown
<1> QED
  BY <1>1, <1>3, <1>4, SoundAfter DEF Sound

(* And a sound step keeps the invariant. *)
LEMMA SoundStepKeepsRunInv ==
  ASSUME RunInv, NEW p \in Proc, SoundStep(p)
  PROVE  RunInv'
<1>1. \A q \in Proc : Sound(q)'
  BY OthersStaySound DEF RunInv, SoundStep
<1>2. PartialIsPoured'
  <2> SUFFICES ASSUME NEW f \in Formula, keg'[f] = "unfinished" \/ aside'[f] # "none"
               PROVE  \E q \in Proc : f \in run'[q].poured
    BY DEF PartialIsPoured
  <2>1. CASE f \in run'[p].poured
    BY <2>1
  <2>2. CASE f \notin run[p].poured /\ keg'[f] = keg[f] /\ aside'[f] = aside[f]
    <3>1. PICK q \in Proc : f \in run[q].poured
      BY <2>2 DEF RunInv, PartialIsPoured
    <3>2. q # p /\ run'[q] = run[q]
      BY <2>2, <3>1 DEF SoundStep, StepOf
    <3> QED
      BY <3>1, <3>2
  <2> QED
    BY <2>1, <2>2 DEF SoundStep, PartialIsMine
<1> QED
  BY <1>1, <1>2 DEF RunInv, SoundStep

-----------------------------------------------------------------------------
(* Each action is such a step. *)

(* A run that has not begun its work knows nothing that could be wrong. *)
Fresh(r) ==
  /\ r \in Run
  /\ PlanIsLocked(r)
  /\ r.left = r.items
  /\ r.unpoured = ToSet(r.items)
  /\ r.poured = {} /\ r.backed = {} /\ r.failed = {} /\ r.done = {}

LEMMA FreshIsSound ==
  ASSUME NEW r, Fresh(r)
  PROVE  PouredIsLeft(r) /\ DoneInOrder(r)
<1>1. r.items \in Seq(Formula) /\ Len(r.items) \in Nat
  BY LenProperties DEF Fresh, Run
<1>2. \A a \in Nat : a - a = 0 /\ 1..0 = {} /\ a <= a /\ \A i \in 1..a : 0 + i = i
  OBVIOUS
<1>3. Passed(r) = 0
  BY <1>1, <1>2 DEF Passed, Fresh
<1>4. PouredIsLeft(r)
  <2>1. Len(r.left) <= Len(r.items)
    BY <1>1, <1>2 DEF Fresh
  <2>2. \A k \in 1..Len(r.left) : r.left[k] = r.items[Passed(r) + k]
    BY <1>1, <1>2, <1>3 DEF Fresh
  <2> QED
    BY <2>1, <2>2 DEF PouredIsLeft, Fresh
<1>5. DoneInOrder(r)
  BY <1>2, <1>3 DEF DoneInOrder, Fresh
<1> QED
  BY <1>4, <1>5

(* A process without a run is in that state. *)
LEMMA NoRunIsFresh == Fresh(NoRun)
<1>1. NoRun \in Run
  BY EmptySeq DEF NoRun, Run
<1>2. NoRun.items = <<>> /\ Len(<<>>) = 0 /\ ToSet(<<>>) = {} /\ 1..0 = {}
  BY DEF NoRun, ToSet
<1>3. PlanIsLocked(NoRun)
  BY <1>2 DEF PlanIsLocked, NoRun
<1> QED
  BY <1>1, <1>2, <1>3 DEF Fresh, NoRun

(* So are the plans of the three commands. *)
LEMMA PlansAreFresh ==
  ASSUME NEW p \in Proc, Plan(p)
  PROVE  \E r : Fresh(r) /\ Start(p, r)
<1>1. ASSUME NEW cmd \in {"install", "reinstall"}, NEW roots \in Requests,
             NEW wanted \in SUBSET ToSet(roots), NEW items \in ItemLists(roots, wanted)
      PROVE  Fresh(RunOf(cmd, ToSet(roots), items))
  <2> DEFINE r == RunOf(cmd, ToSet(roots), items)
  <2>1. ToSet(roots) \subseteq Formula
    BY DEF Requests, SeqOf, ToSet
  <2>2. /\ items \in Seq(Formula)
        /\ \A i, j \in 1..Len(items) : items[i] = items[j] => i = j
    BY <2>1, ItemsAreListedOnce
  <2>3. ToSet(items) \subseteq Formula
    BY <2>2, LenProperties, ElementOfSeq DEF ToSet
  <2>4. /\ r.items = items /\ r.left = items /\ r.unpoured = ToSet(items)
        /\ r.wanted = ToSet(items) \union ToSet(roots) /\ r.roots = ToSet(roots)
        /\ r.poured = {} /\ r.backed = {} /\ r.failed = {} /\ r.done = {}
    BY DEF RunOf, NoRun
  <2>5. r \in Run
    BY <2>1, <2>2, <2>3 DEF RunOf, NoRun, Run
  <2> HIDE DEF r
  <2>6. PlanIsLocked(r)
    BY <2>2, <2>4 DEF PlanIsLocked
  <2>7. Fresh(r)
    BY <2>4, <2>5, <2>6 DEF Fresh
  <2> QED
    BY <2>7 DEF r
<1>2. CASE PlanInstall(p)
  BY <1>1, <1>2 DEF PlanInstall
<1>3. CASE PlanReinstall(p)
  BY <1>1, <1>3 DEF PlanReinstall
<1>4. CASE PlanUninstall(p)
  <2>1. PICK f \in Formula :
          Start(p, [NoRun EXCEPT !.cmd = "uninstall", !.roots = {f}, !.wanted = {f}])
    BY <1>4 DEF PlanUninstall
  <2> DEFINE r == [NoRun EXCEPT !.cmd = "uninstall", !.roots = {f}, !.wanted = {f}]
  <2>2. /\ r.items = NoRun.items /\ r.left = NoRun.left /\ r.unpoured = NoRun.unpoured
        /\ r.poured = {} /\ r.backed = {} /\ r.failed = {} /\ r.done = {}
        /\ r.wanted = {f} /\ r.roots = {f} /\ NoRun.wanted = {}
    BY DEF NoRun
  <2>3. r \in Run
    BY EmptySeq DEF NoRun, Run
  <2> HIDE DEF r
  <2>4. Fresh(r)
    BY <2>2, <2>3, NoRunIsFresh DEF Fresh, PlanIsLocked
  <2> QED
    BY <2>1, <2>4 DEF r
<1> QED
  BY <1>2, <1>3, <1>4 DEF Plan

(* Planning. *)
LEMMA PlanIsSound ==
  ASSUME RunInv, NEW p \in Proc, Plan(p)
  PROVE  SoundStep(p)
<1>1. PICK r : Fresh(r) /\ Start(p, r)
  BY PlansAreFresh
<1>2. /\ pc[p] = "idle" /\ pc' = [pc EXCEPT ![p] = "locking"]
      /\ run' = [run EXCEPT ![p] = r]
      /\ UNCHANGED <<direct, keg, aside, holder>>
  BY <1>1 DEF Start, Go, Remember, racks
<1>3. TypeOK'
  BY <1>1, <1>2 DEF RunInv, TypeOK, Fresh
<1>4. StepOf(p)
  BY <1>2 DEF StepOf, RunInv, TypeOK
<1>5. run'[p] = r /\ pc'[p] = "locking" /\ run[p].poured = {}
  BY <1>2 DEF RunInv, TypeOK, Sound, InStage
<1>6. PouredIsLeft(r) /\ DoneInOrder(r) /\ PlanIsLocked(r)
  BY <1>1, FreshIsSound DEF Fresh
<1>7. Sound(p)'
  <2>1. InStage(p)' /\ RacksAreKnown(p)'
    BY <1>1, <1>5 DEF InStage, RacksAreKnown, Fresh
  <2> QED
    BY <1>2, <1>5, <1>6, <2>1, SoundAfter
<1>8. PartialIsMine(p)
  BY <1>2, <1>5 DEF PartialIsMine
<1> QED
  BY <1>3, <1>4, <1>7, <1>8 DEF SoundStep

(* The end of a run, or of the attempt to begin one. *)
LEMMA EndIsSound ==
  ASSUME RunInv, NEW p \in Proc, LockBusy(p) \/ Release(p)
  PROVE  SoundStep(p)
<1>1. /\ pc[p] \in {"locking", "release"} /\ pc' = [pc EXCEPT ![p] = "idle"]
      /\ run' = [run EXCEPT ![p] = NoRun]
      /\ DropLocks(p)
      /\ UNCHANGED <<direct, keg, aside>>
  BY DEF LockBusy, Release, Go, Remember, racks
<1>2. TypeOK'
  BY <1>1, NoRunIsFresh DEF RunInv, TypeOK, Fresh, DropLocks
<1>3. StepOf(p)
  BY <1>1 DEF StepOf, RunInv, TypeOK, DropLocks
<1>4. run'[p] = NoRun /\ pc'[p] = "idle" /\ run[p].poured = {}
  BY <1>1 DEF RunInv, TypeOK, Sound, InStage
<1>5. PouredIsLeft(NoRun) /\ DoneInOrder(NoRun) /\ Fresh(NoRun)
  BY NoRunIsFresh, FreshIsSound
<1> HIDE DEF NoRun
<1>6. Sound(p)'
  <2>1. InStage(p)' /\ RacksAreKnown(p)'
    BY <1>4, <1>5 DEF InStage, RacksAreKnown, Fresh
  <2> QED
    BY <1>1, <1>4, <1>5, <2>1, SoundAfter DEF Fresh
<1>7. PartialIsMine(p)
  BY <1>1, <1>4 DEF PartialIsMine
<1> QED
  BY <1>2, <1>3, <1>6, <1>7 DEF SoundStep

(* What leaves a run's memory as it is and goes on from a place where nothing is
   poured to another, with the racks of the others as they are. *)
LEMMA GoingOnIsSound ==
  ASSUME RunInv, NEW p \in Proc, TypeOK', StepOf(p), UNCHANGED <<direct, run, keg, aside>>,
         pc[p] \in {"locking", "fetch"},
         pc'[p] \in {"locking", "fetch", "pour", "remove", "release"},
         pc'[p] # "locking" => \A f \in run[p].wanted : holder'[f] = p
  PROVE  SoundStep(p)
<1>1. Sound(p)'
  <2>1. InStage(p)' /\ RacksAreKnown(p)'
    BY DEF RunInv, Sound, InStage, RacksAreKnown
  <2> QED
    BY <2>1, SoundAfter DEF RunInv, Sound
<1>2. PartialIsMine(p)
  BY DEF PartialIsMine, RunInv, Sound, InStage
<1> QED
  BY <1>1, <1>2 DEF SoundStep

(* Taking a lock. *)
LEMMA TakeLockIsSound ==
  ASSUME RunInv, NEW p \in Proc, TakeLock(p)
  PROVE  SoundStep(p)
<1>1. PICK f \in Formula :
        /\ holder[f] = None
        /\ holder' = [holder EXCEPT ![f] = p]
        /\ Go(p, "locking", IF run[p].wanted \subseteq Held(p) \union {f} THEN AfterLocks(p)
                            ELSE "locking")
        /\ UNCHANGED <<direct, keg, aside, run>>
  BY DEF TakeLock, racks
<1>2. AfterLocks(p) \in {"remove", "release", "fetch"}
  BY DEF AfterLocks
<1>3. TypeOK'
  BY <1>1, <1>2 DEF RunInv, TypeOK, Go
<1>4. StepOf(p)
  BY <1>1, NobodyIsNone DEF StepOf, RunInv, TypeOK, Go
<1>5. pc'[p] # "locking" => \A g \in run[p].wanted : holder'[g] = p
  BY <1>1 DEF Go, RunInv, TypeOK, Held
<1>6. pc[p] = "locking" /\ pc'[p] \in {"locking", "fetch", "pour", "remove", "release"}
  BY <1>1, <1>2 DEF Go, RunInv, TypeOK
<1> QED
  BY <1>1, <1>3, <1>4, <1>5, <1>6, GoingOnIsSound

(* Fetching the bottles. *)
LEMMA FetchIsSound ==
  ASSUME RunInv, NEW p \in Proc, Fetch(p)
  PROVE  SoundStep(p)
<1>1. /\ pc[p] = "fetch" /\ UNCHANGED <<direct, keg, aside, holder, run>>
      /\ pc' = [pc EXCEPT ![p] = "pour"] \/ pc' = [pc EXCEPT ![p] = "release"]
  BY DEF Fetch, Go, racks
<1>2. TypeOK' /\ StepOf(p)
  BY <1>1 DEF RunInv, TypeOK, StepOf
<1>3. pc'[p] \in {"pour", "release"} /\ \A f \in run[p].wanted : holder'[f] = p
  BY <1>1 DEF RunInv, TypeOK, Sound, InStage
<1> QED
  BY <1>1, <1>2, <1>3, GoingOnIsSound

(* Removing a keg. *)
LEMMA RemoveKegIsSound ==
  ASSUME RunInv, NEW p \in Proc, RemoveKeg(p)
  PROVE  SoundStep(p)
<1> USE DEF RunInv, TypeOK
<1>1. /\ pc[p] = "remove" /\ pc' = [pc EXCEPT ![p] = "release"]
      /\ keg' = [f \in Formula |-> IF f \in run[p].roots THEN "none" ELSE keg[f]]
      /\ UNCHANGED <<direct, aside, holder, run>>
  BY DEF RemoveKeg, Go
<1>2. /\ PlanIsLocked(run[p]) /\ PouredIsLeft(run[p]) /\ DoneInOrder(run[p])
      /\ InStage(p) /\ RacksAreKnown(p)
  BY DEF Sound
<1>3. run[p].poured = {} /\ run[p].left = run[p].items
  BY <1>1, <1>2 DEF InStage
<1>4. run[p].done = {}
  <2>1. run[p].items \in Seq(Formula)
    BY DEF Run
  <2>2. Passed(run[p]) = 0
    BY <1>3, <2>1, LenProperties DEF Passed
  <2> QED
    BY <1>2, <2>2 DEF DoneInOrder
<1>5. TypeOK'
  BY <1>1 DEF KegState
<1>6. StepOf(p)
  BY <1>1, <1>2 DEF StepOf, InStage, PlanIsLocked
<1>7. Sound(p)'
  <2>1. InStage(p)' /\ RacksAreKnown(p)'
    BY <1>1, <1>2, <1>3, <1>4 DEF InStage, RacksAreKnown
  <2> QED
    BY <1>1, <1>2, <2>1, SoundAfter
<1>8. PartialIsMine(p)
  <2> SUFFICES ASSUME NEW f \in Formula, keg'[f] = "unfinished" \/ aside'[f] # "none"
               PROVE  keg'[f] = keg[f] /\ aside'[f] = aside[f]
    BY <1>3 DEF PartialIsMine
  <2>1. CASE f \in run[p].roots
    <3>1. aside[f] # "none" /\ holder[f] = p
      BY <1>1, <1>2, <2>1 DEF InStage, PlanIsLocked
    <3>2. PICK q \in Proc : f \in run[q].poured
      BY <3>1 DEF PartialIsPoured
    <3>3. holder[f] = q
      BY <3>2, PouredIsLocked
    <3> QED
      BY <1>3, <3>1, <3>2, <3>3
  <2>2. CASE f \notin run[p].roots
    BY <1>1, <2>2
  <2> QED
    BY <2>1, <2>2
<1> QED
  BY <1>5, <1>6, <1>7, <1>8 DEF SoundStep

(* What a run remembers when it has tried to pour an item, and when it has come
   to one in the last loop. *)
WithoutPour(r, f) == [r EXCEPT !.unpoured = @ \ {f}]

WithPour(r, f, backed) ==
  [r EXCEPT !.unpoured = @ \ {f}, !.poured = @ \union {f}, !.backed = backed]

WithFailure(r, f) == [r EXCEPT !.left = Tail(@), !.poured = @ \ {f}, !.failed = @ \union {f}]

WithFinish(r, f) == [r EXCEPT !.left = Tail(@), !.poured = @ \ {f}, !.done = @ \union {f}]

SamePlan(r, s) == s.items = r.items /\ s.wanted = r.wanted /\ s.roots = r.roots

LEMMA AfterPouring ==
  ASSUME NEW r \in Run, NEW f \in Formula, NEW backed \in SUBSET Formula
  PROVE  /\ LET s == WithoutPour(r, f) IN
            /\ s \in Run /\ SamePlan(r, s)
            /\ s.left = r.left /\ s.done = r.done /\ s.failed = r.failed
            /\ s.unpoured = r.unpoured \ {f} /\ s.poured = r.poured /\ s.backed = r.backed
         /\ LET s == WithPour(r, f, backed) IN
            /\ s \in Run /\ SamePlan(r, s)
            /\ s.left = r.left /\ s.done = r.done /\ s.failed = r.failed
            /\ s.unpoured = r.unpoured \ {f} /\ s.poured = r.poured \union {f}
            /\ s.backed = backed
  BY DEF Run, SamePlan, WithoutPour, WithPour

LEMMA AfterPassing ==
  ASSUME NEW r \in Run, NEW f \in Formula, Tail(r.left) \in Seq(Formula)
  PROVE  /\ LET s == WithFailure(r, f) IN
            /\ s \in Run /\ SamePlan(r, s)
            /\ s.unpoured = r.unpoured /\ s.backed = r.backed /\ s.left = Tail(r.left)
            /\ s.poured = r.poured \ {f} /\ s.done = r.done
            /\ s.failed = r.failed \union {f}
         /\ LET s == WithFinish(r, f) IN
            /\ s \in Run /\ SamePlan(r, s)
            /\ s.unpoured = r.unpoured /\ s.backed = r.backed /\ s.left = Tail(r.left)
            /\ s.poured = r.poured \ {f} /\ s.done = r.done \union {f}
            /\ s.failed = r.failed
  BY DEF Run, SamePlan, WithFailure, WithFinish

(* What a run has not poured yet is whole. *)
LEMMA UnpouredIsWhole ==
  ASSUME RunInv, NEW p \in Proc, NEW f \in run[p].unpoured, pc[p] = "pour"
  PROVE  /\ f \in Formula /\ holder[f] = p
         /\ f \in ToSet(run[p].items) /\ f \notin run[p].poured /\ f \notin run[p].backed
         /\ keg[f] \in {"none", "installed"} /\ aside[f] = "none"
<1> USE DEF RunInv, TypeOK
<1>1. PlanIsLocked(run[p]) /\ PouredIsLeft(run[p]) /\ InStage(p)
  BY DEF Sound
<1>2. /\ f \in ToSet(run[p].items) /\ f \notin run[p].poured /\ f \notin run[p].backed
  BY <1>1 DEF PouredIsLeft
<1>3. f \in Formula /\ holder[f] = p
  BY <1>1, <1>2 DEF Run, PlanIsLocked, InStage
<1>4. \A q \in Proc : f \notin run[q].poured
  BY SMTT(60), <1>2, <1>3, PouredIsLocked
<1> QED
  BY <1>2, <1>3, <1>4 DEF PartialIsPoured, KegState

(* Pouring a keg, or failing to. *)
LEMMA PourIsSound ==
  ASSUME RunInv, NEW p \in Proc, Pour(p) \/ PourFails(p)
  PROVE  SoundStep(p)
<1> USE DEF RunInv, TypeOK
<1> DEFINE r == run[p]
           s == run'[p]
<1>1. PICK f \in Formula :
        /\ f \in run[p].unpoured
        /\ pc[p] = "pour"
        /\ pc' = [pc EXCEPT ![p] = IF run[p].unpoured = {f} THEN "finish" ELSE "pour"]
        /\ UNCHANGED <<direct, holder>>
        /\ \/ /\ keg' = [keg EXCEPT ![f] = "unfinished"]
              /\ aside' = [aside EXCEPT ![f] = IF keg[f] = "none" THEN @ ELSE keg[f]]
              /\ run' = [run EXCEPT ![p] =
                           [run[p] EXCEPT !.unpoured = @ \ {f},
                                          !.poured = @ \union {f},
                                          !.backed = IF keg[f] = "none" THEN @
                                                     ELSE @ \union {f}]]
           \/ /\ UNCHANGED <<keg, aside>>
              /\ run' = [run EXCEPT ![p] = [run[p] EXCEPT !.unpoured = @ \ {f}]]
  BY DEF Pour, PourFails, Pouring, Go, Remember, racks
<1>2. /\ PlanIsLocked(r) /\ PouredIsLeft(r) /\ DoneInOrder(r)
      /\ InStage(p) /\ RacksAreKnown(p)
  BY DEF Sound
<1>3. /\ holder[f] = p
      /\ f \in ToSet(r.items) /\ f \notin r.poured /\ f \notin r.backed
      /\ keg[f] \in {"none", "installed"} /\ aside[f] = "none"
  BY <1>1, UnpouredIsWhole
<1>4. r \in Run
  OBVIOUS
<1>5. f \in Formula
  BY <1>1, UnpouredIsWhole
<1>6. /\ s \in Run
      /\ run' = [run EXCEPT ![p] = s]
      /\ SamePlan(r, s)
      /\ s.left = r.left /\ s.done = r.done /\ s.failed = r.failed /\ s.unpoured = r.unpoured \ {f}
      /\ \/ /\ keg' = [keg EXCEPT ![f] = "unfinished"]
            /\ aside' = [aside EXCEPT ![f] = IF keg[f] = "none" THEN @ ELSE keg[f]]
            /\ s.poured = r.poured \union {f}
            /\ s.backed = IF keg[f] = "none" THEN r.backed ELSE r.backed \union {f}
         \/ /\ UNCHANGED <<keg, aside>>
            /\ s.poured = r.poured /\ s.backed = r.backed
  <2> DEFINE backed == IF keg[f] = "none" THEN r.backed ELSE r.backed \union {f}
  <2>1. backed \in SUBSET Formula
    BY <1>4, <1>5 DEF Run
  <2>2. \/ /\ keg' = [keg EXCEPT ![f] = "unfinished"]
           /\ aside' = [aside EXCEPT ![f] = IF keg[f] = "none" THEN @ ELSE keg[f]]
           /\ s = WithPour(r, f, backed)
        \/ UNCHANGED <<keg, aside>> /\ s = WithoutPour(r, f)
    BY <1>1 DEF WithPour, WithoutPour
  <2>3. run' = [run EXCEPT ![p] = s]
    BY <1>1
  <2> HIDE DEF r, s, backed
  <2>4. CASE UNCHANGED <<keg, aside>> /\ s = WithoutPour(r, f)
    <3>1. /\ s \in Run /\ SamePlan(r, s)
          /\ s.left = r.left /\ s.done = r.done /\ s.failed = r.failed
          /\ s.unpoured = r.unpoured \ {f} /\ s.poured = r.poured /\ s.backed = r.backed
      BY <1>4, <1>5, <2>1, <2>4, AfterPouring
    <3> QED
      BY <2>3, <2>4, <3>1
  <2>5. CASE /\ keg' = [keg EXCEPT ![f] = "unfinished"]
             /\ aside' = [aside EXCEPT ![f] = IF keg[f] = "none" THEN @ ELSE keg[f]]
             /\ s = WithPour(r, f, backed)
    <3>1. /\ s \in Run /\ SamePlan(r, s)
          /\ s.left = r.left /\ s.done = r.done /\ s.failed = r.failed
          /\ s.unpoured = r.unpoured \ {f} /\ s.poured = r.poured \union {f}
          /\ s.backed = backed
      BY <1>4, <1>5, <2>1, <2>5, AfterPouring
    <3> QED
      BY <2>3, <2>5, <3>1 DEF backed
  <2> QED
    BY <2>2, <2>4, <2>5
<1>7. TypeOK'
  BY <1>1, <1>3, <1>6 DEF KegState
<1>8. StepOf(p)
  BY <1>1, <1>3 DEF StepOf
<1>9. r.left = r.items /\ Passed(r) = 0 /\ r.done = {}
  <2>1. r.left = r.items
    BY <1>1, <1>2 DEF InStage
  <2>2. Passed(r) = 0
    BY <1>4, <2>1, LenProperties DEF Passed, Run
  <2> QED
    BY <1>2, <2>1, <2>2 DEF DoneInOrder
<1>10. pc[p] = "pour" /\ pc'[p] \in {"pour", "finish"} /\ s = run'[p] /\ r = run[p]
  BY <1>1
<1> HIDE DEF r, s
<1>11. PlanIsLocked(s) /\ PouredIsLeft(s) /\ DoneInOrder(s)
  <2>1. PlanIsLocked(s)
    BY <1>2, <1>6 DEF PlanIsLocked, SamePlan
  <2>2. PouredIsLeft(s)
    BY <1>2, <1>3, <1>6, <1>9 DEF PouredIsLeft, Passed, SamePlan
  <2>3. DoneInOrder(s)
    BY SMTT(60), <1>2, <1>6 DEF DoneInOrder, Passed, SamePlan
  <2> QED
    BY <2>1, <2>2, <2>3
<1>12. InStage(p)'
  BY <1>1, <1>2, <1>6, <1>9, <1>10 DEF InStage, SamePlan
<1>13. RacksAreKnown(p)'
  <2>1. \A g \in s.done : keg'[g] = "installed"
    BY <1>6, <1>9
  <2>2. ASSUME NEW g \in s.poured
        PROVE  keg'[g] = "unfinished" /\ (g \in s.backed <=> aside'[g] # "none")
    <3>1. r.poured \subseteq Formula
      BY <1>4 DEF Run
    <3>2. CASE g = f
      BY <1>3, <1>6, <3>2
    <3>3. CASE g # f
      <4>1. g \in r.poured /\ g \in Formula
        BY <1>6, <3>1, <3>3
      <4> QED
        BY <1>2, <1>6, <1>10, <3>3, <4>1 DEF RacksAreKnown
    <3> QED
      BY <3>2, <3>3
  <2> QED
    BY <1>10, <2>1, <2>2 DEF RacksAreKnown
<1>14. Sound(p)'
  BY <1>1, <1>10, <1>11, <1>12, <1>13, SoundAfter
<1>15. PartialIsMine(p)
  <2> SUFFICES ASSUME NEW g \in Formula, keg'[g] = "unfinished" \/ aside'[g] # "none"
               PROVE  \/ g \in s.poured
                      \/ g \notin r.poured /\ keg'[g] = keg[g] /\ aside'[g] = aside[g]
    BY <1>10 DEF PartialIsMine
  <2>1. CASE g = f
    BY <1>3, <1>6, <2>1
  <2>2. CASE g # f
    BY SMTT(60), <1>6, <2>2
  <2> QED
    BY <2>1, <2>2
<1> QED
  BY SMTT(60), <1>7, <1>8, <1>14, <1>15 DEF SoundStep

(* Coming to an item in the last loop. *)
LEMMA LoopIsSound ==
  ASSUME RunInv, NEW p \in Proc, NotPoured(p) \/ GiveUp(p) \/ FinishItem(p)
  PROVE  SoundStep(p)
<1> USE DEF RunInv, TypeOK
<1> DEFINE r == run[p]
           s == run'[p]
<1>1. PICK f \in Formula :
        /\ r.left # <<>>
        /\ f = Head(r.left)
        /\ pc[p] = "finish"
        /\ pc' = [pc EXCEPT ![p] = IF Tail(r.left) = <<>> THEN "release" ELSE "finish"]
        /\ UNCHANGED <<direct, holder>>
        /\ \/ /\ f \notin r.poured /\ Failed(p, f) /\ UNCHANGED <<keg, aside>>
           \/ /\ f \in r.poured /\ Failed(p, f) /\ PutBack(p, f)
           \/ /\ f \in r.poured /\ ~DependsOnFailed(p, f)
              /\ keg' = [keg EXCEPT ![f] = "installed"]
              /\ aside' = [aside EXCEPT ![f] = IF f \in r.backed THEN "none" ELSE @]
              /\ Remember(p, [run[p] EXCEPT !.left = Tail(@), !.poured = @ \ {f},
                                            !.done = @ \union {f}])
  BY DEF NotPoured, GiveUp, FinishItem, Finishing, Go, racks
<1>2. /\ PlanIsLocked(r) /\ PouredIsLeft(r) /\ DoneInOrder(r)
      /\ InStage(p) /\ RacksAreKnown(p)
  BY DEF Sound
<1>3. r \in Run
  OBVIOUS
<1>4. Tail(r.left) \in Seq(Formula) /\ f \in ToSet(r.items) /\ holder[f] = p
  <2>1. /\ Tail(r.left) \in Seq(Formula)
        /\ f = r.items[Passed(r) + 1] /\ Passed(r) + 1 \in 1..Len(r.items)
    BY <1>1, <1>2, <1>3, NextItem
  <2>2. f \in ToSet(r.items)
    BY <1>3, <2>1, LenProperties DEF ToSet, Run
  <2> QED
    BY <1>1, <1>2, <2>1, <2>2 DEF InStage, PlanIsLocked
<1>5. /\ s \in Run
      /\ SamePlan(r, s)
      /\ s.unpoured = r.unpoured /\ s.backed = r.backed
      /\ s.left = Tail(r.left) /\ s.poured = r.poured \ {f}
      /\ run' = [run EXCEPT ![p] = s]
      /\ \/ /\ f \notin r.poured /\ UNCHANGED <<keg, aside>>
            /\ s.done = r.done /\ s.failed = r.failed \union {f}
         \/ /\ f \in r.poured /\ PutBack(p, f)
            /\ s.done = r.done /\ s.failed = r.failed \union {f}
         \/ /\ f \in r.poured /\ direct[f] \intersect r.failed = {}
            /\ keg' = [keg EXCEPT ![f] = "installed"]
            /\ aside' = [aside EXCEPT ![f] = IF f \in r.backed THEN "none" ELSE @]
            /\ s.done = r.done \union {f} /\ s.failed = r.failed
  <2>1. f \in Formula
    BY <1>3, <1>4, LenProperties, ElementOfSeq DEF ToSet, Run
  <2>2. \/ /\ f \notin r.poured /\ UNCHANGED <<keg, aside>>
           /\ s = WithFailure(r, f)
        \/ /\ f \in r.poured /\ PutBack(p, f)
           /\ s = WithFailure(r, f)
        \/ /\ f \in r.poured /\ direct[f] \intersect r.failed = {}
           /\ keg' = [keg EXCEPT ![f] = "installed"]
           /\ aside' = [aside EXCEPT ![f] = IF f \in r.backed THEN "none" ELSE @]
           /\ s = WithFinish(r, f)
    BY <1>1 DEF Failed, Remember, DependsOnFailed, WithFailure, WithFinish
  <2>3. run' = [run EXCEPT ![p] = s]
    BY <1>1 DEF Failed, Remember
  <2> HIDE DEF r, s
  <2>4. CASE /\ s = WithFailure(r, f)
             /\ \/ f \notin r.poured /\ UNCHANGED <<keg, aside>>
                \/ f \in r.poured /\ PutBack(p, f)
    <3>1. /\ s \in Run /\ SamePlan(r, s)
          /\ s.unpoured = r.unpoured /\ s.backed = r.backed /\ s.left = Tail(r.left)
          /\ s.poured = r.poured \ {f} /\ s.done = r.done /\ s.failed = r.failed \union {f}
      BY <1>3, <1>4, <2>1, <2>4, AfterPassing
    <3> QED
      BY <2>3, <2>4, <3>1
  <2>5. CASE /\ f \in r.poured /\ direct[f] \intersect r.failed = {}
             /\ keg' = [keg EXCEPT ![f] = "installed"]
             /\ aside' = [aside EXCEPT ![f] = IF f \in r.backed THEN "none" ELSE @]
             /\ s = WithFinish(r, f)
    <3>1. /\ s \in Run /\ SamePlan(r, s)
          /\ s.unpoured = r.unpoured /\ s.backed = r.backed /\ s.left = Tail(r.left)
          /\ s.poured = r.poured \ {f} /\ s.done = r.done \union {f} /\ s.failed = r.failed
      BY <1>3, <1>4, <2>1, <2>5, AfterPassing
    <3> QED
      BY <2>3, <2>5, <3>1
  <2> QED
    BY <2>2, <2>4, <2>5
<1>6. pc[p] = "finish" /\ pc'[p] \in {"finish", "release"} /\ s = run'[p] /\ r = run[p]
  BY <1>1
<1> HIDE DEF r, s
<1>7. PlanIsLocked(s) /\ PouredIsLeft(s) /\ DoneInOrder(s) /\ f \notin r.done
  BY <1>1, <1>2, <1>3, <1>5, PassingKeepsOrder DEF SamePlan
<1>8. f \in r.poured => keg[f] = "unfinished" /\ (f \in r.backed <=> aside[f] = "installed")
  BY <1>2, <1>6 DEF RacksAreKnown
<1>9. /\ \A g \in Formula \ {f} : keg'[g] = keg[g] /\ aside'[g] = aside[g]
      /\ f \notin r.poured => keg'[f] = keg[f] /\ aside'[f] = aside[f]
      /\ f \in r.poured => keg'[f] \in {"none", "installed"} /\ aside'[f] = "none"
      /\ f \in s.done => keg'[f] = "installed"
      /\ keg' \in [Formula -> KegState] /\ aside' \in [Formula -> {"none", "installed"}]
  <2>1. f \in Formula
    BY <1>4, PouredIsLocked DEF r
  <2>2. CASE f \notin r.poured
    BY <1>5, <1>7, <2>1, <2>2
  <2>3. CASE f \in r.poured /\ PutBack(p, f) /\ s.done = r.done
    BY ZenonT(120), <1>6, <1>7, <1>8, <2>1, <2>3 DEF PutBack, KegState
  <2>4. CASE /\ f \in r.poured
             /\ keg' = [keg EXCEPT ![f] = "installed"]
             /\ aside' = [aside EXCEPT ![f] = IF f \in r.backed THEN "none" ELSE @]
    BY <1>8, <2>1, <2>4 DEF KegState
  <2> QED
    BY <1>5, <2>2, <2>3, <2>4
<1>10. TypeOK'
  BY <1>1, <1>5, <1>9
<1>11. StepOf(p)
  BY SMTT(60), <1>1, <1>4, <1>5, <1>9 DEF StepOf
<1>12. InStage(p)'
  <2>1. pc'[p] = "release" => s.poured = {}
    <3> SUFFICES ASSUME pc'[p] = "release" PROVE s.poured = {}
      OBVIOUS
    <3>1. s.left = <<>>
      BY <1>1, <1>5
    <3>2. ToSet(s.left) = {}
      BY <3>1 DEF ToSet
    <3> QED
      BY <1>7, <3>2 DEF PouredIsLeft
  <2> QED
    BY <1>1, <1>2, <1>5, <1>6, <2>1 DEF InStage, SamePlan
<1>13. RacksAreKnown(p)'
  <2>1. r.poured \subseteq Formula /\ r.done \subseteq Formula
    BY <1>3 DEF Run
  <2>2. ASSUME NEW g \in s.done PROVE keg'[g] = "installed"
    <3>1. g = f \/ g \in r.done
      BY <1>5
    <3> QED
      BY <1>2, <1>6, <1>7, <1>9, <2>1, <2>2, <3>1 DEF RacksAreKnown
  <2>3. ASSUME NEW g \in s.poured
        PROVE  keg'[g] = "unfinished" /\ (g \in s.backed <=> aside'[g] # "none")
    <3>1. g # f /\ g \in r.poured
      BY <1>5
    <3>2. keg[g] = "unfinished" /\ (g \in r.backed <=> aside[g] # "none")
      BY <1>2, <1>6, <3>1 DEF RacksAreKnown
    <3>3. keg'[g] = keg[g] /\ aside'[g] = aside[g] /\ s.backed = r.backed
      BY <1>5, <1>9, <2>1, <3>1
    <3> QED
      BY <3>2, <3>3
  <2> QED
    BY <1>6, <2>2, <2>3 DEF RacksAreKnown
<1>14. Sound(p)'
  BY <1>1, <1>6, <1>7, <1>12, <1>13, SoundAfter
<1>15. PartialIsMine(p)
  <2> SUFFICES ASSUME NEW g \in Formula, keg'[g] = "unfinished" \/ aside'[g] # "none"
               PROVE  \/ g \in s.poured
                      \/ g \notin r.poured /\ keg'[g] = keg[g] /\ aside'[g] = aside[g]
    BY <1>6 DEF PartialIsMine
  <2>1. CASE g = f
    BY <1>9, <2>1
  <2>2. CASE g # f
    BY <1>5, <1>9, <2>2
  <2> QED
    BY <2>1, <2>2
<1> QED
  BY SMTT(60), <1>10, <1>11, <1>14, <1>15 DEF SoundStep

-----------------------------------------------------------------------------
(* The invariant, and what it says. *)

(* It holds at the start. *)
LEMMA InitRunInv == Init => RunInv
<1> SUFFICES ASSUME Init PROVE RunInv
  OBVIOUS
<1>1. PouredIsLeft(NoRun) /\ DoneInOrder(NoRun) /\ Fresh(NoRun)
  BY NoRunIsFresh, FreshIsSound
<1>2. TypeOK
  BY <1>1 DEF Init, TypeOK, Fresh, KegState
<1>3. ASSUME NEW p \in Proc PROVE Sound(p)
  <2>1. run[p] = NoRun /\ pc[p] = "idle"
    BY DEF Init
  <2> QED
    BY <1>1, <2>1 DEF Sound, InStage, RacksAreKnown, Fresh
<1>4. PartialIsPoured
  BY DEF Init, PartialIsPoured
<1> QED
  BY <1>2, <1>3, <1>4 DEF RunInv

(* Every step keeps it. *)
LEMMA StepRunInv == RunInv /\ [Next]_vars => RunInv'
<1> SUFFICES ASSUME RunInv, [Next]_vars PROVE RunInv'
  OBVIOUS
<1>1. ASSUME NEW p \in Proc, Plan(p) \/ Work(p) PROVE SoundStep(p)
  BY <1>1, PlanIsSound, EndIsSound, TakeLockIsSound, FetchIsSound, PourIsSound, LoopIsSound,
     RemoveKegIsSound DEF Work
<1>2. CASE Next
  BY <1>1, <1>2, SoundStepKeepsRunInv DEF Next
<1>3. CASE UNCHANGED vars
  <2>1. \A p \in Proc : InStage(p)' /\ RacksAreKnown(p)'
    BY <1>3 DEF vars, RunInv, Sound, InStage, RacksAreKnown
  <2>2. \A p \in Proc : Sound(p)'
    BY <1>3, <2>1, SoundAfter DEF vars, RunInv, Sound
  <2> QED
    BY <1>3, <2>2 DEF vars, RunInv, TypeOK, PartialIsPoured
<1> QED
  BY <1>2, <1>3

(* So it holds of every run. *)
LEMMA RunInvHolds == Spec => []RunInv
  BY InitRunInv, StepRunInv, PTL DEF Spec

(* Every variable keeps its type, and only an installed keg is ever put aside,
   for any dependency graphs (`pour_one` and its `backup`). *)
THEOREM TypeCorrect == Spec => []TypeOK
<1>1. RunInv => TypeOK
  BY DEF RunInv
<1> QED
  BY <1>1, RunInvHolds, PTL

(* What a run has poured stays unfinished, and what it put aside stays there,
   until the run itself comes to it, whatever other runs do (`take_locks`,
   `pour_all`). *)
THEOREM PouredIsSafe == Spec => []PouredStaysPoured
<1>1. RunInv => PouredStaysPoured
  BY DEF RunInv, Sound, RacksAreKnown, PouredStaysPoured
<1> QED
  BY <1>1, RunInvHolds, PTL

(* When a run ends, what it finished has the direct dependencies that came
   before it in its plan (`depends_on_failed`). *)
THEOREM FinishedIsSupported == Spec => []FinishedHasDependencies
<1>1. RunInv => FinishedHasDependencies
  BY DEF RunInv, Sound, RacksAreKnown, DoneInOrder, FinishedHasDependencies
<1> QED
  BY <1>1, RunInvHolds, PTL

(* A rack nobody has locked has no unfinished keg and no backup
   (`discard_unfinished_keg`, `restore_backup`). *)
THEOREM RacksAreLeftWhole == Spec => []RacksAreWhole
<1>1. RunInv => RacksAreWhole
  BY PouredIsLocked, NobodyIsNone DEF RunInv, PartialIsPoured, RacksAreWhole
<1> QED
  BY <1>1, RunInvHolds, PTL
=============================================================================
