----------------------------- MODULE RackProofs -----------------------------
(***************************************************************************)
(* What holds of a rack whatever the processes, versions and commands are: *)
(* every step is taken inside the lock or leaves the rack alone, so what a *)
(* process relies on while it holds the lock survives everybody else.      *)
(***************************************************************************)
EXTENDS Rack, TLAPS

(* Past the lock: everywhere but at the places in FreePC. *)
Inside(p) == pc[p] \notin FreePC

(* A process is past the lock exactly while it holds it. *)
Exclusive == \A p \in Proc : Inside(p) <=> holder = p

(* What a process relies on between its steps. *)
OwnKeg(p) ==
  /\ pc[p] = "lock" => job[p].cmd \notin {"cleanup", "pin"}
  /\ pc[p] \in {"lock", "fetch", "displace", "stage", "unpack"} => ~job[p].backup
  /\ pc[p] = "move_aside" => kegs[Current] # "none"
  /\ pc[p] \in FinishingPC => kegs[Current] \in {"unfinished", "shipped"}
  /\ pc[p] \in {"promote"} \union FinishingPC \union UndoingPC /\ job[p].backup
       => backups[Current] # "none"
  /\ pc[p] = "drop_backup" => kegs[Current] = "installed"

OwnRecords(p) ==
  /\ pc[p] \in {"unlink_others", "link", "receipt", "drop_backup"} => opt = Current
  /\ pc[p] \in {"receipt", "drop_backup"} /\ job[p].ok /\ ~kegOnly
       => linked = Current /\ Current \in links

IInv ==
  /\ TypeOK
  /\ Exclusive
  /\ \A p \in Proc : OwnKeg(p) /\ OwnRecords(p)

(* What a step of p may do to the rest. *)
StepOfOne(p) ==
  /\ \A q \in Proc \ {p} : pc'[q] = pc[q] /\ job'[q] = job[q]
  /\ kegOnly' = kegOnly
  /\ <<rack, records>>' = <<rack, records>> \/ Inside(p)
  /\ \/ holder' = holder /\ (Inside(p)' <=> Inside(p))
     \/ holder = None /\ holder' = p /\ Inside(p)'
     \/ holder = p /\ holder' = None /\ ~Inside(p)'

(* Assigning a value of its type to a field of a job gives a job. *)
LEMMA JobFields ==
  ASSUME NEW j \in Job
  PROVE  /\ \A b \in BOOLEAN : [j EXCEPT !.ok = b] \in Job
         /\ \A b \in BOOLEAN : [j EXCEPT !.relink = b] \in Job
         /\ \A b \in BOOLEAN : [j EXCEPT !.backup = b] \in Job
         /\ \A n \in 0..2 : [j EXCEPT !.sweeps = n] \in Job
         /\ \A S \in SUBSET Version : [j EXCEPT !.todo = S] \in Job
         /\ \A v \in Version, S \in SUBSET Version :
              [j EXCEPT !.target = v, !.todo = S, !.seen = TRUE] \in Job
         /\ \A S, T \in SUBSET Version, Q \in SUBSET Proc :
              [j EXCEPT !.todo = S, !.junkKegs = T, !.junkStaging = Q, !.seen = FALSE] \in Job
BY DEF Job

(* Giving a process a new job leaves everybody with a job. *)
LEMMA RememberIsTyped ==
  ASSUME job \in [Proc -> Job], NEW p \in Proc, NEW j \in Job, Remember(p, j)
  PROVE  job' \in [Proc -> Job]
BY DEF Remember

(* So does taking note of a failure (`Fail`). *)
LEMMA FailIsTyped ==
  ASSUME job \in [Proc -> Job], NEW p \in Proc, Fail(p)
  PROVE  job' \in [Proc -> Job]
<1>1. [job[p] EXCEPT !.ok = FALSE] \in Job
  BY JobFields
<1> QED BY <1>1, RememberIsTyped DEF Fail

(* A process starts with a job. *)
LEMMA FirstJobIsTyped == FirstJob \in Job
BY CurrentIsAVersion DEF FirstJob, Job, Command, Installs

(* Every step of a job leaves a job. *)
LEMMA JobStep ==
  ASSUME NEW p \in Proc, TypeOK, Work(p)
  PROVE  job' \in [Proc -> Job]
<1> job \in [Proc -> Job] /\ job[p] \in Job
  BY DEF TypeOK
<1>1. CASE UNCHANGED job
  BY <1>1
<1>2. CASE Fail(p)
  BY <1>2, FailIsTyped
<1>3. CASE Remember(p, FirstJob)
  BY <1>3, RememberIsTyped, FirstJobIsTyped
<1>4. CASE Fetch(p)
  <2>1. [job[p] EXCEPT !.sweeps = 2] \in Job
    <3>1. 2 \in 0..2 OBVIOUS
    <3> QED BY <3>1, JobFields
  <2> QED BY <1>2, <1>4, <2>1, RememberIsTyped DEF Fetch
<1>5. CASE Displace(p)
  <2>1. [job[p] EXCEPT !.relink = At(linked, Current)] \in Job
    <3>1. At(linked, Current) \in BOOLEAN BY DEF At
    <3> QED BY <3>1, JobFields
  <2> QED BY <1>1, <1>5, <2>1, RememberIsTyped DEF Displace
<1>6. CASE MoveAside(p)
  <2>1. [job[p] EXCEPT !.backup = TRUE] \in Job
    BY JobFields
  <2> QED BY <1>2, <1>6, <2>1, RememberIsTyped DEF MoveAside
<1>7. CASE OptLink(p)
  <2>1. [job[p] EXCEPT !.todo = job[p].existing \ {Current}] \in Job
    <3>1. job[p].existing \ {Current} \in SUBSET Version BY DEF Job
    <3> QED BY <3>1, JobFields
  <2> QED BY <1>7, <2>1, RememberIsTyped DEF OptLink
<1>todo. ASSUME NEW v PROVE [job[p] EXCEPT !.todo = job[p].todo \ {v}] \in Job
  <2>1. job[p].todo \ {v} \in SUBSET Version BY DEF Job
  <2> QED BY <2>1, JobFields
<1>8. CASE UnlinkOther(p)
  BY <1>8, <1>todo, RememberIsTyped DEF UnlinkOther
<1>9. CASE SkipGone(p)
  BY <1>9, <1>todo, RememberIsTyped DEF SkipGone
<1>10. CASE RemoveUnlink(p)
  <2>1. ASSUME NEW v \in job[p].todo
        PROVE  [job[p] EXCEPT !.target = v, !.todo = @ \ {v}, !.seen = TRUE] \in Job
    <3>1. job[p].todo \ {v} \in SUBSET Version /\ v \in Version BY <2>1 DEF Job
    <3> QED BY <3>1, JobFields
  <2> QED BY <1>10, <2>1, RememberIsTyped DEF RemoveUnlink
<1>11. ASSUME Finish(p) PROVE job' \in [Proc -> Job]
  BY <1>1, <1>3, <1>11 DEF Finish
<1>12. CASE SweepList(p)
  <2>1. EligibleForCleanup \in SUBSET Version
    BY DEF EligibleForCleanup, Present
  <2>2. [job[p] EXCEPT !.todo = EligibleForCleanup, !.junkKegs = {v \in Version : backups[v] # "none"},
                       !.junkStaging = staging, !.seen = FALSE] \in Job
    BY <2>1, JobFields DEF TypeOK
  <2> QED BY <1>12, <1>11, <2>2, RememberIsTyped DEF SweepList
<1>13. CASE SweepJunk(p)
  <2>1. \A n \in 0..2 : [job[p] EXCEPT !.sweeps = n] \in Job
    BY JobFields
  <2>2. PICK n \in {0, 1} : Remember(p, [job[p] EXCEPT !.sweeps = n])
    BY <1>13 DEF SweepJunk
  <2> QED BY <2>1, <2>2, RememberIsTyped
<1>14. CASE LockBusy(p)
  BY <1>3, <1>11, <1>14 DEF LockBusy
<1>15. CASE Release(p)
  BY <1>1, <1>11, <1>15 DEF Release
<1>16. CASE PinWrite(p) \/ MigratePin(p)
  BY <1>3, <1>16 DEF PinWrite, MigratePin
<1>17. CASE Stage(p) \/ Unpack(p) \/ DropStaleBackup(p) \/ Promote(p) \/ Relocate(p)
  BY <1>1, <1>2, <1>17 DEF Stage, Unpack, DropStaleBackup, Promote, Relocate
<1>18. CASE GiveUp(p) \/ ShouldLink(p) \/ DropStaleRecord(p) \/ Link(p) \/ WriteReceipt(p) \/ DropBackup(p)
  BY <1>1, <1>2, <1>18 DEF GiveUp, ShouldLink, DropStaleRecord, Link, WriteReceipt, DropBackup
<1>19. CASE Undo(p)
  BY <1>1, <1>19
     DEF Undo, Discard, DiscardKeg, DiscardRecords, ClearPlace, Restore, RestoreOptLink, RestoreLink
<1>20. CASE RemoveDir(p) \/ RemoveRecords(p) \/ NoMoreKegs(p) \/ RemovePin(p)
  BY <1>1, <1>20 DEF RemoveDir, RemoveRecords, NoMoreKegs, RemovePin
<1>21. CASE LockOk(p) \/ MarkOnRequest(p) \/ LinkCommand(p) \/ UnlinkCommand(p)
  BY <1>1, <1>21 DEF LockOk, MarkOnRequest, LinkCommand, UnlinkCommand
<1> QED
  BY <1>4, <1>5, <1>6, <1>7, <1>8, <1>9, <1>10, <1>12, <1>13, <1>14, <1>15, <1>16, <1>17, <1>18,
     <1>19, <1>20, <1>21 DEF Work, Pour, FinishKeg, Remove

(* The newest of some versions is one of them (`latest_keg`). *)
LEMMA MaxIsOneOf ==
  ASSUME NEW S \in SUBSET Version, S # {}
  PROVE  Max(S) \in S
BY VersionsAreOrdered DEF Max

(* `default_keg` finds a version in every rack that holds a keg. *)
LEMMA DefaultKegIsAVersion ==
  ASSUME TypeOK, Present # {}
  PROVE  DefaultKeg \in Version
<1>1. Max(Present) \in Version
  BY MaxIsOneOf DEF Present
<1> QED BY <1>1, NoneIsNothing DEF TypeOK, DefaultKeg, Resolve, Present

(* Everything but the jobs. *)
RackTyped ==
  /\ kegs \in [Version -> KegState]
  /\ backups \in [Version -> KegState]
  /\ staging \subseteq Proc
  /\ opt \in Version \union {None}
  /\ linked \in Version \union {None}
  /\ links \subseteq Version
  /\ pin \in Version \union {None}
  /\ kegOnly \in BOOLEAN
  /\ holder \in Proc \union {None}
  /\ deaths \in 0..MaxDeaths

(* Every step leaves the rack, its records and its lock well typed. *)
LEMMA RackStep ==
  ASSUME NEW p \in Proc, IInv, Work(p)
  PROVE  RackTyped'
<1> USE CurrentIsAVersion DEF IInv, TypeOK, Goto, Go, Remember, Fail, fixed, rack, records,
        RackTyped, KegState, Job
<1>1. CASE Fetch(p)
  BY <1>1 DEF Fetch
<1>2. CASE Displace(p)
  BY <1>2 DEF Displace, Unlink
<1>3. CASE Stage(p)
  BY <1>3 DEF Stage, Present
<1>4. CASE Unpack(p)
  BY <1>4 DEF Unpack, Present
<1>5. CASE DropStaleBackup(p)
  BY <1>5 DEF DropStaleBackup
<1>6. CASE MoveAside(p)
  BY ZenonT(120), <1>6 DEF MoveAside
<1>7. CASE Promote(p)
  BY <1>7 DEF Promote, PutBack
<1>8. CASE Relocate(p)
  BY <1>8 DEF Relocate
<1>9. CASE GiveUp(p)
  BY <1>9 DEF GiveUp
<1>10. CASE OptLink(p)
  BY <1>10 DEF OptLink
<1>11. CASE UnlinkOther(p)
  BY <1>11 DEF UnlinkOther, Unlink
<1>12. CASE ShouldLink(p)
  BY <1>12 DEF ShouldLink
<1>13. CASE DropStaleRecord(p)
  BY <1>13 DEF DropStaleRecord
<1>14. CASE Link(p)
  BY <1>14 DEF Link, LinkKeg, Unlink
<1>15. CASE WriteReceipt(p)
  BY <1>15 DEF WriteReceipt
<1>16. CASE DropBackup(p)
  BY <1>16 DEF DropBackup
<1>17. CASE Discard(p)
  BY <1>17 DEF Discard, Unlink
<1>18. CASE DiscardKeg(p)
  BY <1>18 DEF DiscardKeg
<1>19. CASE DiscardRecords(p)
  BY <1>19 DEF DiscardRecords, RemoveRecordsOf
<1>20. CASE ClearPlace(p)
  BY <1>20 DEF ClearPlace
<1>21. CASE Restore(p)
  BY SMTT(60), <1>21 DEF Restore, PutBack
<1>22. CASE RestoreOptLink(p)
  BY <1>22 DEF RestoreOptLink
<1>23. CASE RestoreLink(p)
  BY <1>23 DEF RestoreLink, LinkKeg, Unlink
<1>24. CASE SweepList(p)
  BY <1>24 DEF SweepList, Finish
<1>25. CASE RemoveUnlink(p)
  BY <1>25 DEF RemoveUnlink, Unlink
<1>26. CASE SkipGone(p)
  BY <1>26 DEF SkipGone
<1>27. CASE RemoveDir(p)
  BY <1>27 DEF RemoveDir
<1>28. CASE RemoveRecords(p)
  BY <1>28 DEF RemoveRecords, RemoveRecordsOf
<1>29. CASE NoMoreKegs(p)
  BY <1>29 DEF NoMoreKegs
<1>30. CASE RemovePin(p)
  BY <1>30 DEF RemovePin
<1>31. CASE SweepJunk(p)
  BY <1>31 DEF SweepJunk
<1>32. CASE PinWrite(p)
  BY <1>32 DEF PinWrite
<1>33. CASE MigratePin(p)
  <2>1. Present # {} => Max(Present) \in Version
    BY SMTT(60), MaxIsOneOf DEF Present
  <2> QED BY <1>33, <2>1 DEF MigratePin
<1>34. CASE LockOk(p)
  BY <1>34 DEF LockOk, AfterLock, Lock!Acquire
<1>35. CASE LockBusy(p)
  BY <1>35 DEF LockBusy, Finish
<1>36. CASE Release(p)
  BY <1>36 DEF Release, Finish, Lock!Release
<1>37. CASE MarkOnRequest(p)
  BY <1>37 DEF MarkOnRequest
<1>38. CASE LinkCommand(p)
  BY <1>38 DEF LinkCommand, LinkKeg, Unlink
<1>39. CASE UnlinkCommand(p)
  BY <1>39 DEF UnlinkCommand, Unlink
<1> QED
  BY <1>1, <1>2, <1>3, <1>4, <1>5, <1>6, <1>7, <1>8, <1>9, <1>10, <1>11, <1>12, <1>13,
     <1>14, <1>15, <1>16, <1>17, <1>18, <1>19, <1>20, <1>21, <1>22, <1>23, <1>24, <1>25,
     <1>26, <1>27, <1>28, <1>29, <1>30, <1>31, <1>32, <1>33, <1>34, <1>35, <1>36, <1>37,
     <1>38, <1>39
  DEF Work, Pour, FinishKeg, Undo, Remove

(* Every step leads to a place of a process. *)
LEMMA PcStep ==
  ASSUME NEW p \in Proc, IInv, Work(p)
  PROVE  pc' \in [Proc -> FreePC \union LockedPC]
<1> USE CurrentIsAVersion DEF IInv, TypeOK, Goto, Go, Remember, Fail, fixed, rack, records,
        FreePC, LockedPC, PouringPC, FinishingPC, UndoingPC, OtherPC, Job
<1>1. CASE Fetch(p)
  BY <1>1 DEF Fetch
<1>2. CASE Displace(p)
  BY <1>2 DEF Displace, Unlink
<1>3. CASE Stage(p)
  BY <1>3 DEF Stage, Present
<1>4. CASE Unpack(p)
  BY <1>4 DEF Unpack, Present
<1>5. CASE DropStaleBackup(p)
  BY <1>5 DEF DropStaleBackup
<1>6. CASE MoveAside(p)
  BY <1>6 DEF MoveAside
<1>7. CASE Promote(p)
  BY <1>7 DEF Promote, PutBack
<1>8. CASE Relocate(p)
  BY <1>8 DEF Relocate
<1>9. CASE GiveUp(p)
  BY <1>9 DEF GiveUp
<1>10. CASE OptLink(p)
  BY <1>10 DEF OptLink
<1>11. CASE UnlinkOther(p)
  BY <1>11 DEF UnlinkOther, Unlink
<1>12. CASE ShouldLink(p)
  BY <1>12 DEF ShouldLink
<1>13. CASE DropStaleRecord(p)
  BY <1>13 DEF DropStaleRecord
<1>14. CASE Link(p)
  BY <1>14 DEF Link, LinkKeg, Unlink
<1>15. CASE WriteReceipt(p)
  BY <1>15 DEF WriteReceipt
<1>16. CASE DropBackup(p)
  BY <1>16 DEF DropBackup
<1>17. CASE Discard(p)
  BY <1>17 DEF Discard, Unlink
<1>18. CASE DiscardKeg(p)
  BY <1>18 DEF DiscardKeg
<1>19. CASE DiscardRecords(p)
  BY <1>19 DEF DiscardRecords, RemoveRecordsOf
<1>20. CASE ClearPlace(p)
  BY <1>20 DEF ClearPlace
<1>21. CASE Restore(p)
  BY SMTT(60), <1>21 DEF Restore, PutBack
<1>22. CASE RestoreOptLink(p)
  BY <1>22 DEF RestoreOptLink
<1>23. CASE RestoreLink(p)
  BY <1>23 DEF RestoreLink, LinkKeg, Unlink
<1>24. CASE SweepList(p)
  BY <1>24 DEF SweepList, Finish
<1>25. CASE RemoveUnlink(p)
  BY <1>25 DEF RemoveUnlink, Unlink
<1>26. CASE SkipGone(p)
  BY <1>26 DEF SkipGone
<1>27. CASE RemoveDir(p)
  BY <1>27 DEF RemoveDir
<1>28. CASE RemoveRecords(p)
  BY <1>28 DEF RemoveRecords, RemoveRecordsOf
<1>29. CASE NoMoreKegs(p)
  BY <1>29 DEF NoMoreKegs
<1>30. CASE RemovePin(p)
  BY <1>30 DEF RemovePin
<1>31. CASE SweepJunk(p)
  BY <1>31 DEF SweepJunk
<1>32. CASE PinWrite(p)
  BY <1>32 DEF PinWrite
<1>33. CASE MigratePin(p)
  BY <1>33 DEF MigratePin, Resolve, Present
<1>34. CASE LockOk(p)
  <2>1. job[p].cmd \in Command
    BY DEF Job
  <2>2. AfterLock(p) \in {"fetch", "remove", "mark", "link_keg", "unlink_keg"} \/ pc[p] # "lock"
    BY <2>1 DEF AfterLock, Command, Installs, OwnKeg
  <2> QED BY <1>34, <2>2 DEF LockOk, Lock!Acquire
<1>35. CASE LockBusy(p)
  BY <1>35 DEF LockBusy, Finish
<1>36. CASE Release(p)
  BY <1>36 DEF Release, Finish, Lock!Release
<1>37. CASE MarkOnRequest(p)
  BY <1>37 DEF MarkOnRequest
<1>38. CASE LinkCommand(p)
  BY <1>38 DEF LinkCommand, LinkKeg, Unlink
<1>39. CASE UnlinkCommand(p)
  BY SMTT(60), <1>39 DEF UnlinkCommand, Unlink
<1> QED
  BY <1>1, <1>2, <1>3, <1>4, <1>5, <1>6, <1>7, <1>8, <1>9, <1>10, <1>11, <1>12, <1>13,
     <1>14, <1>15, <1>16, <1>17, <1>18, <1>19, <1>20, <1>21, <1>22, <1>23, <1>24, <1>25,
     <1>26, <1>27, <1>28, <1>29, <1>30, <1>31, <1>32, <1>33, <1>34, <1>35, <1>36, <1>37,
     <1>38, <1>39
  DEF Work, Pour, FinishKeg, Undo, Remove

(* A process changes the rack only inside the lock, and changes no other process. *)
LEMMA OneStep ==
  ASSUME NEW p \in Proc, IInv, Work(p)
  PROVE  StepOfOne(p)
<1> USE CurrentIsAVersion DEF IInv, TypeOK, Goto, Go, Remember, Fail, fixed, rack, records,
        StepOfOne, Inside, FreePC, Exclusive
<1>1. CASE Fetch(p)
  BY <1>1 DEF Fetch
<1>2. CASE Displace(p)
  BY <1>2 DEF Displace, Unlink
<1>3. CASE Stage(p)
  BY <1>3 DEF Stage, Present
<1>4. CASE Unpack(p)
  BY <1>4 DEF Unpack, Present
<1>5. CASE DropStaleBackup(p)
  BY <1>5 DEF DropStaleBackup
<1>6. CASE MoveAside(p)
  BY <1>6 DEF MoveAside
<1>7. CASE Promote(p)
  BY <1>7 DEF Promote, PutBack
<1>8. CASE Relocate(p)
  BY <1>8 DEF Relocate
<1>9. CASE GiveUp(p)
  BY <1>9 DEF GiveUp
<1>10. CASE OptLink(p)
  BY <1>10 DEF OptLink
<1>11. CASE UnlinkOther(p)
  BY <1>11 DEF UnlinkOther, Unlink
<1>12. CASE ShouldLink(p)
  BY <1>12 DEF ShouldLink
<1>13. CASE DropStaleRecord(p)
  BY <1>13 DEF DropStaleRecord
<1>14. CASE Link(p)
  BY <1>14 DEF Link, LinkKeg, Unlink
<1>15. CASE WriteReceipt(p)
  BY <1>15 DEF WriteReceipt
<1>16. CASE DropBackup(p)
  BY <1>16 DEF DropBackup
<1>17. CASE Discard(p)
  BY <1>17 DEF Discard, Unlink
<1>18. CASE DiscardKeg(p)
  BY <1>18 DEF DiscardKeg
<1>19. CASE DiscardRecords(p)
  BY <1>19 DEF DiscardRecords, RemoveRecordsOf
<1>20. CASE ClearPlace(p)
  BY <1>20 DEF ClearPlace
<1>21. CASE Restore(p)
  BY <1>21 DEF Restore, PutBack
<1>22. CASE RestoreOptLink(p)
  BY <1>22 DEF RestoreOptLink
<1>23. CASE RestoreLink(p)
  BY <1>23 DEF RestoreLink, LinkKeg, Unlink
<1>24. CASE SweepList(p)
  BY <1>24 DEF SweepList, Finish
<1>25. CASE RemoveUnlink(p)
  BY <1>25 DEF RemoveUnlink, Unlink
<1>26. CASE SkipGone(p)
  BY <1>26 DEF SkipGone
<1>27. CASE RemoveDir(p)
  BY <1>27 DEF RemoveDir
<1>28. CASE RemoveRecords(p)
  BY <1>28 DEF RemoveRecords, RemoveRecordsOf
<1>29. CASE NoMoreKegs(p)
  BY <1>29 DEF NoMoreKegs
<1>30. CASE RemovePin(p)
  BY <1>30 DEF RemovePin
<1>31. CASE SweepJunk(p)
  BY <1>31 DEF SweepJunk
<1>32. CASE PinWrite(p)
  BY <1>32 DEF PinWrite
<1>33. CASE MigratePin(p)
  BY <1>33 DEF MigratePin, Resolve, Present
<1>34. CASE LockOk(p)
  <2>1. job[p].cmd \in Command
    BY DEF Job
  <2>2. AfterLock(p) \in {"fetch", "remove", "mark", "link_keg", "unlink_keg"} \/ pc[p] # "lock"
    BY <2>1 DEF AfterLock, Command, Installs, OwnKeg
  <2> QED BY <1>34, <2>2 DEF LockOk, Lock!Acquire
<1>35. CASE LockBusy(p)
  BY <1>35 DEF LockBusy, Finish
<1>36. CASE Release(p)
  BY <1>36 DEF Release, Finish, Lock!Release
<1>37. CASE MarkOnRequest(p)
  BY SMTT(60), <1>37 DEF MarkOnRequest
<1>38. CASE LinkCommand(p)
  BY SMTT(60), <1>38 DEF LinkCommand, LinkKeg, Unlink
<1>39. CASE UnlinkCommand(p)
  BY SMTT(60), <1>39 DEF UnlinkCommand, Unlink
<1> QED
  BY <1>1, <1>2, <1>3, <1>4, <1>5, <1>6, <1>7, <1>8, <1>9, <1>10, <1>11, <1>12, <1>13,
     <1>14, <1>15, <1>16, <1>17, <1>18, <1>19, <1>20, <1>21, <1>22, <1>23, <1>24, <1>25,
     <1>26, <1>27, <1>28, <1>29, <1>30, <1>31, <1>32, <1>33, <1>34, <1>35, <1>36, <1>37,
     <1>38, <1>39
  DEF Work, Pour, FinishKeg, Undo, Remove

(* A process keeps what it relies on. *)
LEMMA OwnStep ==
  ASSUME NEW p \in Proc, IInv, Work(p)
  PROVE  OwnKeg(p)' /\ OwnRecords(p)'
<1> USE CurrentIsAVersion DEF IInv, TypeOK, Goto, Go, Remember, Fail, fixed, rack, records,
        OwnKeg, OwnRecords, FinishingPC, UndoingPC, Job
<1>1. CASE Fetch(p)
  BY <1>1 DEF Fetch
<1>2. CASE Displace(p)
  BY SMTT(60), <1>2 DEF Displace, Unlink
<1>3. CASE Stage(p)
  BY <1>3 DEF Stage, Present
<1>4. CASE Unpack(p)
  BY <1>4 DEF Unpack, Present
<1>5. CASE DropStaleBackup(p)
  BY <1>5 DEF DropStaleBackup
<1>6. CASE MoveAside(p)
  BY <1>6 DEF MoveAside
<1>7. CASE Promote(p)
  BY <1>7 DEF Promote, PutBack
<1>8. CASE Relocate(p)
  BY <1>8 DEF Relocate
<1>9. CASE GiveUp(p)
  BY <1>9 DEF GiveUp
<1>10. CASE OptLink(p)
  BY <1>10 DEF OptLink
<1>11. CASE UnlinkOther(p)
  BY <1>11 DEF UnlinkOther, Unlink
<1>12. CASE ShouldLink(p)
  BY <1>12 DEF ShouldLink
<1>13. CASE DropStaleRecord(p)
  BY <1>13 DEF DropStaleRecord
<1>14. CASE Link(p)
  BY <1>14 DEF Link, LinkKeg, Unlink
<1>15. CASE WriteReceipt(p)
  BY <1>15 DEF WriteReceipt
<1>16. CASE DropBackup(p)
  BY <1>16 DEF DropBackup
<1>17. CASE Discard(p)
  BY <1>17 DEF Discard, Unlink
<1>18. CASE DiscardKeg(p)
  BY <1>18 DEF DiscardKeg
<1>19. CASE DiscardRecords(p)
  BY <1>19 DEF DiscardRecords, RemoveRecordsOf
<1>20. CASE ClearPlace(p)
  BY <1>20 DEF ClearPlace
<1>21. CASE Restore(p)
  BY <1>21 DEF Restore, PutBack
<1>22. CASE RestoreOptLink(p)
  BY <1>22 DEF RestoreOptLink
<1>23. CASE RestoreLink(p)
  BY <1>23 DEF RestoreLink, LinkKeg, Unlink
<1>24. CASE SweepList(p)
  BY <1>24 DEF SweepList, Finish
<1>25. CASE RemoveUnlink(p)
  BY <1>25 DEF RemoveUnlink, Unlink
<1>26. CASE SkipGone(p)
  BY <1>26 DEF SkipGone
<1>27. CASE RemoveDir(p)
  BY <1>27 DEF RemoveDir
<1>28. CASE RemoveRecords(p)
  BY <1>28 DEF RemoveRecords, RemoveRecordsOf
<1>29. CASE NoMoreKegs(p)
  BY <1>29 DEF NoMoreKegs
<1>30. CASE RemovePin(p)
  BY <1>30 DEF RemovePin
<1>31. CASE SweepJunk(p)
  BY <1>31 DEF SweepJunk
<1>32. CASE PinWrite(p)
  BY <1>32 DEF PinWrite
<1>33. CASE MigratePin(p)
  BY <1>33 DEF MigratePin, Resolve, Present
<1>34. CASE LockOk(p)
  <2>1. job[p].cmd \in Command
    BY DEF Job
  <2>2. AfterLock(p) \in {"fetch", "remove", "mark", "link_keg", "unlink_keg"} \/ pc[p] # "lock"
    BY <2>1 DEF AfterLock, Command, Installs, OwnKeg
  <2> QED BY <1>34, <2>2 DEF LockOk, Lock!Acquire
<1>35. CASE LockBusy(p)
  BY <1>35 DEF LockBusy, Finish
<1>36. CASE Release(p)
  BY <1>36 DEF Release, Finish, Lock!Release
<1>37. CASE MarkOnRequest(p)
  BY <1>37 DEF MarkOnRequest
<1>38. CASE LinkCommand(p)
  BY <1>38 DEF LinkCommand, LinkKeg, Unlink
<1>39. CASE UnlinkCommand(p)
  BY <1>39 DEF UnlinkCommand, Unlink
<1> QED
  BY <1>1, <1>2, <1>3, <1>4, <1>5, <1>6, <1>7, <1>8, <1>9, <1>10, <1>11, <1>12, <1>13,
     <1>14, <1>15, <1>16, <1>17, <1>18, <1>19, <1>20, <1>21, <1>22, <1>23, <1>24, <1>25,
     <1>26, <1>27, <1>28, <1>29, <1>30, <1>31, <1>32, <1>33, <1>34, <1>35, <1>36, <1>37,
     <1>38, <1>39
  DEF Work, Pour, FinishKeg, Undo, Remove

GoodStep(p) == TypeOK' /\ StepOfOne(p) /\ OwnKeg(p)' /\ OwnRecords(p)'

(* Every step of a running command is one process's, inside the lock or harmless. *)
LEMMA WorkIsGood ==
  ASSUME NEW p \in Proc, IInv, Work(p)
  PROVE  GoodStep(p)
BY JobStep, RackStep, PcStep, OneStep, OwnStep DEF IInv, TypeOK, RackTyped, GoodStep

(* A command starts outside the lock, with a job that has no history. *)
LEMMA StartIsGood ==
  ASSUME NEW p \in Proc, IInv,
         NEW cmd, NEW l \in {"lock", "sweep", "pin"}, NEW j \in Job,
         ~j.backup, l = "lock" => j.cmd \notin {"cleanup", "pin"},
         Start(p, cmd, l, j)
  PROVE  GoodStep(p)
<1> USE DEF IInv, TypeOK, Start, Goto, Go, Remember, fixed, rack, records
<1>1. TypeOK'
  <2>1. l \in FreePC BY DEF FreePC
  <2> QED BY <2>1
<1>2. StepOfOne(p)
  BY DEF StepOfOne, Inside, FreePC
<1>3. OwnKeg(p)' /\ OwnRecords(p)'
  BY DEF OwnKeg, OwnRecords, FinishingPC, UndoingPC
<1> QED BY <1>1, <1>2, <1>3 DEF GoodStep

(* The jobs commands start with. *)
(* The jobs that commands start with are jobs, and none has a backup: an
   uninstall's list of kegs. *)
LEMMA RemovalIsTyped ==
  ASSUME NEW j \in Job, ~j.backup, NEW c \in Command, NEW S \in SUBSET Version
  PROVE  LET i == [j EXCEPT !.cmd = c, !.todo = S]
         IN  i \in Job /\ ~i.backup /\ i.cmd = c
BY DEF Job

(* The keg `link` or `unlink` works on. *)
LEMMA TargetIsTyped ==
  ASSUME NEW j \in Job, ~j.backup, NEW c \in Command, NEW v \in Version
  PROVE  LET i == [j EXCEPT !.cmd = c, !.target = v]
         IN  i \in Job /\ ~i.backup /\ i.cmd = c
BY DEF Job

(* The keg `pin` has found. *)
LEMMA PinIsTyped ==
  ASSUME NEW j \in Job, ~j.backup, NEW v \in Version
  PROVE  [j EXCEPT !.target = v] \in Job /\ ~[j EXCEPT !.target = v].backup
BY DEF Job

(* The sweeps a cleanup has to make. *)
LEMMA CleanupIsTyped ==
  ASSUME NEW j \in Job, ~j.backup, NEW c \in Command, NEW n \in 0..2
  PROVE  LET i == [j EXCEPT !.cmd = c, !.sweeps = n] IN i \in Job /\ ~i.backup
BY DEF Job

(* Nothing has been moved aside when a process starts. *)
LEMMA FirstJobHasNoBackup == ~FirstJob.backup
BY DEF FirstJob

(* Starting a command changes nothing but the process's own job. *)
LEMMA PlanIsGood ==
  ASSUME NEW p \in Proc, IInv, Plan(p) \/ PinRead(p)
  PROVE  GoodStep(p)
<1>1. Present \in SUBSET Version /\ (Present # {} => Max(Present) \in Version)
  BY MaxIsOneOf DEF Present
<1>2. {"install", "mark", "reinstall", "upgrade", "cleanup", "uninstall", "force", "link_keg",
       "unlink_keg"} \subseteq Command
  BY DEF Command, Installs
<1>3. FirstJob \in Job /\ ~FirstJob.backup
  BY FirstJobIsTyped, FirstJobHasNoBackup
<1>4. ASSUME NEW c \in {"install", "mark", "reinstall", "upgrade"}
      PROVE  Item(c) \in Job /\ ~Item(c).backup /\ Item(c).cmd = c
  <2>1. c \in Command
    BY <1>2
  <2>2. ASSUME NEW b \in BOOLEAN
        PROVE  LET i == [FirstJob EXCEPT !.cmd = c, !.existing = Present, !.wasLinked = b]
               IN  i \in Job /\ ~i.backup /\ i.cmd = c
    BY <1>1, <1>3, <2>1 DEF Job
  <2>3. CASE Resolve(linked) = None
    <3>1. Item(c) = [FirstJob EXCEPT !.cmd = c, !.existing = Present, !.wasLinked = FALSE]
      BY <2>3 DEF Item
    <3> QED BY <2>2, <3>1
  <2>4. CASE Resolve(linked) # None
    <3>1. Item(c) = [FirstJob EXCEPT !.cmd = c, !.existing = Present, !.wasLinked = TRUE]
      BY <2>4 DEF Item
    <3> QED BY <2>2, <3>1
  <2> QED BY <2>3, <2>4
<1>5. CASE PlanInstall(p) \/ PlanReinstall(p) \/ PlanUpgrade(p)
  BY <1>4, <1>5, StartIsGood DEF PlanInstall, PlanReinstall, PlanUpgrade
<1>6. CASE PlanCleanup(p)
  <2>1. LET j == [FirstJob EXCEPT !.cmd = "cleanup", !.sweeps = 1] IN j \in Job /\ ~j.backup
    <3>1. 1 \in 0..2
      OBVIOUS
    <3> QED BY <1>2, <1>3, <3>1, CleanupIsTyped
  <2> QED BY <1>6, <2>1, StartIsGood DEF PlanCleanup
<1>7. CASE PlanUninstall(p)
  <2>1. PICK v \in Present :
          Start(p, "uninstall", "lock", [FirstJob EXCEPT !.cmd = "uninstall", !.todo = {v}])
    BY <1>7 DEF PlanUninstall
  <2>2. {v} \in SUBSET Version
    BY <1>1
  <2>3. LET j == [FirstJob EXCEPT !.cmd = "uninstall", !.todo = {v}]
        IN  j \in Job /\ ~j.backup /\ j.cmd = "uninstall"
    BY ZenonT(120), <1>2, <1>3, <2>2, RemovalIsTyped
  <2> QED BY <2>1, <2>3, StartIsGood
<1>8. CASE PlanForceUninstall(p)
  <2>1. LET j == [FirstJob EXCEPT !.cmd = "force", !.todo = Present]
        IN  j \in Job /\ ~j.backup /\ j.cmd = "force"
    BY ZenonT(120), <1>1, <1>2, <1>3, RemovalIsTyped
  <2> QED BY <1>8, <2>1, StartIsGood DEF PlanForceUninstall
<1>9. CASE PlanLink(p)
  <2>1. LET j == [FirstJob EXCEPT !.cmd = "link_keg", !.target = Max(Present)]
        IN  j \in Job /\ ~j.backup /\ j.cmd = "link_keg"
    BY ZenonT(120), <1>1, <1>2, <1>3, <1>9, TargetIsTyped DEF PlanLink
  <2> QED BY <1>9, <2>1, StartIsGood DEF PlanLink
<1>10. CASE PlanUnlink(p)
  <2>1. DefaultKeg \in Version
    BY <1>10, DefaultKegIsAVersion DEF PlanUnlink, IInv
  <2>2. LET j == [FirstJob EXCEPT !.cmd = "unlink_keg", !.target = DefaultKeg]
        IN  j \in Job /\ ~j.backup /\ j.cmd = "unlink_keg"
    BY ZenonT(120), <1>2, <1>3, <2>1, TargetIsTyped
  <2> QED BY <1>10, <2>2, StartIsGood DEF PlanUnlink
<1>11. CASE PinRead(p)
  <2>1. LET j == [FirstJob EXCEPT !.target = Max(Present)] IN j \in Job /\ ~j.backup
    BY <1>1, <1>3, <1>11, PinIsTyped DEF PinRead
  <2> QED BY <1>11, <2>1, StartIsGood DEF PinRead
<1> QED
  BY <1>5, <1>6, <1>7, <1>8, <1>9, <1>10, <1>11 DEF Plan

(* `unpin` takes no lock and touches neither the rack nor its records. *)
LEMMA UnpinIsGood ==
  ASSUME NEW p \in Proc, IInv, Unpin(p)
  PROVE  GoodStep(p)
BY DEF IInv, TypeOK, Unpin, GoodStep, StepOfOne, Inside, OwnKeg, OwnRecords, rack, records

(* A process that is killed gives up the lock and relies on nothing any more. *)
LEMMA DieIsGood ==
  ASSUME NEW p \in Proc, IInv, Die(p)
  PROVE  GoodStep(p)
<1> USE DEF IInv, TypeOK, Die, Go, Remember, Lock!Release, rack, records
<1>1. TypeOK'
  BY FirstJobIsTyped, DeathsAreCounted DEF FreePC
<1>2. StepOfOne(p)
  BY DEF StepOfOne, Inside, FreePC, Exclusive
<1>3. OwnKeg(p)' /\ OwnRecords(p)'
  BY DEF OwnKeg, OwnRecords, FinishingPC, UndoingPC
<1> QED BY <1>1, <1>2, <1>3 DEF GoodStep

(* Every step is a good step of some process. *)
LEMMA NextIsGood ==
  ASSUME IInv, Next
  PROVE  \E p \in Proc : GoodStep(p)
BY WorkIsGood, PlanIsGood, UnpinIsGood, DieIsGood DEF Next

(* Because the rack changes only inside the lock, one process's step leaves
   alone what every other process relies on. *)
LEMMA GoodStepKeepsIInv ==
  ASSUME IInv, NEW p \in Proc, GoodStep(p)
  PROVE  IInv'
<1>1. Exclusive'
  BY NoneIsNothing DEF IInv, GoodStep, StepOfOne, Exclusive, Inside
<1>2. ASSUME NEW q \in Proc PROVE OwnKeg(q)' /\ OwnRecords(q)'
  <2>1. CASE q = p
    BY <2>1 DEF GoodStep
  <2>2. CASE q # p /\ Inside(q)
    <3>1. ~Inside(p)
      BY <2>2 DEF IInv, Exclusive
    <3> QED BY <2>2, <3>1 DEF IInv, GoodStep, StepOfOne, OwnKeg, OwnRecords, rack, records
  <2>3. CASE q # p /\ ~Inside(q)
    BY <2>3 DEF IInv, GoodStep, StepOfOne, Inside, FreePC, OwnKeg, OwnRecords, FinishingPC, UndoingPC
  <2> QED BY <2>1, <2>2, <2>3
<1> QED BY <1>1, <1>2 DEF IInv, GoodStep

(* The invariant is inductive. *)
LEMMA StepIInv ==
  ASSUME IInv, [Next]_vars
  PROVE  IInv'
<1>1. CASE Next
  BY <1>1, NextIsGood, GoodStepKeepsIInv
<1>2. CASE UNCHANGED vars
  BY <1>2 DEF vars, rack, records, IInv, TypeOK, Exclusive, Inside, OwnKeg, OwnRecords, Present
<1> QED BY <1>1, <1>2

(* The invariant holds of a rack that nobody has interrupted. *)
LEMMA InitIInv == Init => IInv
<1> SUFFICES ASSUME Init PROVE IInv
  OBVIOUS
<1>1. TypeOK
  <2>1. CASE Whole
    BY <2>1, FirstJobIsTyped, NoneIsNothing, DeathsAreCounted
       DEF Init, Whole, TypeOK, KegState, FreePC, Present
  <2>2. CASE Interrupted
    BY <2>2, FirstJobIsTyped, NoneIsNothing, DeathsAreCounted
       DEF Init, Interrupted, TypeOK, KegState, FreePC
  <2> QED
    BY <2>1, <2>2 DEF Init
<1>2. Exclusive
  BY NoneIsNothing DEF Init, Exclusive, Inside, FreePC
<1>3. \A p \in Proc : OwnKeg(p) /\ OwnRecords(p)
  BY DEF Init, OwnKeg, OwnRecords, FinishingPC, UndoingPC
<1> QED BY <1>1, <1>2, <1>3 DEF IInv

(* The invariant holds in every reachable state. *)
LEMMA Invariance == Spec => []IInv
<1> QED BY InitIInv, StepIInv, PTL DEF Spec

(* Every variable keeps its type, for any processes, versions and commands. *)
THEOREM TypeCorrect == Spec => []TypeOK
<1>1. IInv => TypeOK BY DEF IInv
<1> QED BY <1>1, Invariance, PTL

(* A keg in flight is nobody else's, and what it displaced can be put back. *)
THEOREM PourIsUndisturbed == Spec => []InFlightIntact
<1>1. IInv => InFlightIntact
  BY DEF IInv, OwnKeg, InFlightIntact, FinishingPC, UndoingPC
<1> QED BY <1>1, Invariance, PTL

(* The records `finish_item` wrote are still there when it returns. *)
THEOREM FinishedStands == Spec => []FinishedIsInstalled
<1>1. IInv => FinishedIsInstalled
  BY DEF IInv, OwnKeg, OwnRecords, FinishedIsInstalled
<1> QED BY <1>1, Invariance, PTL

(* The rack changes only in the hands of the process that has its lock. *)
THEOREM ChangesAreLocked == Spec => RackChangesUnderLock
<1>1. ASSUME IInv, [Next]_vars
      PROVE  [<<rack, records>>' # <<rack, records>>
                => \E p \in Proc : holder = p /\ \A q \in Proc \ {p} : pc'[q] = pc[q] /\ job'[q] = job[q]]_vars
  <2>1. CASE UNCHANGED vars
    BY <2>1
  <2>2. CASE Next
    <3>1. PICK p \in Proc : GoodStep(p)
      BY <1>1, <2>2, NextIsGood
    <3>2. <<rack, records>>' # <<rack, records>> => holder = p
      BY SMTT(60), <1>1, <3>1 DEF GoodStep, StepOfOne, IInv, Exclusive
    <3> QED BY <3>1, <3>2 DEF GoodStep, StepOfOne
  <2> QED BY <1>1, <2>1, <2>2
<1> QED BY <1>1, Invariance, PTL DEF Spec, RackChangesUnderLock

-------------------------------------------------------------------------------
(* As long as nobody is killed, a rack that nobody holds is clean, and a keg   *)
(* that was moved aside is an installed keg again when its run lets go: what   *)
(* the holder of the lock knows of the whole rack at each of its places.       *)
(* Bottles that ship a receipt are left out: their kegs are never discarded.   *)

(* The places of a process that has moved the keg aside and has it not back. *)
AsidePC == {"promote", "drop_backup"} \union FinishingPC \union UndoingPC

MovedAside(p) == pc[p] \in {"promote", "restore"} /\ job[p].backup

(* The keg that is gone while records may still lead to it. *)
Gone(p) ==
  IF pc[p] = "remove_records" THEN {job[p].target}
  ELSE IF pc[p] = "discard_records" \/ MovedAside(p) THEN {Current}
  ELSE {}

(* A rack with finished kegs, no leftovers and no record that leads nowhere. *)
Clean ==
  /\ \A v \in Version : kegs[v] \in {"none", "installed"} /\ backups[v] = "none"
  /\ staging = {}
  /\ opt \in Present \union {None}
  /\ linked \in Present \union {None}
  /\ links \subseteq Present

(* What the holder of the lock finds in the rack: at most its own staging
   directory, its own unfinished keg, the keg it has moved aside, and records
   that lead to what it has just removed. *)
TidyKegs(p) ==
  /\ \A q \in staging : q = p /\ pc[p] \in {"unpack", "move_aside", "promote"}
  /\ \A v \in Version : v # Current => kegs[v] \in {"none", "installed"} /\ backups[v] = "none"
  /\ pc[p] \in FinishingPC \union {"discard", "discard_rm"} => kegs[Current] = "unfinished"
  /\ pc[p] \in {"promote", "discard_records", "restore"} => kegs[Current] = "none"
  /\ pc[p] \in {"restore_opt", "restore_link"} => kegs[Current] = "installed"
  /\ pc[p] \notin FinishingPC \union {"discard", "discard_rm"}
       => kegs[Current] \in {"none", "installed"}
  /\ backups[Current] = IF pc[p] \in AsidePC /\ job[p].backup THEN "installed" ELSE "none"
  /\ pc[p] = "release" /\ job[p].backup /\ job[p].sweeps = 2 => kegs[Current] = "installed"

TidyRecords(p) ==
  /\ opt \in Present \union {None} \union Gone(p)
  /\ linked \in Present \union {None} \union Gone(p)
  /\ \A v \in links : v \in Present \/ (v = Current /\ MovedAside(p))
  /\ pc[p] = "relocate" /\ ~job[p].backup => opt # Current /\ linked # Current /\ Current \notin links
  /\ pc[p] = "discard_rm" => Current \notin links
  /\ pc[p] = "remove_rm" => job[p].target \notin links

Tidy(p) == TidyKegs(p) /\ TidyRecords(p)

(* What a process remembers at each place: only an install moves a keg aside,
   and a sweep removes nothing that is not there. *)
Remembers(p) ==
  /\ pc[p] \in {"sweep", "sweep_lock", "junk"} => ~Uninstalls(p)
  /\ pc[p] \in {"mark", "link_keg", "unlink_keg", "remove_pin"} => ~job[p].backup
  /\ pc[p] \in {"remove", "remove_rm", "remove_records"} /\ Uninstalls(p) => ~job[p].backup
  /\ pc[p] = "remove_rm" /\ ~Uninstalls(p) => job[p].target \in Present

CleanInv ==
  /\ IInv
  /\ \A p \in Proc : Remembers(p)
  /\ deaths = 0 =>
       /\ holder = None => Clean
       /\ \A p \in Proc : Inside(p) => Tidy(p)

(* Listing what there is to sweep leaves the command alone. *)
LEMMA ListKeepsCommand ==
  ASSUME NEW j \in Job, NEW S, NEW T, NEW Q
  PROVE  [j EXCEPT !.todo = S, !.junkKegs = T, !.junkStaging = Q, !.seen = FALSE].cmd = j.cmd
BY SMTT(60) DEF Job

(* What a process remembers of its command stays true of it. *)
LEMMA RemembersStep ==
  ASSUME NEW p \in Proc, IInv, Remembers(p), Work(p)
  PROVE  Remembers(p)'
<1> USE CurrentIsAVersion, NoneIsNothing DEF IInv, TypeOK, Goto, Go, Remember, Fail, fixed, rack, records, Job,
        Remembers, Uninstalls, Installs, OwnKeg, FreePC, Present
<1>1. CASE Fetch(p)
  BY <1>1 DEF Fetch
<1>2. CASE Displace(p)
  BY <1>2 DEF Displace, Unlink, At, Resolve
<1>3. CASE Stage(p)
  BY <1>3 DEF Stage
<1>4. CASE Unpack(p)
  BY <1>4 DEF Unpack
<1>5. CASE DropStaleBackup(p)
  BY <1>5 DEF DropStaleBackup
<1>6. CASE MoveAside(p)
  BY <1>6 DEF MoveAside
<1>7. CASE Promote(p)
  BY <1>7 DEF Promote, PutBack
<1>8. CASE Relocate(p)
  BY <1>8 DEF Relocate
<1>9. CASE GiveUp(p)
  BY <1>9 DEF GiveUp
<1>10. CASE OptLink(p)
  BY <1>10 DEF OptLink
<1>11. CASE UnlinkOther(p)
  BY <1>11 DEF UnlinkOther, Unlink, At, Resolve
<1>12. CASE ShouldLink(p)
  BY <1>12 DEF ShouldLink
<1>13. CASE DropStaleRecord(p)
  BY <1>13 DEF DropStaleRecord
<1>14. CASE Link(p)
  BY <1>14 DEF Link, LinkKeg, Unlink, At, Resolve
<1>15. CASE WriteReceipt(p)
  BY <1>15 DEF WriteReceipt
<1>16. CASE DropBackup(p)
  BY <1>16 DEF DropBackup
<1>17. CASE Discard(p)
  BY <1>17 DEF Discard, Unlink, HasReceipt, At, Resolve
<1>18. CASE DiscardKeg(p)
  BY <1>18 DEF DiscardKeg
<1>19. CASE DiscardRecords(p)
  BY <1>19 DEF DiscardRecords, RemoveRecordsOf, At, Resolve
<1>20. CASE ClearPlace(p)
  BY <1>20 DEF ClearPlace
<1>21. CASE Restore(p)
  BY <1>21 DEF Restore, PutBack
<1>22. CASE RestoreOptLink(p)
  BY <1>22 DEF RestoreOptLink
<1>23. CASE RestoreLink(p)
  BY <1>23 DEF RestoreLink, LinkKeg, Unlink, At, Resolve
<1>24. CASE RemoveUnlink(p)
  BY <1>24 DEF RemoveUnlink, Unlink, At, Resolve
<1>25. CASE SkipGone(p)
  BY <1>25 DEF SkipGone
<1>26. CASE RemoveDir(p)
  BY <1>26 DEF RemoveDir
<1>27. CASE RemoveRecords(p)
  BY <1>27 DEF RemoveRecords, RemoveRecordsOf, At, Resolve
<1>28. CASE NoMoreKegs(p)
  BY <1>28 DEF NoMoreKegs
<1>29. CASE RemovePin(p)
  BY <1>29 DEF RemovePin
<1>30. CASE SweepJunk(p)
  BY <1>30 DEF SweepJunk
<1>31. CASE MarkOnRequest(p)
  BY <1>31 DEF MarkOnRequest
<1>32. CASE LinkCommand(p)
  BY <1>32 DEF LinkCommand, LinkKeg, LinkRefused, Unlink, At, Resolve
<1>33. CASE UnlinkCommand(p)
  BY <1>33 DEF UnlinkCommand, Unlink, At, Resolve
<1>34. CASE PinWrite(p)
  BY <1>34 DEF PinWrite
<1>35. CASE MigratePin(p)
  <2>1. Goto(p, "migrate", "idle") /\ Remember(p, FirstJob)
    BY <1>35 DEF MigratePin
  <2> QED BY <2>1
<1>36. CASE SweepList(p)
  <2>1. job'[p].cmd = job[p].cmd \/ pc'[p] \in {"idle", "migrate"}
    <3>1. CASE Finish(p)
      BY <1>36, <3>1 DEF SweepList, Finish
    <3>2. CASE ~Finish(p)
      <4> DEFINE j == [job[p] EXCEPT !.todo = EligibleForCleanup,
                                     !.junkKegs = {v \in Version : backups[v] # "none"},
                                     !.junkStaging = staging, !.seen = FALSE]
      <4>1. job' = [job EXCEPT ![p] = j]
        BY <1>36, <3>2 DEF SweepList
      <4>2. j.cmd = job[p].cmd
        <5>1. job[p] \in Job
          OBVIOUS
        <5> QED BY <5>1, ListKeepsCommand
      <4> HIDE DEF j
      <4> QED BY <4>1, <4>2
    <3> QED BY <3>1, <3>2
  <2>2. pc[p] = "sweep" /\ pc'[p] \in {"idle", "migrate", "sweep_lock"}
    BY <1>36 DEF SweepList, Finish
  <2> QED BY <2>1, <2>2
<1>37. CASE LockBusy(p)
  BY <1>37 DEF LockBusy, Finish
<1>38. CASE LockOk(p)
  <2>1. CASE Goto(p, "sweep_lock", "remove")
    BY <1>38, <2>1 DEF LockOk
  <2>2. CASE Goto(p, "lock", AfterLock(p))
    <3>1. AfterLock(p) \in {"remove", "fetch", "mark", "link_keg", "unlink_keg"}
      BY <2>2 DEF AfterLock, Command
    <3>2. AfterLock(p) \notin {"sweep", "sweep_lock", "junk", "remove_rm"} /\ ~job[p].backup
      BY <2>2, <3>1
    <3> QED BY <1>38, <2>2, <3>1, <3>2 DEF LockOk
  <2> QED BY <1>38, <2>1, <2>2 DEF LockOk
<1>39. CASE Release(p)
  BY <1>39 DEF Release, Finish, Lock!Release
<1> QED
  BY <1>1, <1>2, <1>3, <1>4, <1>5, <1>6, <1>7, <1>8, <1>9, <1>10, <1>11, <1>12, <1>13, <1>14,
     <1>15, <1>16, <1>17, <1>18, <1>19, <1>20, <1>21, <1>22, <1>23, <1>24, <1>25, <1>26,
     <1>27, <1>28, <1>29, <1>30, <1>31, <1>32, <1>33, <1>34, <1>35, <1>36, <1>37, <1>38, <1>39
  DEF Work, Pour, FinishKeg, Undo, Remove

(* Nobody dies of a step of a command. *)
LEMMA DeathsStep ==
  ASSUME NEW p \in Proc, Work(p)
  PROVE  deaths' = deaths
<1> USE DEF fixed
<1>1. CASE Fetch(p)
  BY <1>1 DEF Fetch
<1>2. CASE Displace(p)
  BY <1>2 DEF Displace, Unlink, At, Resolve
<1>3. CASE Stage(p)
  BY <1>3 DEF Stage
<1>4. CASE Unpack(p)
  BY <1>4 DEF Unpack
<1>5. CASE DropStaleBackup(p)
  BY <1>5 DEF DropStaleBackup
<1>6. CASE MoveAside(p)
  BY <1>6 DEF MoveAside
<1>7. CASE Promote(p)
  BY <1>7 DEF Promote, PutBack
<1>8. CASE Relocate(p)
  BY <1>8 DEF Relocate
<1>9. CASE GiveUp(p)
  BY <1>9 DEF GiveUp
<1>10. CASE OptLink(p)
  BY <1>10 DEF OptLink
<1>11. CASE UnlinkOther(p)
  BY <1>11 DEF UnlinkOther, Unlink, At, Resolve
<1>12. CASE ShouldLink(p)
  BY <1>12 DEF ShouldLink
<1>13. CASE DropStaleRecord(p)
  BY <1>13 DEF DropStaleRecord
<1>14. CASE Link(p)
  BY <1>14 DEF Link, LinkKeg, Unlink, At, Resolve
<1>15. CASE WriteReceipt(p)
  BY <1>15 DEF WriteReceipt
<1>16. CASE DropBackup(p)
  BY <1>16 DEF DropBackup
<1>17. CASE Discard(p)
  BY <1>17 DEF Discard, Unlink, HasReceipt, At, Resolve
<1>18. CASE DiscardKeg(p)
  BY <1>18 DEF DiscardKeg
<1>19. CASE DiscardRecords(p)
  BY <1>19 DEF DiscardRecords, RemoveRecordsOf, At, Resolve
<1>20. CASE ClearPlace(p)
  BY <1>20 DEF ClearPlace
<1>21. CASE Restore(p)
  BY <1>21 DEF Restore, PutBack
<1>22. CASE RestoreOptLink(p)
  BY <1>22 DEF RestoreOptLink
<1>23. CASE RestoreLink(p)
  BY <1>23 DEF RestoreLink, LinkKeg, Unlink, At, Resolve
<1>24. CASE RemoveUnlink(p)
  BY <1>24 DEF RemoveUnlink, Unlink, At, Resolve
<1>25. CASE SkipGone(p)
  BY <1>25 DEF SkipGone
<1>26. CASE RemoveDir(p)
  BY <1>26 DEF RemoveDir
<1>27. CASE RemoveRecords(p)
  BY <1>27 DEF RemoveRecords, RemoveRecordsOf, At, Resolve
<1>28. CASE NoMoreKegs(p)
  BY <1>28 DEF NoMoreKegs
<1>29. CASE RemovePin(p)
  BY <1>29 DEF RemovePin
<1>30. CASE SweepJunk(p)
  BY <1>30 DEF SweepJunk
<1>31. CASE MarkOnRequest(p)
  BY <1>31 DEF MarkOnRequest
<1>32. CASE LinkCommand(p)
  BY <1>32 DEF LinkCommand, LinkKeg, LinkRefused, Unlink, At, Resolve
<1>33. CASE UnlinkCommand(p)
  BY <1>33 DEF UnlinkCommand, Unlink, At, Resolve
<1>34. CASE PinWrite(p)
  BY <1>34 DEF PinWrite
<1>35. CASE MigratePin(p)
  BY <1>35 DEF MigratePin
<1>36. CASE SweepList(p)
  BY <1>36 DEF SweepList, Finish
<1>37. CASE LockBusy(p)
  BY SMTT(60), <1>37 DEF LockBusy, Finish
<1>38. CASE LockOk(p)
  BY SMTT(60), <1>38 DEF LockOk, AfterLock, Installs, Lock!Acquire
<1>39. CASE Release(p)
  BY SMTT(60), <1>39 DEF Release, Finish, Lock!Release
<1> QED
  BY <1>1, <1>2, <1>3, <1>4, <1>5, <1>6, <1>7, <1>8, <1>9, <1>10, <1>11, <1>12, <1>13, <1>14,
     <1>15, <1>16, <1>17, <1>18, <1>19, <1>20, <1>21, <1>22, <1>23, <1>24, <1>25, <1>26,
     <1>27, <1>28, <1>29, <1>30, <1>31, <1>32, <1>33, <1>34, <1>35, <1>36, <1>37, <1>38, <1>39
  DEF Work, Pour, FinishKeg, Undo, Remove

(* The holder of the lock knows which kegs and leftovers its next step leaves. *)
LEMMA KegsStep ==
  ASSUME NEW p \in Proc, IInv, Remembers(p), Inside(p), Tidy(p), ~ShipsReceipt, Work(p), Inside(p)'
  PROVE  TidyKegs(p)'
<1> USE CurrentIsAVersion, NoneIsNothing DEF IInv, TypeOK, Goto, Go, Remember, Fail, fixed, rack, records, Job,
        Remembers, OwnKeg, Tidy, TidyKegs, Present, KegState, FinishingPC, UndoingPC, AsidePC
<1>1. CASE Fetch(p)
  BY <1>1 DEF Fetch
<1>2. CASE Displace(p)
  BY <1>2 DEF Displace, Unlink, At, Resolve
<1>3. CASE Stage(p)
  BY <1>3 DEF Stage
<1>4. CASE Unpack(p)
  BY <1>4 DEF Unpack
<1>5. CASE DropStaleBackup(p)
  BY <1>5 DEF DropStaleBackup
<1>6. CASE MoveAside(p)
  BY <1>6 DEF MoveAside
<1>7. CASE Promote(p)
  BY <1>7 DEF Promote, PutBack
<1>8. CASE Relocate(p)
  BY <1>8 DEF Relocate
<1>9. CASE GiveUp(p)
  BY <1>9 DEF GiveUp
<1>10. CASE OptLink(p)
  BY <1>10 DEF OptLink
<1>11. CASE UnlinkOther(p)
  BY <1>11 DEF UnlinkOther, Unlink, At, Resolve
<1>12. CASE ShouldLink(p)
  BY <1>12 DEF ShouldLink
<1>13. CASE DropStaleRecord(p)
  BY <1>13 DEF DropStaleRecord
<1>14. CASE Link(p)
  BY <1>14 DEF Link, LinkKeg, Unlink, At, Resolve
<1>15. CASE WriteReceipt(p)
  BY <1>15 DEF WriteReceipt
<1>16. CASE DropBackup(p)
  BY <1>16 DEF DropBackup
<1>17. CASE Discard(p)
  BY <1>17 DEF Discard, Unlink, HasReceipt, At, Resolve
<1>18. CASE DiscardKeg(p)
  BY <1>18 DEF DiscardKeg
<1>19. CASE DiscardRecords(p)
  BY <1>19 DEF DiscardRecords, RemoveRecordsOf, At, Resolve
<1>20. CASE ClearPlace(p)
  BY <1>20 DEF ClearPlace
<1>21. CASE Restore(p)
  BY <1>21 DEF Restore, PutBack
<1>22. CASE RestoreOptLink(p)
  BY <1>22 DEF RestoreOptLink
<1>23. CASE RestoreLink(p)
  BY <1>23 DEF RestoreLink, LinkKeg, Unlink, At, Resolve
<1>24. CASE RemoveUnlink(p)
  BY <1>24 DEF RemoveUnlink, Unlink, At, Resolve
<1>25. CASE SkipGone(p)
  BY <1>25 DEF SkipGone
<1>26. CASE RemoveDir(p)
  BY <1>26 DEF RemoveDir
<1>27. CASE RemoveRecords(p)
  BY <1>27 DEF RemoveRecords, RemoveRecordsOf, At, Resolve
<1>28. CASE NoMoreKegs(p)
  BY <1>28 DEF NoMoreKegs
<1>29. CASE RemovePin(p)
  BY <1>29 DEF RemovePin
<1>30. CASE SweepJunk(p)
  BY <1>30 DEF SweepJunk
<1>31. CASE MarkOnRequest(p)
  BY <1>31 DEF MarkOnRequest
<1>32. CASE LinkCommand(p)
  BY <1>32 DEF LinkCommand, LinkKeg, LinkRefused, Unlink, At, Resolve
<1>33. CASE UnlinkCommand(p)
  BY SMTT(60), <1>33 DEF UnlinkCommand, Unlink, At, Resolve
<1>34. CASE Release(p)
  BY SMTT(60), <1>34 DEF Release, Finish, Inside, FreePC, Go
<1>35. ~(PinWrite(p) \/ MigratePin(p) \/ SweepList(p) \/ LockBusy(p) \/ LockOk(p))
  BY SMTT(60) DEF Inside, FreePC, PinWrite, MigratePin, SweepList, LockBusy, LockOk, Goto
<1> QED
  BY <1>1, <1>2, <1>3, <1>4, <1>5, <1>6, <1>7, <1>8, <1>9, <1>10, <1>11, <1>12, <1>13, <1>14,
     <1>15, <1>16, <1>17, <1>18, <1>19, <1>20, <1>21, <1>22, <1>23, <1>24, <1>25, <1>26,
     <1>27, <1>28, <1>29, <1>30, <1>31, <1>32, <1>33, <1>34, <1>35
  DEF Work, Pour, FinishKeg, Undo, Remove

(* The holder of the lock knows which records its next step leaves. *)
LEMMA RecordsStep ==
  ASSUME NEW p \in Proc, IInv, Remembers(p), Inside(p), Tidy(p), ~ShipsReceipt, Work(p), Inside(p)'
  PROVE  TidyRecords(p)'
<1> USE CurrentIsAVersion, NoneIsNothing DEF IInv, TypeOK, Goto, Go, Remember, Fail, fixed, rack, records, Job,
        Remembers, OwnKeg, OwnRecords, Tidy, TidyKegs, TidyRecords, Gone, MovedAside, Present, KegState, FinishingPC, UndoingPC, AsidePC
<1>1. CASE Fetch(p)
  BY <1>1 DEF Fetch
<1>2. CASE Displace(p)
  BY <1>2 DEF Displace, Unlink, At, Resolve
<1>3. CASE Stage(p)
  BY <1>3 DEF Stage
<1>4. CASE Unpack(p)
  BY <1>4 DEF Unpack
<1>5. CASE DropStaleBackup(p)
  BY <1>5 DEF DropStaleBackup
<1>6. CASE MoveAside(p)
  BY <1>6 DEF MoveAside
<1>7. CASE Promote(p)
  BY <1>7 DEF Promote, PutBack
<1>8. CASE Relocate(p)
  BY <1>8 DEF Relocate
<1>9. CASE GiveUp(p)
  BY <1>9 DEF GiveUp
<1>10. CASE OptLink(p)
  BY <1>10 DEF OptLink
<1>11. CASE UnlinkOther(p)
  BY <1>11 DEF UnlinkOther, Unlink, At, Resolve
<1>12. CASE ShouldLink(p)
  BY <1>12 DEF ShouldLink
<1>13. CASE DropStaleRecord(p)
  BY <1>13 DEF DropStaleRecord
<1>14. CASE Link(p)
  BY <1>14 DEF Link, LinkKeg, Unlink, At, Resolve
<1>15. CASE WriteReceipt(p)
  BY <1>15 DEF WriteReceipt
<1>16. CASE DropBackup(p)
  BY <1>16 DEF DropBackup
<1>17. CASE Discard(p)
  BY <1>17 DEF Discard, Unlink, HasReceipt, At, Resolve
<1>18. CASE DiscardKeg(p)
  BY <1>18 DEF DiscardKeg
<1>19. CASE DiscardRecords(p)
  BY <1>19 DEF DiscardRecords, RemoveRecordsOf, At, Resolve
<1>20. CASE ClearPlace(p)
  BY <1>20 DEF ClearPlace
<1>21. CASE Restore(p)
  BY <1>21 DEF Restore, PutBack
<1>22. CASE RestoreOptLink(p)
  BY <1>22 DEF RestoreOptLink
<1>23. CASE RestoreLink(p)
  BY <1>23 DEF RestoreLink, LinkKeg, Unlink, At, Resolve
<1>24. CASE RemoveUnlink(p)
  BY <1>24 DEF RemoveUnlink, Unlink, At, Resolve
<1>25. CASE SkipGone(p)
  BY <1>25 DEF SkipGone
<1>26. CASE RemoveDir(p)
  BY <1>26 DEF RemoveDir
<1>27. CASE RemoveRecords(p)
  BY <1>27 DEF RemoveRecords, RemoveRecordsOf, At, Resolve
<1>28. CASE NoMoreKegs(p)
  BY <1>28 DEF NoMoreKegs
<1>29. CASE RemovePin(p)
  BY <1>29 DEF RemovePin
<1>30. CASE SweepJunk(p)
  BY <1>30 DEF SweepJunk
<1>31. CASE MarkOnRequest(p)
  BY <1>31 DEF MarkOnRequest
<1>32. CASE LinkCommand(p)
  BY <1>32 DEF LinkCommand, LinkKeg, LinkRefused, Unlink, At, Resolve
<1>33. CASE UnlinkCommand(p)
  BY <1>33 DEF UnlinkCommand, Unlink, At, Resolve
<1>34. CASE Release(p)
  BY SMTT(60), <1>34 DEF Release, Finish, Inside, FreePC, Go
<1>35. ~(PinWrite(p) \/ MigratePin(p) \/ SweepList(p) \/ LockBusy(p) \/ LockOk(p))
  BY SMTT(60) DEF Inside, FreePC, PinWrite, MigratePin, SweepList, LockBusy, LockOk, Goto
<1> QED
  BY <1>1, <1>2, <1>3, <1>4, <1>5, <1>6, <1>7, <1>8, <1>9, <1>10, <1>11, <1>12, <1>13, <1>14,
     <1>15, <1>16, <1>17, <1>18, <1>19, <1>20, <1>21, <1>22, <1>23, <1>24, <1>25, <1>26,
     <1>27, <1>28, <1>29, <1>30, <1>31, <1>32, <1>33, <1>34, <1>35
  DEF Work, Pour, FinishKeg, Undo, Remove

(* Taking and letting go of the lock leaves the rack as it is. *)
LEMMA LockStepIsTidy ==
  ASSUME NEW p \in Proc, IInv, Work(p), holder' # holder
  PROVE  /\ <<rack, records>>' = <<rack, records>>
         /\ Inside(p) => pc[p] = "release"
         /\ Inside(p)' => pc'[p] \in {"fetch", "remove", "mark", "link_keg", "unlink_keg"}
<1>1. LockOk(p) \/ Release(p)
  BY DEF Work, Pour, FinishKeg, Undo, Remove, fixed, PinWrite, MigratePin, LockBusy, MarkOnRequest,
     Fetch, Displace, Stage, Unpack, DropStaleBackup, MoveAside, Promote, Relocate, GiveUp, OptLink,
     UnlinkOther, ShouldLink, DropStaleRecord, Link, WriteReceipt, DropBackup, Discard, DiscardKeg,
     DiscardRecords, ClearPlace, Restore, RestoreOptLink, RestoreLink, SweepList, RemoveUnlink,
     SkipGone, RemoveDir, RemoveRecords, NoMoreKegs, RemovePin, SweepJunk, LinkCommand, UnlinkCommand
<1>2. CASE Release(p)
  BY <1>2 DEF Release, Finish, Go, Inside, FreePC, rack, records, IInv, TypeOK
<1>3. CASE LockOk(p)
  <2>1. pc[p] = "lock" => AfterLock(p) \in {"fetch", "remove", "mark", "link_keg", "unlink_keg"}
    BY DEF IInv, TypeOK, Job, AfterLock, Command, Installs, OwnKeg
  <2> QED
    BY <1>3, <2>1 DEF LockOk, Goto, Go, Inside, FreePC, rack, records, IInv, TypeOK
<1> QED BY SMTT(60), <1>1, <1>2, <1>3

(* What a process knows of the rack stays true while nobody changes the rack. *)
LEMMA TidyIsStable ==
  ASSUME NEW p, Tidy(p), pc'[p] = pc[p], job'[p] = job[p], <<rack, records>>' = <<rack, records>>
  PROVE  Tidy(p)'
BY DEF Tidy, TidyKegs, TidyRecords, Gone, MovedAside, AsidePC, Present, rack, records

(* A clean rack stays clean while nobody changes it. *)
LEMMA CleanIsStable ==
  ASSUME Clean, <<rack, records>>' = <<rack, records>>
  PROVE  Clean'
BY DEF Clean, Present, rack, records

(* What a process remembers stays true while nobody else changes the rack. *)
LEMMA RemembersIsStable ==
  ASSUME NEW p, Remembers(p), pc'[p] = pc[p], job'[p] = job[p],
         Inside(p) => <<rack, records>>' = <<rack, records>>
  PROVE  Remembers(p)'
BY DEF Remembers, Uninstalls, Present, Inside, FreePC, rack, records

(* A process that is about to let go of the lock leaves a clean rack. *)
LEMMA TidyReleaseIsClean ==
  ASSUME NEW p \in Proc, Tidy(p), pc[p] = "release"
  PROVE  Clean
BY CurrentIsAVersion
   DEF Tidy, TidyKegs, TidyRecords, Clean, Gone, MovedAside, AsidePC, FinishingPC, UndoingPC

(* A process that has just taken the lock finds what it finds in a clean rack. *)
LEMMA CleanIsTidy ==
  ASSUME NEW p \in Proc, Clean', pc'[p] \in {"fetch", "remove", "mark", "link_keg", "unlink_keg"}
  PROVE  Tidy(p)'
BY CurrentIsAVersion
   DEF Tidy, TidyKegs, TidyRecords, Clean, Gone, MovedAside, AsidePC, FinishingPC, UndoingPC

(* A step of one process keeps the rack clean, if what that process knows of
   the rack when it holds the lock stays true. *)
LEMMA StepOfOneKeepsClean ==
  ASSUME NEW p \in Proc, IInv, IInv', StepOfOne(p),
         holder = None => Clean,
         \A q \in Proc : Inside(q) => Tidy(q),
         Inside(p) /\ Inside(p)' => Tidy(p)',
         holder' # holder => /\ <<rack, records>>' = <<rack, records>>
                             /\ Inside(p) => pc[p] = "release"
                             /\ Inside(p)' => pc'[p] \in {"fetch", "remove", "mark", "link_keg", "unlink_keg"}
  PROVE  /\ holder' = None => Clean'
         /\ \A q \in Proc : Inside(q)' => Tidy(q)'
<1> USE NoneIsNothing
<1>1. CASE Inside(p) /\ Inside(p)'
  <2>1. holder' = p
    BY <1>1 DEF IInv, Exclusive
  <2>2. \A q \in Proc \ {p} : ~Inside(q)'
    BY <2>1 DEF IInv, Exclusive
  <2> QED BY <1>1, <2>1, <2>2
<1>2. CASE Inside(p) /\ ~Inside(p)'
  <2>1. holder = p /\ holder' = None
    BY <1>2 DEF IInv, Exclusive, StepOfOne
  <2>2. Clean
    BY <1>2, <2>1, TidyReleaseIsClean
  <2>3. Clean'
    BY <2>1, <2>2, CleanIsStable
  <2>4. \A q \in Proc : ~Inside(q)'
    BY <2>1 DEF IInv, Exclusive
  <2> QED BY <2>3, <2>4
<1>3. CASE ~Inside(p) /\ Inside(p)'
  <2>1. holder = None /\ holder' = p
    BY <1>3 DEF IInv, Exclusive, StepOfOne
  <2>2. Clean'
    BY <2>1, CleanIsStable
  <2>3. Tidy(p)'
    BY <1>3, <2>1, <2>2, CleanIsTidy
  <2>4. \A q \in Proc \ {p} : ~Inside(q)'
    BY <2>1 DEF IInv, Exclusive
  <2> QED BY <2>1, <2>3, <2>4
<1>4. CASE ~Inside(p) /\ ~Inside(p)'
  <2>1. <<rack, records>>' = <<rack, records>> /\ holder' = holder
    BY <1>4 DEF IInv, Exclusive, StepOfOne
  <2>2. holder' = None => Clean'
    BY <2>1, CleanIsStable
  <2>3. ASSUME NEW q \in Proc, Inside(q)' PROVE Tidy(q)'
    <3>1. q # p /\ pc'[q] = pc[q] /\ job'[q] = job[q]
      BY <1>4, <2>3 DEF StepOfOne
    <3>2. Inside(q)
      BY <2>3, <3>1 DEF Inside
    <3> QED BY <2>1, <3>1, <3>2, TidyIsStable
  <2> QED BY <2>2, <2>3
<1> QED BY <1>1, <1>2, <1>3, <1>4

(* One process's step leaves everybody's memory true, if it leaves its own. *)
LEMMA RemembersByOne ==
  ASSUME NEW p \in Proc, IInv, StepOfOne(p), \A q \in Proc : Remembers(q), Remembers(p)'
  PROVE  \A q \in Proc : Remembers(q)'
<1>1. ASSUME NEW q \in Proc, q # p PROVE Remembers(q)'
  <2>1. Inside(q) => ~Inside(p)
    BY <1>1 DEF IInv, Exclusive
  <2>2. pc'[q] = pc[q] /\ job'[q] = job[q] /\ (Inside(q) => <<rack, records>>' = <<rack, records>>)
    BY <1>1, <2>1 DEF StepOfOne
  <2> QED BY <2>2, RemembersIsStable
<1> QED BY <1>1

(* A step of a running command keeps the rack clean. *)
LEMMA WorkKeepsClean ==
  ASSUME ~ShipsReceipt, CleanInv, NEW p \in Proc, Work(p)
  PROVE  CleanInv'
<1>1. IInv /\ GoodStep(p) /\ StepOfOne(p)
  BY WorkIsGood DEF CleanInv, GoodStep
<1>2. IInv'
  BY <1>1, GoodStepKeepsIInv
<1>3. \A q \in Proc : Remembers(q)'
  BY <1>1, RemembersStep, RemembersByOne DEF CleanInv
<1>4. ASSUME deaths' = 0
      PROVE  (holder' = None => Clean') /\ \A q \in Proc : Inside(q)' => Tidy(q)'
  <2>1. deaths = 0
    BY <1>4, DeathsStep
  <2>2. Inside(p) /\ Inside(p)' => Tidy(p)'
    BY <1>1, <2>1, KegsStep, RecordsStep DEF CleanInv, Tidy
  <2>3. holder' # holder => /\ <<rack, records>>' = <<rack, records>>
                            /\ Inside(p) => pc[p] = "release"
                            /\ Inside(p)' => pc'[p] \in {"fetch", "remove", "mark", "link_keg", "unlink_keg"}
    BY <1>1, LockStepIsTidy
  <2> QED BY <1>1, <1>2, <2>1, <2>2, <2>3, StepOfOneKeepsClean DEF CleanInv
<1> QED BY <1>2, <1>3, <1>4 DEF CleanInv

(* What the start of a command leaves alone. *)
Started(p) ==
  Remembers(p)' /\ deaths' = deaths /\ holder' = holder /\ ~Inside(p)

(* A command that starts has nothing to remember of the rack. *)
LEMMA StartIsHarmless ==
  ASSUME NEW p \in Proc, IInv, NEW c, NEW l \in {"lock", "sweep", "pin"}, NEW j,
         Start(p, c, l, j), l = "sweep" => j.cmd = "cleanup"
  PROVE  Started(p)
<1>1. Remembers(p)'
  BY DEF Start, Goto, Go, Remember, Remembers, Uninstalls, IInv, TypeOK
<1>2. deaths' = deaths /\ holder' = holder /\ ~Inside(p)
  BY DEF Start, Goto, fixed, Inside, FreePC
<1> QED BY <1>1, <1>2 DEF Started

(* So do a command that starts, a pin that is taken away, and, as a rack is not
   expected to be clean any more, a kill. *)
LEMMA OtherStepsKeepClean ==
  ASSUME CleanInv, NEW p \in Proc, Plan(p) \/ PinRead(p) \/ Unpin(p) \/ Die(p)
  PROVE  CleanInv'
<1>1. IInv /\ GoodStep(p) /\ StepOfOne(p)
  BY PlanIsGood, UnpinIsGood, DieIsGood DEF CleanInv, GoodStep
<1>2. IInv'
  BY <1>1, GoodStepKeepsIInv
<1>3. CASE Die(p)
  <2>1. Remembers(p)'
    BY <1>1, <1>3 DEF Die, Go, Remembers, IInv, TypeOK
  <2>2. deaths' # 0
    BY <1>1, <1>3, DeathsAreCounted DEF Die, IInv, TypeOK
  <2> QED BY <1>1, <1>2, <2>1, <2>2, RemembersByOne DEF CleanInv
<1>4. CASE Unpin(p)
  <2>1. Remembers(p)'
    BY <1>4, RemembersIsStable DEF Unpin, CleanInv, rack, records
  <2>2. deaths' = deaths /\ holder' = holder /\ ~Inside(p)
    BY <1>4 DEF Unpin, Inside, FreePC
  <2> QED BY <1>1, <1>2, <2>1, <2>2, RemembersByOne, StepOfOneKeepsClean DEF CleanInv
<1>5. CASE Plan(p) \/ PinRead(p)
  <2>1. CASE PlanCleanup(p)
    <3>1. [FirstJob EXCEPT !.cmd = "cleanup", !.sweeps = 1].cmd = "cleanup"
      BY DEF FirstJob
    <3>2. Started(p)
      BY <1>1, <2>1, <3>1, StartIsHarmless DEF PlanCleanup
    <3> QED BY <1>1, <1>2, <3>2, RemembersByOne, StepOfOneKeepsClean DEF CleanInv, Started
  <2>2. CASE ~PlanCleanup(p)
    <3>1. Started(p)
      BY <1>1, <1>5, <2>2, StartIsHarmless
         DEF Plan, PlanInstall, PlanReinstall, PlanUpgrade, PlanUninstall, PlanForceUninstall,
             PlanLink, PlanUnlink, PinRead
    <3> QED BY <1>1, <1>2, <3>1, RemembersByOne, StepOfOneKeepsClean DEF CleanInv, Started
  <2> QED BY <2>1, <2>2
<1> QED BY <1>3, <1>4, <1>5

(* The invariant is inductive. *)
LEMMA StepCleanInv ==
  ASSUME ~ShipsReceipt, CleanInv, [Next]_vars
  PROVE  CleanInv'
<1>1. CASE Next
  BY <1>1, WorkKeepsClean, OtherStepsKeepClean DEF Next
<1>2. CASE UNCHANGED vars
  <2>1. IInv'
    BY <1>2, StepIInv DEF CleanInv
  <2>2. \A p \in Proc : Remembers(p)' /\ (Tidy(p) => Tidy(p)') /\ (Inside(p)' => Inside(p))
    BY <1>2, RemembersIsStable, TidyIsStable DEF CleanInv, vars, Inside
  <2>3. (Clean => Clean') /\ deaths' = deaths /\ holder' = holder
    BY <1>2, CleanIsStable DEF vars
  <2> QED BY <2>1, <2>2, <2>3 DEF CleanInv
<1> QED BY <1>1, <1>2

(* A rack starts clean, unless a process was killed before. *)
LEMMA InitCleanInv == Init => CleanInv
<1> SUFFICES ASSUME Init PROVE CleanInv
  OBVIOUS
<1>1. IInv
  BY InitIInv
<1>2. \A p \in Proc : Remembers(p) /\ ~Inside(p)
  BY DEF Init, Remembers, Inside, FreePC
<1>3. deaths = 0 => Clean
  <2>1. CASE Interrupted
    BY <2>1 DEF Interrupted
  <2>2. CASE Whole
    <3>1. staging = {} /\ opt \in Present \union {None} /\ linked \in Present \union {None}
      BY <2>2 DEF Init, Whole
    <3>2. links \subseteq Present
      BY <2>2, <3>1 DEF Whole
    <3> QED BY <2>2, <3>1, <3>2 DEF Whole, Clean
  <2> QED BY <2>1, <2>2 DEF Init
<1> QED BY <1>1, <1>2, <1>3 DEF CleanInv

(* It holds in every reachable state, for bottles without a receipt. *)
LEMMA CleanInvHolds == ~ShipsReceipt => (Spec => []CleanInv)
<1> SUFFICES ASSUME ~ShipsReceipt PROVE Spec => []CleanInv
  OBVIOUS
<1> QED BY InitCleanInv, StepCleanInv, PTL DEF Spec

(* However commands fail and overlap, a rack that nobody holds has finished kegs
   only, no leftovers and no record that leads nowhere, until a process is killed
   (`discard_unfinished_keg`, `restore_backup`, `remove_records`), for bottles
   without a receipt of their own. *)
THEOREM IdleRackIsClean == ~ShipsReceipt => (Spec => []CleanWhenIdle)
<1>1. CleanInv => CleanWhenIdle
  BY DEF CleanInv, CleanWhenIdle, Clean
<1> QED BY <1>1, CleanInvHolds, PTL

(* A run that moved a keg aside lets go of the lock with an installed keg in its
   place, whether it finished or failed at any step (`Backup`). *)
THEOREM ReplacedKegReturns == ~ShipsReceipt => (Spec => []ReplacedKegSurvives)
<1>1. CleanInv => ReplacedKegSurvives
  BY DEF CleanInv, ReplacedKegSurvives, Inside, FreePC, Tidy, TidyKegs
<1> QED BY <1>1, CleanInvHolds, PTL

(* What commands decide before they have the lock does the rack no harm: all
   three of its safety properties together. *)
THEOREM StalePlansDoNoHarm == ~ShipsReceipt => (Spec => []CommandsKeepRack)
<1>1. CleanWhenIdle /\ InFlightIntact /\ FinishedIsInstalled => CommandsKeepRack
  BY DEF CommandsKeepRack
<1> QED BY <1>1, IdleRackIsClean, PourIsUndisturbed, FinishedStands, PTL
=============================================================================
