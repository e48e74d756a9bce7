------------------------------ MODULE RackLock ------------------------------
(***************************************************************************)
(* What `keg::lock::lock_formula` and `lock_cask` promise their callers:   *)
(* one lock per rack (or per cask token) that at most one process holds.   *)
(* Nobody waits for it: `Acquire` is only possible while it is free, and a *)
(* caller that finds it taken fails with `OperationInProgressError`.       *)
(* A holder lets go by dropping its `Lock` or by dying.                    *)
(***************************************************************************)
CONSTANTS
  Proc,   (* the fastbrew processes                       *)
  None    (* no process                                   *)

VARIABLE holder   (* the process whose `Lock` is alive, or None *)

Init == holder = None

Acquire(p) ==
  /\ holder = None
  /\ holder' = p

Release(p) ==
  /\ holder = p
  /\ holder' = None

Next == \E p \in Proc : Acquire(p) \/ Release(p)

Spec == Init /\ [][Next]_holder
=============================================================================
