---------------------------- MODULE MCInstallRun ----------------------------
(* Instances of InstallRun for TLC. *)
EXTENDS InstallRun, TLC

(* A chain whose names sort against it, and a formula with two dependencies,
   one of which needs the other. *)
Chain == 1 :> {2} @@ 2 :> {3} @@ 3 :> {}
Triangle == 1 :> {} @@ 2 :> {1, 3} @@ 3 :> {1}

TwoGraphs == {Chain, Triangle}
=============================================================================
