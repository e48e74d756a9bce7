------------------------------- MODULE MCRack -------------------------------
(* Rack for TLC: processes are interchangeable. *)
EXTENDS Rack, TLC

Symmetry == Permutations(Proc)
=============================================================================
