-------------------------------- MODULE MCCask --------------------------------
(* Cask with the command lines its runs use. *)
EXTENDS Cask

Plain == [force |-> FALSE, adopt |-> FALSE, binaries |-> TRUE, appdir |-> Unset]

OneOption == {Plain}
ThreeOptions == {Plain, [Plain EXCEPT !.force = TRUE, !.appdir = CHOOSE dir \in AppDirs : dir # DefaultDir],
                 [Plain EXCEPT !.adopt = TRUE, !.binaries = FALSE]}

Perms == Permutations(Procs)

===============================================================================
