---------------------------- MODULE MCModelStore ----------------------------
(***************************************************************************)
(* An instance of ModelStore for TLC: two uploads, two deletions that may  *)
(* be of one model, and two predictions, under all faults.                 *)
(***************************************************************************)
EXTENDS ModelStore, TLC

RequestSymmetry ==
    Permutations(Models) \cup Permutations(Deletions) \cup Permutations(Runs)

=============================================================================
