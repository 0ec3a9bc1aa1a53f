---------------------------- MODULE MCRefinement ----------------------------
(* The model-checked instance of Refinement: the work items are interchangeable. *)
EXTENDS Refinement, TLC
CONSTANTS k1, k2
SymmetricKeys == Permutations(Key)
=============================================================================
