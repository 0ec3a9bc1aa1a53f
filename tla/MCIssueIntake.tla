--------------------------- MODULE MCIssueIntake ---------------------------
(* The model-checked instance of IssueIntake: the runs are interchangeable. *)
EXTENDS IssueIntake, TLC
SymmetricRuns == Permutations(Slots)
=============================================================================
