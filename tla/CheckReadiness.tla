--------------------------- MODULE CheckReadiness ---------------------------
(***************************************************************************)
(* scripts/lib/pull-request-check-readiness.mjs: when the required checks  *)
(* of a commit count as passed.  The release updater and the Harness       *)
(* review both ask it.  A value seen gives the latest run of each required *)
(* check: missing, pending, success, failure, or foreign, which is a       *)
(* success of a job of the same name in another workflow.                  *)
(***************************************************************************)
EXTENDS FiniteSets

CONSTANT Checks    \* the names of the required checks of a pull request

ASSUME ChecksAssumption == Checks # {}

Status == {"missing", "pending", "success", "failure", "foreign"}

Unchecked == [c \in Checks |-> "missing"]
Missing(seen) == {c \in Checks : seen[c] = "missing"}
Pending(seen) == {c \in Checks : seen[c] = "pending"}
Failed(seen)  == {c \in Checks : seen[c] = "failure"}

\* reviewCheckReadiness(): verified says whether verifyReviewCheckRunProducers()
\* has looked at the workflows of the runs; until then each counts as foreign.
WrongWorkflow(seen, verified) ==
  {c \in Checks : seen[c] = "foreign" \/ (~verified /\ seen[c] # "missing")}
ReadyUnlessMissing(seen, wrong) == Pending(seen) \union Failed(seen) \union wrong = {}
Ready(seen, wrong) == Missing(seen) \union Pending(seen) \union Failed(seen) \union wrong = {}

Passed(seen) == \A c \in Checks : seen[c] = "success"

\* What GitHub does: a check registers, ends, or is run again.
Following(status) ==
  CASE status = "missing" -> {"pending", "foreign"}
    [] status = "pending" -> {"success", "failure"}
    [] OTHER -> {"pending"}
=============================================================================
