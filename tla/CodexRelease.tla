---------------------------- MODULE CodexRelease ----------------------------
(***************************************************************************)
(* The weekly updater of the pinned Codex CLI: the commands of             *)
(* scripts/codex-cli-release-update.mjs in the order of the steps of       *)
(* .github/workflows/codex-cli-release-update.yml, with                    *)
(* start-issue-branch.mjs, pull-request-check-readiness.mjs and the Task   *)
(* and pull-request identity of classify-codex-cli-updater-review.mjs.     *)
(*                                                                         *)
(* The concurrency group lets one run work at a time, but nothing is kept  *)
(* between runs except GitHub itself: issues, branches, pull requests and  *)
(* check runs, which people change while a run works.                      *)
(***************************************************************************)
EXTENDS Naturals, Sequences, CheckReadiness

CONSTANTS
  MaxVersion,    \* releases
  MaxIncidents   \* things people do, and runs that die between two steps

ASSUME BoundsAssumption == {MaxVersion, MaxIncidents} \subseteq Nat

VARIABLES
  latest,    \* the newest published release
  pin,       \* the release main pins
  issues,    \* release Tasks, by number: version, open, task, indexed by search
  branch,    \* the head of the remote branch of each issue, 0 when there is none
  prs,       \* updater pull requests: issue, state, head, body intact
  heads,     \* commits pushed so far; the last one is the only head of interest
  checks,    \* the latest run of each required check on that commit
  green,     \* the last commit, and that of the run, if all checks passed at some moment
  run,       \* the run of the workflow
  incidents  \* what people did and the runs that died

remote == <<latest, pin, issues, branch, prs, heads>>
ci     == <<checks, green>>
vars   == <<remote, ci, run, incidents>>

Version == 1..MaxVersion
Steps   == {"idle", "find", "source", "branch", "push", "create", "redispatch", "wait",
            "reverify", "smoke", "smoking", "again", "review"}

\* A run: its step, the pin it checked out, its candidate, the issue, pull request and
\* head it works on, the last commit when it last looked at the pull request (history),
\* the commit its smoke took the runner for, that on which it passed; of a run that
\* ended, the failed checks it reported and the commit it had reviewed.
Idle == [at |-> "idle", base |-> 0, version |-> 0, issue |-> 0, pr |-> 0, head |-> 0,
         looked |-> 0, taken |-> 0, smoked |-> 0, failed |-> {}, reviewed |-> 0]
Stop == run' = Idle
Proceed(step) == run' = [run EXCEPT !.at = step]

Numbers == 1..Len(issues)
Pulls   == 1..Len(prs)
VersionOf(p)  == issues[prs[p].issue].version
OpenPulls     == {p \in Pulls : prs[p].state = "open"}
RejectedPulls == {p \in Pulls : prs[p].state = "closed"}

\* releaseTaskDetailsMatch() with the native type, and with the open state.
ReleaseTask(i)  == issues[i].task
OpenTask(i)     == issues[i].task /\ issues[i].open

\* verifyReusableUpdatePullRequest(): the pull request and its Task as they are now.
Verified(p, head, issue, version) ==
  /\ prs[p].state = "open" /\ prs[p].head = head
  /\ prs[p].intact /\ prs[p].issue = issue /\ VersionOf(p) = version
  /\ OpenTask(issue)

-----------------------------------------------------------------------------
\* waitForPullRequestChecks() confirms the workflows only when all have passed.
PreliminaryReady == Ready(checks, {})
FailedChecks == Failed(checks) \union WrongWorkflow(checks, PreliminaryReady)
ChecksReady  == PreliminaryReady /\ FailedChecks = {}

-----------------------------------------------------------------------------
\* The steps of a run.

\* The checkout and --check: a run without a newer release ends there.
Begin ==
  /\ run.at = "idle" /\ latest > pin
  /\ run' = [Idle EXCEPT !.at = "find", !.base = pin, !.version = latest]
  /\ UNCHANGED <<remote, ci, incidents>>

\* --pending-pr: every rejected pull request needs its closed release Task, one
\* open pull request at most, and a rejected release is not proposed again.  An
\* open one is taken up only when a person asked to retry it.
Settled(p) == ReleaseTask(prs[p].issue) /\ ~issues[prs[p].issue].open
Ambiguous  == (\E p \in RejectedPulls : ~Settled(p)) \/ Cardinality(OpenPulls) > 1
RejectedOpen(v) == \E p \in RejectedPulls : VersionOf(p) = v /\ issues[prs[p].issue].open
RejectedAny(v)  == RejectedPulls # {}
Rejected(v) == \E p \in RejectedPulls : VersionOf(p) = v
PendingPulls == OpenPulls
FindPending ==
  /\ run.at = "find"
  /\ \/ Ambiguous /\ Stop
     \/ ~Ambiguous /\ PendingPulls = {} /\ Rejected(run.version) /\ Stop
     \/ ~Ambiguous /\ PendingPulls = {} /\ ~Rejected(run.version) /\ Proceed("source")
     \/ /\ ~Ambiguous
        /\ \E p \in PendingPulls, retry \in BOOLEAN :
             IF retry /\ Verified(p, prs[p].head, prs[p].issue, run.version)
             THEN run' = [run EXCEPT !.at = "redispatch", !.issue = prs[p].issue,
                                     !.pr = p, !.head = prs[p].head]
             ELSE Stop
  /\ UNCHANGED <<remote, ci, incidents>>

\* --ensure-source-issue: the one open Task that search finds, or a new one.
Found == {i \in Numbers : issues[i].indexed /\ issues[i].open}
Source ==
  /\ run.at = "source"
  /\ \/ /\ Found = {}
        /\ issues' = Append(issues, [version |-> run.version, open |-> TRUE,
                                     task |-> TRUE, indexed |-> FALSE])
        /\ branch' = Append(branch, 0)
        /\ run' = [run EXCEPT !.at = "branch", !.issue = Len(issues) + 1]
     \/ /\ Found # {}
        /\ UNCHANGED <<issues, branch>>
        /\ \E i \in Found :
             IF Found = {i} /\ issues[i].version = run.version /\ issues[i].task
             THEN run' = [run EXCEPT !.at = "branch", !.issue = i]
             ELSE Stop
  /\ UNCHANGED <<latest, pin, prs, heads, ci, incidents>>

\* branch:start and --apply: the issue must still be open; both are local.
StartBranch ==
  /\ run.at = "branch"
  /\ IF issues[run.issue].open THEN Proceed("push") ELSE Stop
  /\ UNCHANGED <<remote, ci, incidents>>

\* A commit on the branch of issue i: nothing has been checked on it yet.  The
\* checks of a pull request that is closed are forgotten, for nobody reads them.
Forget == checks' = Unchecked
Commit(i) ==
  /\ heads' = heads + 1
  /\ branch' = [branch EXCEPT ![i] = heads + 1]
  /\ green' = green \intersect {run.head} /\ Forget

\* git push: rejected when an earlier run has left the branch behind.
Push ==
  /\ run.at = "push"
  /\ IF branch[run.issue] = 0
     THEN Commit(run.issue) /\ run' = [run EXCEPT !.at = "create", !.head = heads + 1]
     ELSE Stop /\ UNCHANGED <<heads, branch, ci>>
  /\ UNCHANGED <<latest, pin, issues, prs, incidents>>

\* gh pr create, refused for a branch that is gone.
CreatePR ==
  /\ run.at = "create"
  /\ IF branch[run.issue] # 0
     THEN /\ prs' = Append(prs, [issue |-> run.issue, state |-> "open",
                                 head |-> branch[run.issue], intact |-> TRUE])
          /\ run' = [run EXCEPT !.at = "wait", !.pr = Len(prs) + 1]
     ELSE Stop /\ UNCHANGED prs
  /\ UNCHANGED <<latest, pin, issues, branch, heads, ci, incidents>>

\* retry_open_pr: the checks are asked to start again.  Until one registers, in
\* CheckMoves, the result of its previous run is the latest.
Redispatch ==
  /\ run.at = "redispatch" /\ Proceed("wait")
  /\ UNCHANGED <<remote, ci, incidents>>

\* --wait-checks: one reading of the pull request and of its check runs.
WaitChecks ==
  /\ run.at = "wait"
  /\ IF prs[run.pr].state = "open" /\ prs[run.pr].head = run.head
     THEN \/ ChecksReady /\ Proceed("reverify")
          \/ FailedChecks # {} /\ run' = [Idle EXCEPT !.failed = FailedChecks]
     ELSE Stop
  /\ UNCHANGED <<remote, ci, incidents>>

Reverified(step) ==
  IF Verified(run.pr, run.head, run.issue, run.version)
  THEN run' = [run EXCEPT !.at = step, !.looked = heads] ELSE Stop

\* --reverify-release-pr, before the smoke and again before the review.
Reverify ==
  /\ \/ run.at = "reverify" /\ Reverified("smoke")
     \/ run.at = "again" /\ Reverified("review")
  /\ UNCHANGED <<remote, ci, incidents>>

\* --smoke-preflight: dispatched for the branch, so that it takes the runner for the
\* commit the branch has now; refused for a branch that is gone.
DispatchSmoke ==
  /\ run.at = "smoke"
  /\ IF branch[run.issue] # 0
     THEN run' = [run EXCEPT !.at = "smoking", !.taken = branch[run.issue]] ELSE Stop
  /\ UNCHANGED <<remote, ci, incidents>>
\* (A slip: the review follows whatever became of the smoke.)
FinishSmokeAnyway ==
  /\ run.at = "smoking"
  /\ \/ run' = [run EXCEPT !.at = "again", !.smoked = run.head]
     \/ Proceed("again")
  /\ UNCHANGED <<remote, ci, incidents>>
\* Only then is the commit compared with the expected head.
FinishSmoke ==
  /\ run.at = "smoking"
  /\ \/ run.taken = run.head /\ run' = [run EXCEPT !.at = "again", !.smoked = run.head]
     \/ Stop
  /\ UNCHANGED <<remote, ci, incidents>>

\* gh workflow run of the Harness review, for the branch.
DispatchReview ==
  /\ run.at = "review"
  /\ run' = [Idle EXCEPT !.reviewed = branch[run.issue]]
  /\ UNCHANGED <<remote, ci, incidents>>

\* The last of 120 readings of the checks, or of 240 of the smoke.
TimeOut ==
  /\ run.at \in {"wait", "smoking"} /\ Stop
  /\ UNCHANGED <<remote, ci, incidents>>

\* A command fails or the job is killed, after its last effect or before the next.
Die ==
  /\ run.at # "idle" /\ incidents < MaxIncidents
  /\ incidents' = incidents + 1 /\ Stop
  /\ UNCHANGED <<remote, ci>>
-----------------------------------------------------------------------------
\* GitHub and the people.

Release ==
  /\ latest < MaxVersion /\ latest' = latest + 1
  /\ UNCHANGED <<pin, issues, branch, prs, heads, ci, run, incidents>>

\* The search index catches up with a new issue.
Index ==
  /\ \E i \in Numbers : ~issues[i].indexed /\ issues' = [issues EXCEPT ![i].indexed = TRUE]
  /\ UNCHANGED <<latest, pin, branch, prs, heads, ci, run, incidents>>

\* A check of the open pull request registers, ends or is run again; a job of the
\* same name in another workflow may come first.
CheckMoves ==
  /\ OpenPulls # {}
  /\ \E c \in Checks : \E to \in Following(checks[c]) : checks' = [checks EXCEPT ![c] = to]
  /\ green' = IF Passed(checks') THEN green \union {heads} ELSE green
  /\ UNCHANGED <<remote, run, incidents>>

PushCommit(p) ==
  /\ prs[p].state = "open" /\ Commit(prs[p].issue)
  /\ prs' = [prs EXCEPT ![p].head = heads + 1]
  /\ UNCHANGED <<pin, issues>>
EditBody(p) ==
  /\ prs[p].state = "open"
  /\ prs' = [prs EXCEPT ![p].intact = ~@]
  /\ UNCHANGED <<pin, issues, branch, heads, ci>>
ClosePR(p) ==
  /\ prs[p].state = "open"
  /\ prs' = [prs EXCEPT ![p].state = "closed"] /\ Forget
  /\ UNCHANGED <<pin, issues, branch, heads, green>>
\* A merge moves the pin, and closes the Task the body names.
MergePR(p) ==
  /\ prs[p].state = "open"
  /\ prs' = [prs EXCEPT ![p].state = "merged"]
  /\ pin' = VersionOf(p)
  /\ issues' = [issues EXCEPT ![prs[p].issue].open = FALSE] /\ Forget
  /\ UNCHANGED <<branch, heads, green>>
ToggleIssue(i) ==
  /\ issues' = [issues EXCEPT ![i].open = ~@]
  /\ UNCHANGED <<pin, branch, prs, heads, ci>>
RetypeIssue(i) ==
  /\ issues' = [issues EXCEPT ![i].task = ~@]
  /\ UNCHANGED <<pin, branch, prs, heads, ci>>
\* GitHub closes the pull request of a branch that is deleted.
DeleteBranch(i) ==
  /\ branch[i] # 0 /\ branch' = [branch EXCEPT ![i] = 0]
  /\ prs' = [p \in Pulls |-> IF prs[p].issue = i /\ prs[p].state = "open"
                             THEN [prs[p] EXCEPT !.state = "closed"] ELSE prs[p]]
  /\ IF prs' = prs THEN UNCHANGED checks ELSE Forget
  /\ UNCHANGED <<pin, issues, heads, green>>

People ==
  /\ incidents < MaxIncidents /\ incidents' = incidents + 1
  /\ \/ \E p \in Pulls : PushCommit(p) \/ EditBody(p) \/ ClosePR(p) \/ MergePR(p)
     \/ \E i \in Numbers : ToggleIssue(i) \/ RetypeIssue(i) \/ DeleteBranch(i)
  /\ UNCHANGED <<latest, run>>

-----------------------------------------------------------------------------
Init ==
  /\ latest = 0 /\ pin = 0 /\ issues = <<>> /\ branch = <<>> /\ prs = <<>> /\ heads = 0
  /\ checks = Unchecked /\ green = {}
  /\ run = Idle /\ incidents = 0

Run ==
  \/ Begin \/ FindPending \/ Source \/ StartBranch \/ Push \/ CreatePR \/ Redispatch
  \/ WaitChecks \/ Reverify \/ DispatchSmoke \/ FinishSmoke \/ DispatchReview \/ TimeOut

Next == Run \/ Die \/ Release \/ Index \/ CheckMoves \/ People

Spec == Init /\ [][Next]_vars

\* The schedule starts a run every week and the job has a time limit.  People, the
\* checks and the search index owe nothing.
FairSpec == Spec /\ WF_vars(Run)

-----------------------------------------------------------------------------
\* The type invariant.
TypeOK ==
  /\ latest \in 0..MaxVersion /\ pin \in 0..MaxVersion /\ heads \in Nat
  /\ issues \in Seq([version : Version, open : BOOLEAN, task : BOOLEAN, indexed : BOOLEAN])
  /\ branch \in Seq(0..heads) /\ Len(branch) = Len(issues)
  /\ prs \in Seq([issue : Numbers, state : {"open", "closed", "merged"},
                  head : 1..heads, intact : BOOLEAN])
  /\ checks \in [Checks -> Status] /\ green \subseteq 1..heads
  /\ run \in [at : Steps, base : 0..MaxVersion, version : 0..MaxVersion,
              issue : 0..Len(issues), pr : 0..Len(prs), head : 0..heads, looked : 0..heads,
              taken : 0..heads, smoked : 0..heads, failed : SUBSET Checks, reviewed : 0..heads]
  /\ incidents \in 0..MaxIncidents

\* A release is proposed once: whatever people did with its pull request, and
\* however many runs died half-way, no second one is opened for it.  The exception
\* is a run that checked main out before the merge: it trusts its stale pin, and the
\* list of pull requests it reads afterwards counts open and rejected ones only.
ProposedOnce ==
  [][\A p \in Pulls : Len(prs') > Len(prs) /\ VersionOf(p) = run.version =>
       prs[p].state = "merged" /\ run.base < pin]_vars

\* "A deterministic failure prevents both runner dispatches"
\* (docs/delivery/codex-workflow.md:346): a run takes the runner only after all required
\* checks of its head had passed, by their own workflows, at one moment, and for another
\* commit only when that one was pushed after the last look at the pull request.
CheckedBeforeSmoke ==
  run.at = "smoking" =>
    run.head \in green /\ (run.taken = run.head \/ run.taken > run.looked)

\* "Harness starts only after the smoke passes" (docs/delivery/codex-workflow.md:345):
\* a review is dispatched for a head on which the smoke ran and passed, and it runs on
\* another commit only when that one was pushed after the last look at the pull request.
ReviewFollowsSmoke ==
  [][run'.reviewed # 0 /\ run.at # "idle" =>
       /\ run.smoked = run.head /\ run.taken = run.head /\ run.head \in green
       /\ run'.reviewed = run.head \/ run'.reviewed > run.looked]_vars

\* What only a person can clear: an open update of another release, a rejected one
\* whose Task is open or no Task any more, a Task of another release or of the
\* wrong type, two Tasks, or a branch that a dead run pushed and left.
Blocked ==
  \/ \E p \in OpenPulls : VersionOf(p) # latest
  \/ \E p \in RejectedPulls : ~Settled(p)
  \/ \E i \in Numbers : issues[i].open /\ (issues[i].version # latest \/ ~issues[i].task)
  \/ \E i, j \in Numbers : i # j /\ issues[i].open /\ issues[j].open
  \/ \E i \in Numbers : issues[i].open /\ branch[i] # 0
\* A newer release gets its pull request, unless there is something to clear: a
\* dead run, a lagging search or a rejected older release does not stop it.
ReleaseProposed ==
  []<>(latest <= pin \/ Blocked \/ \E p \in Pulls : VersionOf(p) = latest)

=============================================================================
