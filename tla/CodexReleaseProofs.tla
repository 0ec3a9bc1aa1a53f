------------------------- MODULE CodexReleaseProofs -------------------------
(***************************************************************************)
(* Proofs about CodexRelease for any required checks, releases and         *)
(* incidents.  The properties rest on there being one open pull request at *)
(* a time, which has the last commit (OneOpen), on the order of the pin,   *)
(* the releases and the proposals (Ordered), on what each step of a run    *)
(* has established and nobody can take back (Running), on the commit that  *)
(* the smoke of a run took (Dispatched), and on what the history of green  *)
(* commits keeps (Checked).                                                *)
(***************************************************************************)
EXTENDS CodexRelease, TLAPS, SequenceTheorems

\* The steps of a run from where it found no open pull request to where it opens its own,
\* those with a pull request, and those with one whose checks have passed.
Proposing == {"source", "branch", "push", "create"}
Proposed  == {"redispatch", "wait", "reverify", "smoke", "smoking", "again", "review"}
Assured   == Proposed \ {"redispatch", "wait"}

\* An open pull request is the only one, and its head, the tip of its branch, is the last
\* commit: whatever the checks say, they say of it.
OneOpen ==
  \A p \in OpenPulls :
    /\ \A q \in OpenPulls : q = p
    /\ prs[p].head = heads /\ branch[prs[p].issue] = heads

\* The pin is between the merged releases and the open one, no proposal is ahead of the
\* newest release, and a run works on a release newer than its own pin, with nothing ahead.
Ordered ==
  /\ pin <= latest /\ \A p \in Pulls : VersionOf(p) <= latest
  /\ \A p \in OpenPulls : pin <= VersionOf(p)
  /\ \A p \in Pulls : prs[p].state = "merged" => VersionOf(p) <= pin
  /\ run.at # "idle" =>
       /\ run.base < run.version /\ run.version <= latest /\ pin <= run.version
       /\ \A p \in Pulls : VersionOf(p) <= run.version

\* While a run prepares a proposal nothing is open, and its release was only proposed by
\* what has been merged; from the push on, its branch has no older commit than its own.
Running ==
  /\ run.at \in Proposing =>
       OpenPulls = {} /\ \A p \in Pulls : VersionOf(p) = run.version => prs[p].state = "merged"
  /\ run.at \in {"branch", "push", "create"} =>
       run.issue \in Numbers /\ issues[run.issue].version = run.version
  /\ run.at = "create" => run.head = heads /\ heads > 0 /\ branch[run.issue] \in {0, heads}
  /\ run.at \in Proposed =>
       /\ run.issue \in Numbers /\ run.pr \in Pulls /\ run.head > 0
       /\ branch[run.issue] = 0 \/ branch[run.issue] >= run.head
  /\ run.at \in {"again", "review"} => run.smoked = run.head
  /\ run.at # "idle" => run.reviewed = 0

\* The history has the last commit once its checks have all passed, and keeps it for the run
\* that has seen it.
Checked ==
  /\ Passed(checks) => heads \in green
  /\ run.at \in Assured => run.head \in green

\* The last commit was that of the run when it looked at the pull request; its smoke took
\* this one or a later one of the branch, and passed on this one only.
Dispatched ==
  /\ run.at \in {"smoke", "smoking", "again", "review"} => run.looked = run.head
  /\ run.at = "smoking" => run.taken >= run.head
  /\ run.at \in {"again", "review"} => run.taken = run.head

IInv == TypeOK /\ OneOpen /\ Ordered /\ Running /\ Dispatched /\ Checked
-----------------------------------------------------------------------------

(* The parts of the type invariant. *)
Issue      == [version : Version, open : BOOLEAN, task : BOOLEAN, indexed : BOOLEAN]
Pull(n, h) == [issue : 1..n, state : {"open", "closed", "merged"}, head : 1..h, intact : BOOLEAN]
IssuesTyped  == issues \in Seq(Issue)
BranchTyped  == heads \in Nat /\ branch \in Seq(0..heads) /\ Len(branch) = Len(issues)
PullsTyped   == prs \in Seq(Pull(Len(issues), heads))
RunTyped     ==
  run \in [at : Steps, base : 0..MaxVersion, version : 0..MaxVersion,
           issue : 0..Len(issues), pr : 0..Len(prs), head : 0..heads, looked : 0..heads,
           taken : 0..heads, smoked : 0..heads, failed : SUBSET Checks, reviewed : 0..heads]
ChecksTyped  == checks \in [Checks -> Status] /\ green \subseteq 1..heads
CountsTyped  == latest \in 0..MaxVersion /\ pin \in 0..MaxVersion /\ incidents \in 0..MaxIncidents

LEMMA TypeParts ==
  TypeOK <=> IssuesTyped /\ BranchTyped /\ PullsTyped /\ RunTyped /\ ChecksTyped /\ CountsTyped
BY DEF TypeOK, IssuesTyped, BranchTyped, PullsTyped, RunTyped, ChecksTyped, CountsTyped, Issue, Pull, Numbers

\* Issues and pull requests are never removed, an issue keeps its version, a pull request its
\* issue and how it was closed.
IssuesGrow ==
  Len(issues) <= Len(issues') /\ \A i \in Numbers : issues'[i].version = issues[i].version
PullsGrow ==
  /\ Len(prs) <= Len(prs')
  /\ \A p \in Pulls : /\ prs'[p].issue = prs[p].issue
                      /\ prs[p].state # "open" => prs'[p].state = prs[p].state

(* An issue that is edited keeps its version. *)
LEMMA IssueEdited ==
  ASSUME IssuesTyped, NEW i \in Numbers, NEW row \in Issue, row.version = issues[i].version,
         issues' = [issues EXCEPT ![i] = row]
  PROVE  IssuesTyped' /\ IssuesGrow /\ Len(issues') = Len(issues)
<1>1. issues \in Seq(Issue) /\ i \in 1..Len(issues) /\ Len(issues) \in Nat
  BY LenProperties DEF IssuesTyped, Numbers
<1>2. /\ issues' \in Seq(Issue) /\ Len(issues') = Len(issues)
      /\ \A j \in 1..Len(issues) : issues'[j] = IF j = i THEN row ELSE issues[j]
  BY <1>1, ExceptSeq
<1> QED
  BY <1>1, <1>2 DEF IssuesTyped, IssuesGrow, Numbers

(* What the actions that edit one issue leave of the issues. *)
LEMMA IssueEdits ==
  ASSUME IssuesTyped, PullsTyped,
         \/ Index
         \/ \E i \in Numbers : ToggleIssue(i) \/ RetypeIssue(i)
         \/ \E p \in Pulls : MergePR(p)
  PROVE  IssuesTyped' /\ IssuesGrow /\ Len(issues') = Len(issues)
<1>1. ASSUME NEW i \in Numbers PROVE issues[i] \in Issue
  BY <1>1, ElementOfSeq DEF IssuesTyped, Numbers
<1>2. CASE Index
  <2>1. PICK i \in Numbers : issues' = [issues EXCEPT ![i].indexed = TRUE]
    BY <1>2 DEF Index
  <2> DEFINE row == [issues[i] EXCEPT !.indexed = TRUE]
  <2>2. row \in Issue /\ row.version = issues[i].version
    BY <1>1 DEF Issue
  <2>3. issues' = [issues EXCEPT ![i] = row]
    BY <2>1
  <2> HIDE DEF row
  <2> QED
    BY <2>2, <2>3, IssueEdited
<1>3. ASSUME NEW i \in Numbers, ToggleIssue(i) PROVE IssuesTyped' /\ IssuesGrow /\ Len(issues') = Len(issues)
  <2> DEFINE row == [issues[i] EXCEPT !.open = ~@]
  <2>1. row \in Issue /\ row.version = issues[i].version
    BY <1>1 DEF Issue
  <2>2. issues' = [issues EXCEPT ![i] = row]
    BY <1>3 DEF ToggleIssue
  <2> HIDE DEF row
  <2> QED
    BY <2>1, <2>2, IssueEdited
<1>4. ASSUME NEW i \in Numbers, RetypeIssue(i) PROVE IssuesTyped' /\ IssuesGrow /\ Len(issues') = Len(issues)
  <2> DEFINE row == [issues[i] EXCEPT !.task = ~@]
  <2>1. row \in Issue /\ row.version = issues[i].version
    BY <1>1 DEF Issue
  <2>2. issues' = [issues EXCEPT ![i] = row]
    BY <1>4 DEF RetypeIssue
  <2> HIDE DEF row
  <2> QED
    BY <2>1, <2>2, IssueEdited
<1>5. ASSUME NEW p \in Pulls, MergePR(p) PROVE IssuesTyped' /\ IssuesGrow /\ Len(issues') = Len(issues)
  <2> DEFINE i == prs[p].issue
             row == [issues[i] EXCEPT !.open = FALSE]
  <2>1. i \in Numbers
    <3>1. prs[p] \in Pull(Len(issues), heads)
      BY ElementOfSeq DEF PullsTyped, Pulls
    <3> QED
      BY <3>1 DEF Pull, Numbers
  <2>2. row \in Issue /\ row.version = issues[i].version
    BY <2>1, <1>1 DEF Issue
  <2>3. issues' = [issues EXCEPT ![i] = row]
    BY <1>5 DEF MergePR
  <2> HIDE DEF row, i
  <2> QED
    BY <2>1, <2>2, <2>3, IssueEdited
<1> QED
  BY <1>2, <1>3, <1>4, <1>5

(* A commit is the new tip of one branch. *)
Tip(i) ==
  /\ heads' = heads + 1 /\ branch' \in Seq(0..heads') /\ Len(branch') = Len(branch)
  /\ \A j \in Numbers : branch'[j] = IF j = i THEN heads + 1 ELSE branch[j]
LEMMA Committed ==
  ASSUME BranchTyped, NEW i \in Numbers, Commit(i)
  PROVE  Tip(i)
<1>1. heads \in Nat /\ branch \in Seq(0..heads) /\ i \in 1..Len(branch) /\ Numbers = 1..Len(branch)
  BY DEF BranchTyped, Numbers
<1>2. heads' = heads + 1 /\ branch' = [branch EXCEPT ![i] = heads + 1]
  BY DEF Commit
<1>3. branch \in Seq(0..(heads + 1)) /\ heads + 1 \in 0..(heads + 1)
  BY <1>1, SeqMonotonic
<1> QED
  BY <1>1, <1>2, <1>3, ExceptSeq DEF Tip

(* Issues stay typed, are never removed, and keep the release they are about. *)
LEMMA IssuesStep ==
  (IssuesTyped /\ PullsTyped /\ RunTyped /\ CountsTyped /\ Ordered) /\ [Next]_vars
    => (IssuesTyped' /\ IssuesGrow)
<1> SUFFICES ASSUME (IssuesTyped /\ PullsTyped /\ RunTyped /\ CountsTyped /\ Ordered), [Next]_vars
             PROVE  (IssuesTyped' /\ IssuesGrow)
  OBVIOUS
<1>a. issues \in Seq(Issue) /\ Len(issues) \in Nat /\ IssuesTyped /\ PullsTyped
  BY LenProperties DEF IssuesTyped
<1>b. ASSUME issues' = issues PROVE IssuesTyped' /\ IssuesGrow
  BY <1>a, <1>b DEF IssuesTyped, IssuesGrow, Numbers
<1>1. CASE Run
  <2>1. CASE Begin
    BY <2>1, <1>b DEF Begin, remote, ci
  <2>2. CASE FindPending
    BY <2>2, <1>b DEF FindPending, remote, ci
  <2>3. CASE Source
    <3> DEFINE row == [version |-> run.version, open |-> TRUE, task |-> TRUE, indexed |-> FALSE]
    <3>1. run.version \in Version
      <4>1. run.base \in 0..MaxVersion /\ run.version \in 0..MaxVersion
        BY DEF RunTyped
      <4>2. run.base < run.version
        BY <2>3 DEF Source, Ordered
      <4> QED
        BY <4>1, <4>2, BoundsAssumption DEF Version
    <3>2. row \in Issue
      BY <3>1 DEF Issue
    <3>3. CASE issues' = Append(issues, row)
      <4> HIDE DEF row
      <4>1. /\ issues' \in Seq(Issue) /\ Len(issues') = Len(issues) + 1
            /\ \A i \in 1..Len(issues) : issues'[i] = issues[i]
        BY <1>a, <3>2, <3>3, AppendProperties
      <4> QED
        BY <1>a, <4>1 DEF IssuesTyped, IssuesGrow, Numbers
    <3>4. CASE issues' = issues
      BY <3>4, <1>b
    <3> QED
      BY <2>3, <3>3, <3>4 DEF Source
  <2>4. CASE StartBranch
    BY <2>4, <1>b DEF StartBranch, remote, ci
  <2>5. CASE Push
    BY <2>5, <1>b DEF Push, remote, ci
  <2>6. CASE CreatePR
    BY <2>6, <1>b DEF CreatePR, remote, ci
  <2>7. CASE Redispatch
    BY <2>7, <1>b DEF Redispatch, remote, ci
  <2>8. CASE WaitChecks
    BY <2>8, <1>b DEF WaitChecks, remote, ci
  <2>9. CASE Reverify
    BY <2>9, <1>b DEF Reverify, remote, ci
  <2>10. CASE DispatchSmoke
    BY <2>10, <1>b DEF DispatchSmoke, remote, ci
  <2>11. CASE FinishSmoke
    BY <2>11, <1>b DEF FinishSmoke, remote, ci
  <2>12. CASE DispatchReview
    BY <2>12, <1>b DEF DispatchReview, remote, ci
  <2>13. CASE TimeOut
    BY <2>13, <1>b DEF TimeOut, remote, ci
  <2> QED
    BY <1>1, <2>1, <2>2, <2>3, <2>4, <2>5, <2>6, <2>7, <2>8, <2>9, <2>10, <2>11, <2>12, <2>13
       DEF Run
<1>2. CASE Die
  BY <1>2, <1>b DEF Die, remote, ci
<1>3. CASE Release
  BY <1>3, <1>b DEF Release, remote, ci
<1>4. CASE Index
  BY <1>4, <1>a, IssueEdits
<1>5. CASE CheckMoves
  BY <1>5, <1>b DEF CheckMoves, remote, ci
<1>6. CASE People
  <2> UNCHANGED <<latest, run>>
    BY <1>6 DEF People
  <2>1. ASSUME NEW p \in Pulls, PushCommit(p) PROVE (IssuesTyped' /\ IssuesGrow)
    BY <2>1, <1>b DEF PushCommit, remote, ci, Commit
  <2>2. ASSUME NEW p \in Pulls, EditBody(p) PROVE (IssuesTyped' /\ IssuesGrow)
    BY <2>2, <1>b DEF EditBody, remote, ci
  <2>3. ASSUME NEW p \in Pulls, ClosePR(p) PROVE (IssuesTyped' /\ IssuesGrow)
    BY <2>3, <1>b DEF ClosePR, remote, ci
  <2>4. ASSUME NEW p \in Pulls, MergePR(p) PROVE (IssuesTyped' /\ IssuesGrow)
    BY <2>4, <1>a, IssueEdits
  <2>5. ASSUME NEW i \in Numbers, ToggleIssue(i) PROVE (IssuesTyped' /\ IssuesGrow)
    BY <2>5, <1>a, IssueEdits
  <2>6. ASSUME NEW i \in Numbers, RetypeIssue(i) PROVE (IssuesTyped' /\ IssuesGrow)
    BY <2>6, <1>a, IssueEdits
  <2>7. ASSUME NEW i \in Numbers, DeleteBranch(i) PROVE (IssuesTyped' /\ IssuesGrow)
    BY <2>7, <1>b DEF DeleteBranch, remote, ci
  <2> QED
    BY <1>6, <2>1, <2>2, <2>3, <2>4, <2>5, <2>6, <2>7 DEF People
<1>7. CASE UNCHANGED vars
  BY <1>7, <1>b DEF vars, remote, ci
<1> QED
  BY <1>1, <1>2, <1>3, <1>4, <1>5, <1>6, <1>7 DEF Next

(* Each issue has a branch, of a commit that was pushed, or none. *)
LEMMA BranchStep ==
  (IssuesTyped /\ PullsTyped /\ BranchTyped /\ RunTyped /\ Running) /\ [Next]_vars
    => (BranchTyped' /\ heads <= heads')
<1> SUFFICES ASSUME (IssuesTyped /\ PullsTyped /\ BranchTyped /\ RunTyped /\ Running), [Next]_vars
             PROVE  (BranchTyped' /\ heads <= heads')
  OBVIOUS
<1>a. heads \in Nat /\ branch \in Seq(0..heads) /\ Len(branch) = Len(issues) /\ Numbers = 1..Len(branch)
  BY DEF BranchTyped, Numbers
<1>b. ASSUME heads' = heads, branch' = branch, Len(issues') = Len(issues) PROVE BranchTyped' /\ heads <= heads'
  BY <1>a, <1>b DEF BranchTyped
<1>c. ASSUME NEW i \in Numbers, Tip(i), issues' = issues PROVE BranchTyped' /\ heads <= heads'
  BY <1>a, <1>c DEF BranchTyped, Tip
<1>1. CASE Run
  <2>1. CASE Begin
    BY <2>1, <1>b DEF Begin, remote, ci
  <2>2. CASE FindPending
    BY <2>2, <1>b DEF FindPending, remote, ci
  <2>3. CASE Source
    <3> DEFINE row == [version |-> run.version, open |-> TRUE, task |-> TRUE, indexed |-> FALSE]
    <3>1. CASE issues' = Append(issues, row) /\ branch' = Append(branch, 0) /\ heads' = heads
      <4> HIDE DEF row
      <4>1. Len(issues') = Len(issues) + 1
        BY <3>1, AppendProperties DEF IssuesTyped
      <4>2. branch' \in Seq(0..heads) /\ Len(branch') = Len(branch) + 1
        BY <1>a, <3>1, AppendProperties
      <4> QED
        BY <1>a, <3>1, <4>1, <4>2 DEF BranchTyped
    <3>2. CASE issues' = issues /\ branch' = branch /\ heads' = heads
      BY <3>2, <1>b
    <3> QED
      BY <2>3, <3>1, <3>2 DEF Source
  <2>4. CASE StartBranch
    BY <2>4, <1>b DEF StartBranch, remote, ci
  <2>5. CASE Push
    <3>1. run.issue \in Numbers /\ issues' = issues
      BY <2>5 DEF Push, Running
    <3>2. CASE Commit(run.issue)
      BY <1>c, <3>1, <3>2, Committed
    <3>3. CASE heads' = heads /\ branch' = branch
      BY <3>1, <3>3, <1>b
    <3> QED
      BY <2>5, <3>2, <3>3 DEF Push
  <2>6. CASE CreatePR
    BY <2>6, <1>b DEF CreatePR, remote, ci
  <2>7. CASE Redispatch
    BY <2>7, <1>b DEF Redispatch, remote, ci
  <2>8. CASE WaitChecks
    BY <2>8, <1>b DEF WaitChecks, remote, ci
  <2>9. CASE Reverify
    BY <2>9, <1>b DEF Reverify, remote, ci
  <2>10. CASE DispatchSmoke
    BY <2>10, <1>b DEF DispatchSmoke, remote, ci
  <2>11. CASE FinishSmoke
    BY <2>11, <1>b DEF FinishSmoke, remote, ci
  <2>12. CASE DispatchReview
    BY <2>12, <1>b DEF DispatchReview, remote, ci
  <2>13. CASE TimeOut
    BY <2>13, <1>b DEF TimeOut, remote, ci
  <2> QED
    BY <1>1, <2>1, <2>2, <2>3, <2>4, <2>5, <2>6, <2>7, <2>8, <2>9, <2>10, <2>11, <2>12, <2>13
       DEF Run
<1>2. CASE Die
  BY <1>2, <1>b DEF Die, remote, ci
<1>3. CASE Release
  BY <1>3, <1>b DEF Release, remote, ci
<1>4. CASE Index
  <2>1. Len(issues') = Len(issues)
    BY <1>4, IssueEdits
  <2> QED
    BY <1>4, <2>1, <1>b DEF Index
<1>5. CASE CheckMoves
  BY <1>5, <1>b DEF CheckMoves, remote, ci
<1>6. CASE People
  <2> UNCHANGED <<latest, run>>
    BY <1>6 DEF People
  <2>1. ASSUME NEW p \in Pulls, PushCommit(p) PROVE (BranchTyped' /\ heads <= heads')
    <3>1. prs[p].issue \in Numbers
      <4>1. prs[p] \in Pull(Len(issues), heads)
        BY ElementOfSeq DEF PullsTyped, Pulls
      <4> QED
        BY <4>1 DEF Pull, Numbers
    <3>2. Commit(prs[p].issue) /\ issues' = issues
      BY <2>1 DEF PushCommit
    <3> QED
      BY <1>c, <3>1, <3>2, Committed
  <2>2. ASSUME NEW p \in Pulls, EditBody(p) PROVE (BranchTyped' /\ heads <= heads')
    BY <2>2, <1>b DEF EditBody, remote, ci
  <2>3. ASSUME NEW p \in Pulls, ClosePR(p) PROVE (BranchTyped' /\ heads <= heads')
    BY <2>3, <1>b DEF ClosePR, remote, ci
  <2>4. ASSUME NEW p \in Pulls, MergePR(p) PROVE (BranchTyped' /\ heads <= heads')
    <3>1. Len(issues') = Len(issues)
      BY <2>4, IssueEdits
    <3> QED
      BY <2>4, <3>1, <1>b DEF MergePR
  <2>5. ASSUME NEW i \in Numbers, ToggleIssue(i) PROVE (BranchTyped' /\ heads <= heads')
    <3>1. Len(issues') = Len(issues)
      BY <2>5, IssueEdits
    <3> QED
      BY <2>5, <3>1, <1>b DEF ToggleIssue
  <2>6. ASSUME NEW i \in Numbers, RetypeIssue(i) PROVE (BranchTyped' /\ heads <= heads')
    <3>1. Len(issues') = Len(issues)
      BY <2>6, IssueEdits
    <3> QED
      BY <2>6, <3>1, <1>b DEF RetypeIssue
  <2>7. ASSUME NEW i \in Numbers, DeleteBranch(i) PROVE (BranchTyped' /\ heads <= heads')
    <3>1. branch' \in Seq(0..heads) /\ Len(branch') = Len(branch)
      <4>1. branch' = [branch EXCEPT ![i] = 0] /\ 0 \in 0..heads
        BY <2>7, <1>a DEF DeleteBranch
      <4> QED
        BY <1>a, <4>1, ExceptSeq
    <3> QED
      BY <2>7, <1>a, <3>1 DEF DeleteBranch, BranchTyped
  <2> QED
    BY <1>6, <2>1, <2>2, <2>3, <2>4, <2>5, <2>6, <2>7 DEF People
<1>7. CASE UNCHANGED vars
  BY <1>7, <1>b DEF vars, remote, ci
<1> QED
  BY <1>1, <1>2, <1>3, <1>4, <1>5, <1>6, <1>7 DEF Next

(* A pull request that is edited while open, and none that is not. *)
PullEdited(p, row) ==
  Len(prs') = Len(prs) /\ \A q \in Pulls : prs'[q] = IF q = p THEN row ELSE prs[q]
LEMMA PullEdits ==
  ASSUME NEW n, NEW h, prs \in Seq(Pull(n, h)), NEW p \in Pulls, NEW row \in Pull(n, h),
         row.issue = prs[p].issue, prs[p].state = "open", prs' = [prs EXCEPT ![p] = row]
  PROVE  prs' \in Seq(Pull(n, h)) /\ PullEdited(p, row) /\ PullsGrow
<1>1. Len(prs) \in Nat /\ Pulls = 1..Len(prs)
  BY LenProperties DEF Pulls
<1>2. prs' \in Seq(Pull(n, h)) /\ PullEdited(p, row)
  BY <1>1, ExceptSeq DEF PullEdited
<1> QED
  BY <1>1, <1>2 DEF PullEdited, PullsGrow

(* What people do to a pull request, read through the bounds after it. *)
LEMMA PeopleEdit ==
  ASSUME NEW n, NEW h, prs \in Seq(Pull(n, h)), NEW p \in Pulls
  PROVE  /\ PushCommit(p) /\ heads' = heads + 1 /\ heads + 1 \in 1..h
              => prs' \in Seq(Pull(n, h)) /\ PullsGrow /\ PullEdited(p, [prs[p] EXCEPT !.head = heads + 1])
         /\ EditBody(p)
              => prs' \in Seq(Pull(n, h)) /\ PullsGrow /\ PullEdited(p, [prs[p] EXCEPT !.intact = ~@])
         /\ ClosePR(p)
              => prs' \in Seq(Pull(n, h)) /\ PullsGrow /\ PullEdited(p, [prs[p] EXCEPT !.state = "closed"])
         /\ MergePR(p)
              => prs' \in Seq(Pull(n, h)) /\ PullsGrow /\ PullEdited(p, [prs[p] EXCEPT !.state = "merged"])
<1>1. prs[p] \in Pull(n, h)
  BY ElementOfSeq DEF Pulls
<1>2. ASSUME PushCommit(p), heads' = heads + 1, heads + 1 \in 1..h
      PROVE  prs' \in Seq(Pull(n, h)) /\ PullsGrow /\ PullEdited(p, [prs[p] EXCEPT !.head = heads + 1])
  <2> DEFINE row == [prs[p] EXCEPT !.head = heads + 1]
  <2>1. row \in Pull(n, h) /\ row.issue = prs[p].issue
    BY <1>1, <1>2 DEF Pull
  <2>2. prs[p].state = "open" /\ prs' = [prs EXCEPT ![p] = row]
    BY <1>2 DEF PushCommit
  <2> HIDE DEF row
  <2>3. prs' \in Seq(Pull(n, h)) /\ PullEdited(p, row) /\ PullsGrow
    BY <2>1, <2>2, PullEdits
  <2> QED
    BY <2>3 DEF row
<1>3. ASSUME EditBody(p)
      PROVE  prs' \in Seq(Pull(n, h)) /\ PullsGrow /\ PullEdited(p, [prs[p] EXCEPT !.intact = ~@])
  <2> DEFINE row == [prs[p] EXCEPT !.intact = ~@]
  <2>1. row \in Pull(n, h) /\ row.issue = prs[p].issue
    BY <1>1 DEF Pull
  <2>2. prs[p].state = "open" /\ prs' = [prs EXCEPT ![p] = row]
    BY <1>3 DEF EditBody
  <2> HIDE DEF row
  <2>3. prs' \in Seq(Pull(n, h)) /\ PullEdited(p, row) /\ PullsGrow
    BY <2>1, <2>2, PullEdits
  <2> QED
    BY <2>3 DEF row
<1>4. ASSUME NEW state \in {"closed", "merged"}, prs[p].state = "open",
             prs' = [prs EXCEPT ![p].state = state]
      PROVE  prs' \in Seq(Pull(n, h)) /\ PullsGrow /\ PullEdited(p, [prs[p] EXCEPT !.state = state])
  <2> DEFINE row == [prs[p] EXCEPT !.state = state]
  <2>1. row \in Pull(n, h) /\ row.issue = prs[p].issue
    BY <1>1, <1>4 DEF Pull
  <2>2. prs' = [prs EXCEPT ![p] = row]
    BY <1>4
  <2> HIDE DEF row
  <2>3. prs' \in Seq(Pull(n, h)) /\ PullEdited(p, row) /\ PullsGrow
    BY <1>4, <2>1, <2>2, PullEdits
  <2> QED
    BY <2>3 DEF row
<1>5. ClosePR(p) => prs' \in Seq(Pull(n, h)) /\ PullsGrow /\ PullEdited(p, [prs[p] EXCEPT !.state = "closed"])
  BY <1>4 DEF ClosePR
<1>6. MergePR(p) => prs' \in Seq(Pull(n, h)) /\ PullsGrow /\ PullEdited(p, [prs[p] EXCEPT !.state = "merged"])
  BY <1>4 DEF MergePR
<1> QED
  BY <1>2, <1>3, <1>5, <1>6

(* GitHub closes the open pull requests of a branch that is deleted. *)
PullsDropped(i) ==
  /\ Len(prs') = Len(prs)
  /\ \A q \in Pulls : prs'[q] = IF prs[q].issue = i /\ prs[q].state = "open"
                                THEN [prs[q] EXCEPT !.state = "closed"] ELSE prs[q]
LEMMA Deleted ==
  ASSUME NEW n, NEW h, prs \in Seq(Pull(n, h)), NEW i \in Numbers, DeleteBranch(i)
  PROVE  prs' \in Seq(Pull(n, h)) /\ PullsGrow /\ PullsDropped(i)
<1> DEFINE row(q) == IF prs[q].issue = i /\ prs[q].state = "open"
                     THEN [prs[q] EXCEPT !.state = "closed"] ELSE prs[q]
<1>1. Len(prs) \in Nat /\ Pulls = 1..Len(prs)
  BY LenProperties DEF Pulls
<1>2. \A q \in Pulls : prs[q] \in Pull(n, h)
  BY ElementOfSeq DEF Pulls
<1>3. \A q \in Pulls : row(q) \in Pull(n, h) /\ row(q).issue = prs[q].issue
                        /\ (prs[q].state # "open" => row(q) = prs[q])
  BY <1>2 DEF Pull
<1>4. prs' = [q \in 1..Len(prs) |-> row(q)]
  BY <1>1 DEF DeleteBranch
<1>5. PullsDropped(i) <=> Len(prs') = Len(prs) /\ \A q \in Pulls : prs'[q] = row(q)
  BY DEF PullsDropped
<1> HIDE DEF row
<1>6. prs' \in [1..Len(prs) -> Pull(n, h)]
  BY <1>1, <1>3, <1>4
<1>7. prs' \in Seq(Pull(n, h))
  BY <1>1, <1>6, SeqDef
<1>8. Len(prs') = Len(prs)
  <2>1. DOMAIN prs' = 1..Len(prs) /\ DOMAIN prs' = 1..Len(prs') /\ Len(prs') \in Nat
    BY <1>6, <1>7, LenProperties
  <2> QED
    BY <1>1, <2>1
<1>9. \A q \in Pulls : prs'[q] = row(q)
  BY <1>1, <1>4
<1> QED
  BY <1>1, <1>3, <1>5, <1>7, <1>8, <1>9 DEF PullsGrow

(* Pull requests stay typed, are never removed or reopened, and keep their issue. *)
LEMMA PullsStep ==
  (IssuesTyped /\ BranchTyped /\ PullsTyped /\ RunTyped /\ ChecksTyped
   /\ CountsTyped /\ OneOpen /\ Ordered /\ Running) /\ [Next]_vars
    => (PullsTyped' /\ PullsGrow)
<1> SUFFICES ASSUME IssuesTyped, BranchTyped, PullsTyped, RunTyped, ChecksTyped,
                    CountsTyped, OneOpen, Ordered, Running, [Next]_vars
             PROVE  (PullsTyped' /\ PullsGrow)
  OBVIOUS
<1>a. Len(issues) \in Nat /\ Len(issues') \in Nat /\ Len(issues) <= Len(issues') /\ heads \in Nat /\ heads' \in Nat /\ heads <= heads'
  BY IssuesStep, BranchStep, LenProperties DEF IssuesTyped, IssuesGrow, BranchTyped
<1> DEFINE Later == Pull(Len(issues'), heads')
<1>b. prs \in Seq(Later)
  <2>1. Pull(Len(issues), heads) \subseteq Later
    BY <1>a DEF Pull
  <2> QED
    BY <2>1, SeqMonotonic DEF PullsTyped
<1>c. PullsTyped' <=> prs' \in Seq(Later)
  BY DEF PullsTyped
<1>d. Len(prs) \in Nat /\ Pulls = 1..Len(prs)
  BY <1>b, LenProperties DEF Pulls
<1> HIDE DEF Later
<1>e. ASSUME prs' = prs PROVE PullsTyped' /\ PullsGrow
  BY <1>b, <1>c, <1>d, <1>e DEF PullsGrow
<1> USE DEF Later
<1>1. CASE Run
  <2>1. CASE Begin
    BY <2>1, <1>e DEF Begin, remote, ci
  <2>2. CASE FindPending
    BY <2>2, <1>e DEF FindPending, remote, ci
  <2>3. CASE Source
    BY <2>3, <1>e DEF Source, remote, ci
  <2>4. CASE StartBranch
    BY <2>4, <1>e DEF StartBranch, remote, ci
  <2>5. CASE Push
    BY <2>5, <1>e DEF Push, remote, ci, Commit
  <2>6. CASE CreatePR
    <3> DEFINE row == [issue |-> run.issue, state |-> "open", head |-> branch[run.issue], intact |-> TRUE]
    <3>1. CASE prs' = prs
      BY <3>1, <1>e
    <3>2. CASE prs' = Append(prs, row) /\ branch[run.issue] # 0
      <4>1. run.issue \in 1..Len(issues') /\ branch[run.issue] \in 1..heads'
        <5>1. run.at = "create" /\ run.issue \in Numbers /\ issues' = issues /\ heads' = heads
          BY <2>6 DEF CreatePR, Running
        <5>2. branch[run.issue] \in 0..heads
          BY <5>1, ElementOfSeq DEF BranchTyped, Numbers
        <5> QED
          BY <1>a, <3>2, <5>1, <5>2 DEF Numbers
      <4>2. row \in Later
        BY <4>1 DEF Pull
      <4> HIDE DEF row, Later
      <4>3. /\ prs' \in Seq(Later) /\ Len(prs') = Len(prs) + 1
            /\ \A q \in 1..Len(prs) : prs'[q] = prs[q]
        BY <1>b, <3>2, <4>2, AppendProperties
      <4> QED
        BY <1>c, <1>d, <4>3 DEF PullsGrow
    <3> QED
      BY <2>6, <3>1, <3>2 DEF CreatePR
  <2>7. CASE Redispatch
    BY <2>7, <1>e DEF Redispatch, remote, ci
  <2>8. CASE WaitChecks
    BY <2>8, <1>e DEF WaitChecks, remote, ci
  <2>9. CASE Reverify
    BY <2>9, <1>e DEF Reverify, remote, ci
  <2>10. CASE DispatchSmoke
    BY <2>10, <1>e DEF DispatchSmoke, remote, ci
  <2>11. CASE FinishSmoke
    BY <2>11, <1>e DEF FinishSmoke, remote, ci
  <2>12. CASE DispatchReview
    BY <2>12, <1>e DEF DispatchReview, remote, ci
  <2>13. CASE TimeOut
    BY <2>13, <1>e DEF TimeOut, remote, ci
  <2> QED
    BY <1>1, <2>1, <2>2, <2>3, <2>4, <2>5, <2>6, <2>7, <2>8, <2>9, <2>10, <2>11, <2>12, <2>13
       DEF Run
<1>2. CASE Die
  BY <1>2, <1>e DEF Die, remote, ci
<1>3. CASE Release
  BY <1>3, <1>e DEF Release, remote, ci
<1>4. CASE Index
  BY <1>4, <1>e DEF Index, remote, ci
<1>5. CASE CheckMoves
  BY <1>5, <1>e DEF CheckMoves, remote, ci
<1>6. CASE People
  <2> UNCHANGED <<latest, run>>
    BY <1>6 DEF People
  <2>1. ASSUME NEW p \in Pulls, PushCommit(p) PROVE (PullsTyped' /\ PullsGrow)
    <3>1. heads' = heads + 1
      BY <2>1 DEF PushCommit, Commit
    <3>2. heads + 1 \in 1..heads'
      BY <1>a, <3>1
    <3> QED
      BY <2>1, <1>b, <1>c, <3>1, <3>2, PeopleEdit
  <2>2. ASSUME NEW p \in Pulls, EditBody(p) PROVE (PullsTyped' /\ PullsGrow)
    BY <2>2, <1>b, <1>c, PeopleEdit
  <2>3. ASSUME NEW p \in Pulls, ClosePR(p) PROVE (PullsTyped' /\ PullsGrow)
    BY <2>3, <1>b, <1>c, PeopleEdit
  <2>4. ASSUME NEW p \in Pulls, MergePR(p) PROVE (PullsTyped' /\ PullsGrow)
    BY <2>4, <1>b, <1>c, PeopleEdit
  <2>5. ASSUME NEW i \in Numbers, ToggleIssue(i) PROVE (PullsTyped' /\ PullsGrow)
    BY <2>5, <1>e DEF ToggleIssue, remote, ci
  <2>6. ASSUME NEW i \in Numbers, RetypeIssue(i) PROVE (PullsTyped' /\ PullsGrow)
    BY <2>6, <1>e DEF RetypeIssue, remote, ci
  <2>7. ASSUME NEW i \in Numbers, DeleteBranch(i) PROVE (PullsTyped' /\ PullsGrow)
    BY <2>7, <1>b, <1>c, Deleted
  <2> QED
    BY <1>6, <2>1, <2>2, <2>3, <2>4, <2>5, <2>6, <2>7 DEF People
<1>7. CASE UNCHANGED vars
  BY <1>7, <1>e DEF vars, remote, ci
<1> QED
  BY <1>1, <1>2, <1>3, <1>4, <1>5, <1>6, <1>7 DEF Next

(* What stopping and proceeding leave of the run's type. *)
LEMMA RunMoves ==
  ASSUME RunTyped, Len(issues) \in Nat, Len(prs) \in Nat, heads \in Nat,
         Len(issues) <= Len(issues'), Len(prs) <= Len(prs'), heads <= heads',
         Len(issues') \in Nat, Len(prs') \in Nat, heads' \in Nat
  PROVE  /\ run' = run => RunTyped'
         /\ Stop => RunTyped'
         /\ \A step \in Steps : Proceed(step) => RunTyped'
         /\ \A step \in Steps, i \in 0..Len(issues') :
              run' = [run EXCEPT !.at = step, !.issue = i] => RunTyped'
         /\ \A step \in Steps, p \in 0..Len(prs') :
              run' = [run EXCEPT !.at = step, !.pr = p] => RunTyped'
         /\ \A step \in Steps, h \in 0..heads' :
              run' = [run EXCEPT !.at = step, !.head = h] => RunTyped'
         /\ \A step \in Steps, h \in 0..heads' :
              \/ run' = [run EXCEPT !.at = step, !.looked = h]
              \/ run' = [run EXCEPT !.at = step, !.taken = h]
              \/ run' = [run EXCEPT !.at = step, !.smoked = h]
              => RunTyped'
         /\ \A step \in Steps, i \in 0..Len(issues'), p \in 0..Len(prs'), h \in 0..heads' :
              run' = [run EXCEPT !.at = step, !.issue = i, !.pr = p, !.head = h] => RunTyped'
         /\ \A step \in Steps, b, v \in 0..MaxVersion :
              run' = [Idle EXCEPT !.at = step, !.base = b, !.version = v] => RunTyped'
<1> DEFINE Runs == [at : Steps, base : 0..MaxVersion, version : 0..MaxVersion,
                    issue : 0..Len(issues'), pr : 0..Len(prs'), head : 0..heads', looked : 0..heads',
                    taken : 0..heads', smoked : 0..heads', failed : SUBSET Checks, reviewed : 0..heads']
<1>1. run \in Runs
  BY DEF RunTyped
<1>2. Idle \in Runs
  BY BoundsAssumption DEF Idle, Steps
<1>3. RunTyped' <=> run' \in Runs
  BY DEF RunTyped
<1>4. \A step \in Steps, i \in 0..Len(issues') : [run EXCEPT !.at = step, !.issue = i] \in Runs
  BY <1>1
<1>5. \A step \in Steps, p \in 0..Len(prs') : [run EXCEPT !.at = step, !.pr = p] \in Runs
  BY <1>1
<1>6. \A step \in Steps, h \in 0..heads' : [run EXCEPT !.at = step, !.head = h] \in Runs
  BY <1>1
<1>7. \A step \in Steps, h \in 0..heads' :
        /\ [run EXCEPT !.at = step, !.looked = h] \in Runs
        /\ [run EXCEPT !.at = step, !.taken = h] \in Runs
        /\ [run EXCEPT !.at = step, !.smoked = h] \in Runs
  BY <1>1
<1>8. \A step \in Steps : [run EXCEPT !.at = step] \in Runs
  BY <1>1
<1>9. \A step \in Steps, i \in 0..Len(issues'), p \in 0..Len(prs'), h \in 0..heads' :
        [run EXCEPT !.at = step, !.issue = i, !.pr = p, !.head = h] \in Runs
  BY <1>1
<1>10. \A step \in Steps, b, v \in 0..MaxVersion : [Idle EXCEPT !.at = step, !.base = b, !.version = v] \in Runs
  BY <1>2
<1> HIDE DEF Runs
<1>11. (run' = run => RunTyped') /\ (Stop => RunTyped') /\ \A step \in Steps : Proceed(step) => RunTyped'
  BY <1>1, <1>2, <1>3, <1>8 DEF Stop, Proceed
<1>12. ASSUME NEW v \in Runs PROVE run' = v => RunTyped'
  BY <1>3, <1>12
<1> QED
  BY <1>4, <1>5, <1>6, <1>7, <1>9, <1>10, <1>11, <1>12

(* A run stays typed, whatever grows while it works. *)
LEMMA RunStep == (TypeOK /\ OneOpen /\ Ordered /\ Running) /\ [Next]_vars => RunTyped'
<1> SUFFICES ASSUME (TypeOK /\ OneOpen /\ Ordered /\ Running), [Next]_vars PROVE RunTyped'
  OBVIOUS
<1>a. IssuesTyped /\ BranchTyped /\ PullsTyped /\ RunTyped /\ ChecksTyped /\ CountsTyped
  BY TypeParts
<1>b. /\ Len(issues) \in Nat /\ Len(prs) \in Nat /\ heads \in Nat
      /\ Len(issues) <= Len(issues') /\ Len(prs) <= Len(prs') /\ heads <= heads'
      /\ Len(issues') \in Nat /\ Len(prs') \in Nat /\ heads' \in Nat
  <2>1. IssuesTyped' /\ IssuesGrow /\ BranchTyped' /\ heads <= heads' /\ PullsTyped' /\ PullsGrow
    BY <1>a, IssuesStep, BranchStep, PullsStep
  <2> QED
    BY <1>a, <2>1, LenProperties DEF IssuesTyped, IssuesGrow, BranchTyped, PullsTyped, PullsGrow
<1>c. /\ run' = run => RunTyped'
      /\ Stop => RunTyped'
      /\ \A step \in Steps : Proceed(step) => RunTyped'
  BY <1>a, <1>b, RunMoves
<1>1. CASE Run
  <2>1. CASE Begin
    <3>1. run' = [Idle EXCEPT !.at = "find", !.base = pin, !.version = latest]
      BY <2>1 DEF Begin
    <3>2. "find" \in Steps /\ pin \in 0..MaxVersion /\ latest \in 0..MaxVersion
      BY <1>a DEF Steps, CountsTyped
    <3> QED
      BY <1>a, <1>b, <3>1, <3>2, RunMoves
  <2>2. CASE FindPending
    <3>1. CASE Proceed("source")
      BY <1>c, <3>1 DEF Steps
    <3>2. CASE Stop
      BY <1>c, <3>2
    <3>3. CASE \E p \in PendingPulls : run' = [run EXCEPT !.at = "redispatch", !.issue = prs[p].issue,
                                                        !.pr = p, !.head = prs[p].head]
      <4>1. PICK p \in Pulls : run' = [run EXCEPT !.at = "redispatch", !.issue = prs[p].issue,
                                                !.pr = p, !.head = prs[p].head]
        BY <3>3 DEF PendingPulls, OpenPulls
      <4>2. prs[p] \in Pull(Len(issues), heads)
        BY <1>a, ElementOfSeq DEF PullsTyped, Pulls
      <4>3. prs[p].issue \in 0..Len(issues') /\ prs[p].head \in 0..heads' /\ p \in 0..Len(prs')
        BY <1>b, <4>2 DEF Pull, Pulls
      <4>4. "redispatch" \in Steps
        BY DEF Steps
      <4> QED
        BY <1>a, <1>b, <4>1, <4>3, <4>4, RunMoves
    <3> QED
      BY <2>2, <3>1, <3>2, <3>3 DEF FindPending
  <2>3. CASE Source
    <3>1. CASE \E i \in 0..Len(issues') : run' = [run EXCEPT !.at = "branch", !.issue = i]
      <4>1. "branch" \in Steps
        BY DEF Steps
      <4> QED
        BY <1>a, <1>b, <3>1, <4>1, RunMoves
    <3>2. CASE Stop
      BY <1>c, <3>2
    <3>3. CASE Found = {}
      <4>1. issues' = Append(issues, [version |-> run.version, open |-> TRUE, task |-> TRUE, indexed |-> FALSE])
            /\ run' = [run EXCEPT !.at = "branch", !.issue = Len(issues) + 1]
        BY <2>3, <3>3 DEF Source
      <4>2. Len(issues') = Len(issues) + 1
        <5> DEFINE row == [version |-> run.version, open |-> TRUE, task |-> TRUE, indexed |-> FALSE]
        <5>1. issues \in Seq(Issue \union {row}) /\ row \in Issue \union {row} /\ issues' = Append(issues, row)
          BY <1>a, <4>1, SeqMonotonic DEF IssuesTyped
        <5> HIDE DEF row
        <5> QED
          BY <5>1, AppendProperties
      <4>3. Len(issues) + 1 \in 0..Len(issues')
        BY <1>b, <4>2
      <4> QED
        BY <3>1, <4>1, <4>3
    <3>4. CASE Found # {}
      <4>1. \A i \in Found : i \in 0..Len(issues')
        BY <1>b DEF Found, Numbers
      <4> QED
        BY <2>3, <3>1, <3>2, <3>4, <4>1 DEF Source
    <3> QED
      BY <3>3, <3>4
  <2>4. CASE StartBranch
    <3>1. "push" \in Steps
      BY DEF Steps
    <3> QED
      BY <2>4, <1>c, <3>1 DEF StartBranch
  <2>5. CASE Push
    <3>1. CASE heads' = heads + 1 /\ run' = [run EXCEPT !.at = "create", !.head = heads + 1]
      <4>1. "create" \in Steps /\ heads + 1 \in 0..heads'
        BY <1>b, <3>1 DEF Steps
      <4> QED
        BY <1>a, <1>b, <3>1, <4>1, RunMoves
    <3>2. CASE Stop
      BY <1>c, <3>2
    <3> QED
      BY <2>5, <3>1, <3>2 DEF Push, Commit
  <2>6. CASE CreatePR
    <3>1. CASE \E row : prs' = Append(prs, row) /\ run' = [run EXCEPT !.at = "wait", !.pr = Len(prs) + 1]
      <4>1. Len(prs) + 1 <= Len(prs')
        <5>1. PICK row : prs' = Append(prs, row)
          BY <3>1
        <5>2. prs \in Seq(Pull(Len(issues), heads) \union {row}) /\ row \in Pull(Len(issues), heads) \union {row}
          BY <1>a, SeqMonotonic DEF PullsTyped
        <5> QED
          BY <1>b, <5>1, <5>2, AppendProperties
      <4>2. "wait" \in Steps /\ Len(prs) + 1 \in 0..Len(prs')
        BY <1>b, <4>1 DEF Steps
      <4> QED
        BY <1>a, <1>b, <3>1, <4>2, RunMoves
    <3>2. CASE Stop
      BY <1>c, <3>2
    <3> QED
      BY <2>6, <3>1, <3>2 DEF CreatePR
  <2>7. CASE Redispatch
    <3>1. "wait" \in Steps
      BY DEF Steps
    <3> QED
      BY <2>7, <1>c, <3>1 DEF Redispatch
  <2>8. CASE WaitChecks
    <3>1. CASE Proceed("reverify")
      BY <1>c, <3>1 DEF Steps
    <3>2. CASE Stop
      BY <1>c, <3>2
    <3>3. CASE run' = [Idle EXCEPT !.failed = FailedChecks]
      <4>1. FailedChecks \subseteq Checks
        BY DEF FailedChecks, Failed, WrongWorkflow
      <4> QED
        BY <1>b, <3>3, <4>1, BoundsAssumption DEF Idle, RunTyped, Steps
    <3> QED
      BY <2>8, <3>1, <3>2, <3>3 DEF WaitChecks
  <2>9. CASE Reverify
    <3>1. CASE \E step \in {"smoke", "review"} : run' = [run EXCEPT !.at = step, !.looked = heads]
      <4>1. heads \in 0..heads' /\ {"smoke", "review"} \subseteq Steps
        BY <1>b DEF Steps
      <4> QED
        BY <1>a, <1>b, <3>1, <4>1, RunMoves
    <3>2. CASE Stop
      BY <1>c, <3>2
    <3> QED
      BY <2>9, <3>1, <3>2 DEF Reverify, Reverified
  <2>10. CASE DispatchSmoke
    <3>1. CASE run' = [run EXCEPT !.at = "smoking", !.taken = branch[run.issue]]
      <4>1. run.issue \in Numbers /\ "smoking" \in Steps
        BY <2>10 DEF DispatchSmoke, Running, Proposed, Steps
      <4>2. branch[run.issue] \in 0..heads
        BY <1>a, <4>1, ElementOfSeq DEF BranchTyped, Numbers
      <4>3. branch[run.issue] \in 0..heads'
        BY <1>b, <4>2
      <4> QED
        BY <1>a, <1>b, <3>1, <4>1, <4>3, RunMoves
    <3>2. CASE Stop
      BY <1>c, <3>2
    <3> QED
      BY <2>10, <3>1, <3>2 DEF DispatchSmoke
  <2>11. CASE FinishSmoke
    <3>1. CASE run' = [run EXCEPT !.at = "again", !.smoked = run.head]
      <4>1. run.head \in 0..heads'
        BY <1>a, <1>b DEF RunTyped
      <4> QED
        BY <1>a, <1>b, <3>1, <4>1, RunMoves DEF Steps
    <3>2. CASE Stop
      BY <1>c, <3>2
    <3> QED
      BY <2>11, <3>1, <3>2 DEF FinishSmoke
  <2>12. CASE DispatchReview
    <3>1. run' = [Idle EXCEPT !.reviewed = branch[run.issue]] /\ run.issue \in Numbers
      BY <2>12 DEF DispatchReview, Running, Proposed
    <3>2. branch[run.issue] \in 0..heads
      BY <1>a, <3>1, ElementOfSeq DEF BranchTyped, Numbers
    <3>3. branch[run.issue] \in 0..heads'
      BY <1>b, <3>2
    <3> QED
      BY <1>b, <3>1, <3>3, BoundsAssumption DEF Idle, RunTyped, Steps
  <2>13. CASE TimeOut
    BY <2>13, <1>c DEF TimeOut
  <2> QED
    BY <1>1, <2>1, <2>2, <2>3, <2>4, <2>5, <2>6, <2>7, <2>8, <2>9, <2>10, <2>11, <2>12, <2>13
       DEF Run
<1>2. CASE Die
  BY <1>2, <1>c DEF Die
<1>3. CASE Release
  BY <1>3, <1>c DEF Release
<1>4. CASE Index
  BY <1>4, <1>c DEF Index
<1>5. CASE CheckMoves
  BY <1>5, <1>c DEF CheckMoves
<1>6. CASE People
  <2> UNCHANGED <<latest, run>>
    BY <1>6 DEF People
  <2>1. ASSUME NEW p \in Pulls, PushCommit(p) PROVE RunTyped'
    BY <2>1, <1>c DEF PushCommit
  <2>2. ASSUME NEW p \in Pulls, EditBody(p) PROVE RunTyped'
    BY <2>2, <1>c DEF EditBody
  <2>3. ASSUME NEW p \in Pulls, ClosePR(p) PROVE RunTyped'
    BY <2>3, <1>c DEF ClosePR
  <2>4. ASSUME NEW p \in Pulls, MergePR(p) PROVE RunTyped'
    BY <2>4, <1>c DEF MergePR
  <2>5. ASSUME NEW i \in Numbers, ToggleIssue(i) PROVE RunTyped'
    BY <2>5, <1>c DEF ToggleIssue
  <2>6. ASSUME NEW i \in Numbers, RetypeIssue(i) PROVE RunTyped'
    BY <2>6, <1>c DEF RetypeIssue
  <2>7. ASSUME NEW i \in Numbers, DeleteBranch(i) PROVE RunTyped'
    BY <2>7, <1>c DEF DeleteBranch
  <2> QED
    BY <1>6, <2>1, <2>2, <2>3, <2>4, <2>5, <2>6, <2>7 DEF People
<1>7. CASE UNCHANGED vars
  BY <1>7, <1>c DEF vars
<1> QED
  BY <1>1, <1>2, <1>3, <1>4, <1>5, <1>6, <1>7 DEF Next

(* Pins and releases stay within the releases. *)
LEMMA CountsStep == (CountsTyped /\ PullsTyped /\ IssuesTyped) /\ [Next]_vars => CountsTyped'
<1> SUFFICES ASSUME (CountsTyped /\ PullsTyped /\ IssuesTyped), [Next]_vars PROVE CountsTyped'
  OBVIOUS
<1> USE DEF CountsTyped
<1> USE BoundsAssumption
<1>1. CASE Run
  <2>1. CASE Begin
    BY <2>1 DEF Begin, remote, ci
  <2>2. CASE FindPending
    BY <2>2 DEF FindPending, remote, ci
  <2>3. CASE Source
    BY <2>3 DEF Source, remote, ci
  <2>4. CASE StartBranch
    BY <2>4 DEF StartBranch, remote, ci
  <2>5. CASE Push
    BY <2>5 DEF Push, remote, ci, Commit
  <2>6. CASE CreatePR
    BY <2>6 DEF CreatePR, remote, ci
  <2>7. CASE Redispatch
    BY <2>7 DEF Redispatch, remote, ci
  <2>8. CASE WaitChecks
    BY <2>8 DEF WaitChecks, remote, ci
  <2>9. CASE Reverify
    BY <2>9 DEF Reverify, remote, ci
  <2>10. CASE DispatchSmoke
    BY <2>10 DEF DispatchSmoke, remote, ci
  <2>11. CASE FinishSmoke
    BY <2>11 DEF FinishSmoke, remote, ci
  <2>12. CASE DispatchReview
    BY <2>12 DEF DispatchReview, remote, ci
  <2>13. CASE TimeOut
    BY <2>13 DEF TimeOut, remote, ci
  <2> QED
    BY <1>1, <2>1, <2>2, <2>3, <2>4, <2>5, <2>6, <2>7, <2>8, <2>9, <2>10, <2>11, <2>12, <2>13
       DEF Run
<1>2. CASE Die
  BY <1>2 DEF Die, remote, ci
<1>3. CASE Release
  BY <1>3 DEF Release, remote, ci
<1>4. CASE Index
  BY <1>4 DEF Index, remote, ci
<1>5. CASE CheckMoves
  BY <1>5 DEF CheckMoves, remote, ci
<1>6. CASE People
  <2>1. latest' = latest /\ incidents' \in 0..MaxIncidents
    BY <1>6 DEF People
  <2>2. ASSUME NEW p \in Pulls, MergePR(p) PROVE pin' \in 0..MaxVersion
    <3>1. prs[p] \in Pull(Len(issues), heads)
      BY ElementOfSeq DEF PullsTyped, Pulls
    <3>2. prs[p].issue \in Numbers
      BY <3>1 DEF Pull, Numbers
    <3>3. issues[prs[p].issue] \in Issue
      BY <3>2, ElementOfSeq DEF IssuesTyped, Numbers
    <3> QED
      BY <2>2, <3>3 DEF MergePR, VersionOf, Issue, Version
  <2>3. (\E p \in Pulls : MergePR(p)) \/ pin' = pin
    BY <1>6 DEF People, PushCommit, EditBody, ClosePR, ToggleIssue, RetypeIssue, DeleteBranch
  <2> QED
    BY <2>1, <2>2, <2>3
<1>7. CASE UNCHANGED vars
  BY <1>7 DEF vars, remote, ci
<1> QED
  BY <1>1, <1>2, <1>3, <1>4, <1>5, <1>6, <1>7 DEF Next

(* The checks and the history of green commits stay typed. *)
LEMMA ChecksStep ==
  (ChecksTyped /\ BranchTyped /\ PullsTyped /\ OneOpen) /\ [Next]_vars
    => ChecksTyped'
<1> SUFFICES ASSUME (ChecksTyped /\ BranchTyped /\ PullsTyped /\ OneOpen), [Next]_vars
             PROVE  ChecksTyped'
  OBVIOUS
<1>a. heads \in Nat
  BY DEF BranchTyped
<1>b. Unchecked \in [Checks -> Status]
  BY DEF Unchecked, Status
<1>c. ASSUME checks' = checks, green' = green, heads' = heads PROVE ChecksTyped'
  BY <1>c DEF ChecksTyped
<1>d. ASSUME checks' = Unchecked, heads' \in {heads, heads + 1}, green' \subseteq green PROVE ChecksTyped'
  BY <1>a, <1>b, <1>d DEF ChecksTyped
<1>1. CASE Run
  <2>1. CASE Begin
    BY <2>1, <1>c DEF Begin, remote, ci
  <2>2. CASE FindPending
    BY <2>2, <1>c DEF FindPending, remote, ci
  <2>3. CASE Source
    BY <2>3, <1>c DEF Source, remote, ci
  <2>4. CASE StartBranch
    BY <2>4, <1>c DEF StartBranch, remote, ci
  <2>5. CASE Push
    BY <2>5, <1>d, <1>c DEF Push, remote, ci, Commit, Forget
  <2>6. CASE CreatePR
    BY <2>6, <1>c DEF CreatePR, remote, ci
  <2>7. CASE Redispatch
    BY <2>7, <1>c DEF Redispatch, remote, ci
  <2>8. CASE WaitChecks
    BY <2>8, <1>c DEF WaitChecks, remote, ci
  <2>9. CASE Reverify
    BY <2>9, <1>c DEF Reverify, remote, ci
  <2>10. CASE DispatchSmoke
    BY <2>10, <1>c DEF DispatchSmoke, remote, ci
  <2>11. CASE FinishSmoke
    BY <2>11, <1>c DEF FinishSmoke, remote, ci
  <2>12. CASE DispatchReview
    BY <2>12, <1>c DEF DispatchReview, remote, ci
  <2>13. CASE TimeOut
    BY <2>13, <1>c DEF TimeOut, remote, ci
  <2> QED
    BY <1>1, <2>1, <2>2, <2>3, <2>4, <2>5, <2>6, <2>7, <2>8, <2>9, <2>10, <2>11, <2>12, <2>13
       DEF Run
<1>2. CASE Die
  BY <1>2, <1>c DEF Die, remote, ci
<1>3. CASE Release
  BY <1>3, <1>c DEF Release, remote, ci
<1>4. CASE Index
  BY <1>4, <1>c DEF Index, remote, ci
<1>5. CASE CheckMoves
  <2>1. PICK p \in OpenPulls : TRUE
    BY <1>5 DEF CheckMoves
  <2>2. heads \in 1..heads
    <3>1. prs[p] \in Pull(Len(issues), heads) /\ prs[p].head = heads
      BY ElementOfSeq DEF PullsTyped, OpenPulls, Pulls, OneOpen
    <3> QED
      BY <1>a, <3>1 DEF Pull
  <2>3. PICK c \in Checks : \E to \in Following(checks[c]) : checks' = [checks EXCEPT ![c] = to]
    BY <1>5 DEF CheckMoves
  <2>4. checks' \in [Checks -> Status]
    BY <2>3 DEF ChecksTyped, Following, Status
  <2>5. heads' = heads /\ green' \subseteq green \union {heads}
    BY <1>5 DEF CheckMoves, remote
  <2> QED
    BY <1>a, <2>2, <2>4, <2>5 DEF ChecksTyped
<1>6. CASE People
  <2> UNCHANGED <<latest, run>>
    BY <1>6 DEF People
  <2>1. ASSUME NEW p \in Pulls, PushCommit(p) PROVE ChecksTyped'
    BY <2>1, <1>d, <1>c DEF PushCommit, remote, ci, Commit, Forget
  <2>2. ASSUME NEW p \in Pulls, EditBody(p) PROVE ChecksTyped'
    BY <2>2, <1>c DEF EditBody, remote, ci
  <2>3. ASSUME NEW p \in Pulls, ClosePR(p) PROVE ChecksTyped'
    BY <2>3, <1>d, <1>c DEF ClosePR, remote, ci, Forget
  <2>4. ASSUME NEW p \in Pulls, MergePR(p) PROVE ChecksTyped'
    BY <2>4, <1>d, <1>c DEF MergePR, remote, ci, Forget
  <2>5. ASSUME NEW i \in Numbers, ToggleIssue(i) PROVE ChecksTyped'
    BY <2>5, <1>c DEF ToggleIssue, remote, ci
  <2>6. ASSUME NEW i \in Numbers, RetypeIssue(i) PROVE ChecksTyped'
    BY <2>6, <1>c DEF RetypeIssue, remote, ci
  <2>7. ASSUME NEW i \in Numbers, DeleteBranch(i) PROVE ChecksTyped'
    BY <2>7, <1>d, <1>c DEF DeleteBranch, remote, ci, Forget
  <2> QED
    BY <1>6, <2>1, <2>2, <2>3, <2>4, <2>5, <2>6, <2>7 DEF People
<1>7. CASE UNCHANGED vars
  BY <1>7, <1>c DEF vars, remote, ci
<1> QED
  BY <1>1, <1>2, <1>3, <1>4, <1>5, <1>6, <1>7 DEF Next

(* The types, and what only grows. *)
Grown ==
  /\ TypeOK' /\ IssuesGrow /\ PullsGrow /\ heads <= heads'
  /\ Len(issues) \in Nat /\ Len(prs) \in Nat /\ heads \in Nat /\ heads' \in Nat
  /\ \A p \in Pulls : prs[p] \in Pull(Len(issues), heads) /\ prs[p].issue \in Numbers
  /\ \A p \in Pulls' : prs'[p] \in Pull(Len(issues'), heads')
  /\ \A i \in Numbers : issues[i] \in Issue /\ branch[i] \in 0..heads
  /\ \A p \in Pulls : p \in Pulls' /\ VersionOf(p)' = VersionOf(p) /\ VersionOf(p) \in Version
LEMMA TypeStep == (TypeOK /\ OneOpen /\ Ordered /\ Running) /\ [Next]_vars => Grown
<1> SUFFICES ASSUME TypeOK, OneOpen, Ordered, Running, [Next]_vars PROVE Grown
  OBVIOUS
<1>1. IssuesTyped /\ BranchTyped /\ PullsTyped /\ RunTyped /\ ChecksTyped /\ CountsTyped
  BY TypeParts
<1>2. /\ IssuesTyped' /\ BranchTyped' /\ PullsTyped' /\ RunTyped' /\ ChecksTyped' /\ CountsTyped'
      /\ IssuesGrow /\ PullsGrow /\ heads <= heads'
  BY <1>1, IssuesStep, BranchStep, PullsStep, RunStep, ChecksStep, CountsStep
<1>3. TypeOK'
  BY <1>2 DEF TypeOK, IssuesTyped, BranchTyped, PullsTyped, RunTyped, ChecksTyped, CountsTyped, Issue,
              Pull, Numbers
<1>4. Len(issues) \in Nat /\ Len(prs) \in Nat /\ heads \in Nat /\ heads' \in Nat
      /\ Pulls = 1..Len(prs) /\ Numbers = 1..Len(issues) /\ Pulls' = 1..Len(prs')
      /\ Len(prs') \in Nat /\ Len(branch) = Len(issues)
  BY <1>1, <1>2, LenProperties DEF IssuesTyped, BranchTyped, PullsTyped, Pulls, Numbers
<1>5. \A p \in Pulls : prs[p] \in Pull(Len(issues), heads)
  BY <1>1, <1>4, ElementOfSeq DEF PullsTyped
<1>6. \A p \in Pulls : prs[p].issue \in Numbers
  BY <1>4, <1>5 DEF Pull
<1>7. \A p \in Pulls' : prs'[p] \in Pull(Len(issues'), heads')
  BY <1>2, <1>4, ElementOfSeq DEF PullsTyped
<1>8. \A i \in Numbers : issues[i] \in Issue /\ branch[i] \in 0..heads
  BY <1>1, <1>4, ElementOfSeq DEF IssuesTyped, BranchTyped
<1>9. \A p \in Pulls : p \in Pulls' /\ VersionOf(p)' = VersionOf(p) /\ VersionOf(p) \in Version
  <2> SUFFICES ASSUME NEW p \in Pulls
               PROVE  p \in Pulls' /\ VersionOf(p)' = VersionOf(p) /\ VersionOf(p) \in Version
    OBVIOUS
  <2>1. Len(prs) <= Len(prs') /\ prs'[p].issue = prs[p].issue
    BY <1>2 DEF PullsGrow
  <2>2. issues'[prs[p].issue].version = issues[prs[p].issue].version
    BY <1>2, <1>6 DEF IssuesGrow
  <2>3. issues[prs[p].issue].version \in Version
    BY <1>6, <1>8 DEF Issue
  <2> QED
    BY <1>4, <2>1, <2>2, <2>3 DEF VersionOf
<1> QED
  BY <1>2, <1>3, <1>4, <1>5, <1>6, <1>7, <1>8, <1>9 DEF Grown

(* What happens to the pull requests in a step: none, a new one, or one that was open. *)
Opened == [issue |-> run.issue, state |-> "open", head |-> branch[run.issue], intact |-> TRUE]
Created ==
  /\ Len(prs') = Len(prs) + 1 /\ prs'[Len(prs) + 1] = Opened
  /\ \A p \in Pulls : prs'[p] = prs[p]
LEMMA NewPull ==
  ASSUME PullsTyped, CreatePR, branch[run.issue] # 0
  PROVE  Created
<1>1. prs' = Append(prs, Opened)
  BY DEF CreatePR, Opened
<1>2. prs \in Seq(Pull(Len(issues), heads) \union {Opened}) /\ Opened \in Pull(Len(issues), heads) \union {Opened}
  BY SeqMonotonic DEF PullsTyped
<1>3. Pulls = 1..Len(prs)
  BY DEF Pulls
<1> HIDE DEF Opened
<1> QED
  BY <1>1, <1>2, <1>3, AppendProperties DEF Created

(* An open pull request of which people change what it says, its head or its state. *)
LEMMA PeopleMoves ==
  ASSUME TypeOK, Grown, NEW p \in Pulls
  PROVE  /\ PushCommit(p) => PullEdited(p, [prs[p] EXCEPT !.head = heads + 1]) /\ Tip(prs[p].issue)
         /\ EditBody(p)   => PullEdited(p, [prs[p] EXCEPT !.intact = ~@])
         /\ ClosePR(p)    => PullEdited(p, [prs[p] EXCEPT !.state = "closed"])
         /\ MergePR(p)    => PullEdited(p, [prs[p] EXCEPT !.state = "merged"])
<1>1. BranchTyped /\ PullsTyped /\ prs[p].issue \in Numbers
  BY TypeParts DEF Grown
<1>2. PushCommit(p) => Tip(prs[p].issue) /\ heads' = heads + 1
  BY <1>1, Committed DEF PushCommit, Tip
<1>3. prs \in Seq(Pull(Len(issues), heads + 1)) /\ heads + 1 \in 1..(heads + 1)
  <2>1. heads \in Nat /\ Pull(Len(issues), heads) \subseteq Pull(Len(issues), heads + 1)
    BY DEF Grown, Pull
  <2> QED
    BY <1>1, <2>1, SeqMonotonic DEF PullsTyped
<1> QED
  BY <1>2, <1>3, PeopleEdit

(* One pull request is open at a time, and it has the last commit. *)
LEMMA OneOpenStep == (TypeOK /\ OneOpen /\ Ordered /\ Running) /\ [Next]_vars => OneOpen'
<1> SUFFICES ASSUME (TypeOK /\ OneOpen /\ Ordered /\ Running), [Next]_vars PROVE OneOpen'
  OBVIOUS
<1>a. Grown /\ BranchTyped /\ PullsTyped
  BY TypeStep, TypeParts
<1> USE DEF Grown
<1>o. \A p : p \in OpenPulls <=> p \in Pulls /\ prs[p].state = "open"
  BY DEF OpenPulls
<1>n. \A p : p \in OpenPulls' <=> p \in Pulls' /\ prs'[p].state = "open"
  BY DEF OpenPulls
<1>c. ASSUME prs' = prs, branch' = branch, heads' = heads PROVE OneOpen'
  BY <1>c DEF OneOpen, OpenPulls, Pulls
<1>d. ASSUME prs' = prs, OpenPulls = {} PROVE OneOpen'
  BY <1>d DEF OneOpen, OpenPulls, Pulls
<1>1. CASE Run
  <2>1. CASE Begin
    BY <2>1, <1>c DEF Begin, remote, ci
  <2>2. CASE FindPending
    BY <2>2, <1>c DEF FindPending, remote, ci
  <2>3. CASE Source
    <3>1. OpenPulls = {} /\ prs' = prs
      BY <2>3 DEF Source, Running, Proposing
    <3> QED
      BY <3>1, <1>d
  <2>4. CASE StartBranch
    BY <2>4, <1>c DEF StartBranch, remote, ci
  <2>5. CASE Push
    <3>1. OpenPulls = {} /\ prs' = prs
      BY <2>5 DEF Push, Running, Proposing
    <3> QED
      BY <3>1, <1>d
  <2>6. CASE CreatePR
    <3>1. run.at = "create" /\ OpenPulls = {} /\ branch[run.issue] \in {0, heads}
      BY <2>6 DEF CreatePR, Running, Proposing
    <3>2. CASE branch[run.issue] = 0
      BY <2>6, <3>2, <1>c DEF CreatePR
    <3>3. CASE branch[run.issue] # 0
      <4>1. Created /\ branch' = branch /\ heads' = heads
        BY <2>6, <1>a, <3>3, NewPull DEF CreatePR
      <4>2. Pulls' = Pulls \union {Len(prs) + 1}
        BY <1>a, <4>1 DEF Created, Pulls
      <4>3. Opened.state = "open" /\ Opened.head = heads /\ Opened.issue = run.issue
        BY <3>1, <3>3 DEF Opened
      <4>4. \A p \in OpenPulls' : p = Len(prs) + 1
        BY <1>o, <1>n, <3>1, <4>1, <4>2 DEF Created
      <4> QED
        BY <3>1, <3>3, <4>1, <4>3, <4>4 DEF OneOpen, Created
    <3> QED
      BY <3>2, <3>3
  <2>7. CASE Redispatch
    BY <2>7, <1>c DEF Redispatch, remote, ci
  <2>8. CASE WaitChecks
    BY <2>8, <1>c DEF WaitChecks, remote, ci
  <2>9. CASE Reverify
    BY <2>9, <1>c DEF Reverify, remote, ci
  <2>10. CASE DispatchSmoke
    BY <2>10, <1>c DEF DispatchSmoke, remote, ci
  <2>11. CASE FinishSmoke
    BY <2>11, <1>c DEF FinishSmoke, remote, ci
  <2>12. CASE DispatchReview
    BY <2>12, <1>c DEF DispatchReview, remote, ci
  <2>13. CASE TimeOut
    BY <2>13, <1>c DEF TimeOut, remote, ci
  <2> QED
    BY <1>1, <2>1, <2>2, <2>3, <2>4, <2>5, <2>6, <2>7, <2>8, <2>9, <2>10, <2>11, <2>12, <2>13
       DEF Run
<1>2. CASE Die
  BY <1>2, <1>c DEF Die, remote, ci
<1>3. CASE Release
  BY <1>3, <1>c DEF Release, remote, ci
<1>4. CASE Index
  BY <1>4, <1>c DEF Index, remote, ci
<1>5. CASE CheckMoves
  BY <1>5, <1>c DEF CheckMoves, remote, ci
<1>6. CASE People
  <2> UNCHANGED <<latest, run>>
    BY <1>6 DEF People
  <2>1. ASSUME NEW p \in Pulls, PushCommit(p) PROVE OneOpen'
    <3>1. PullEdited(p, [prs[p] EXCEPT !.head = heads + 1]) /\ Tip(prs[p].issue) /\ Pulls' = Pulls
      BY <2>1, <1>a, PeopleMoves DEF PullEdited, Pulls
    <3>2. prs[p] \in Pull(Len(issues), heads) /\ prs[p].issue \in Numbers
      BY <1>a
    <3>3. prs'[p].issue = prs[p].issue /\ prs'[p].head = heads + 1
      BY <3>1, <3>2 DEF PullEdited, Pull
    <3>4. heads' = heads + 1 /\ branch'[prs[p].issue] = heads + 1
      BY <3>1, <3>2 DEF Tip
    <3>5. \A q \in OpenPulls' : q = p
      <4>1. prs[p].state = "open"
        BY <2>1 DEF PushCommit
      <4>2. \A q \in OpenPulls' : q = p \/ (q \in Pulls /\ prs[q].state = "open")
        BY <1>n, <3>1 DEF PullEdited
      <4> QED
        BY <1>o, <4>1, <4>2 DEF OneOpen
    <3> QED
      BY <3>3, <3>4, <3>5 DEF OneOpen
  <2>2. ASSUME NEW p \in Pulls, EditBody(p) PROVE OneOpen'
    <3>1. PullEdited(p, [prs[p] EXCEPT !.intact = ~@]) /\ Pulls' = Pulls /\ heads' = heads /\ branch' = branch
      BY <2>2, <1>a, PeopleMoves DEF EditBody, PullEdited, Pulls
    <3>2. prs[p] \in Pull(Len(issues), heads)
      BY <1>a
    <3>3. \A q \in Pulls : prs'[q].issue = prs[q].issue /\ prs'[q].head = prs[q].head
                           /\ (prs'[q].state = "open" => prs[q].state = "open")
      BY <3>1, <3>2 DEF PullEdited, Pull
    <3> QED
      BY <1>o, <1>n, <3>1, <3>3 DEF OneOpen
  <2>3. ASSUME NEW p \in Pulls, ClosePR(p) PROVE OneOpen'
    <3>1. PullEdited(p, [prs[p] EXCEPT !.state = "closed"]) /\ Pulls' = Pulls /\ heads' = heads /\ branch' = branch
      BY <2>3, <1>a, PeopleMoves DEF ClosePR, PullEdited, Pulls
    <3>2. prs[p] \in Pull(Len(issues), heads)
      BY <1>a
    <3>3. \A q \in Pulls : prs'[q].issue = prs[q].issue /\ prs'[q].head = prs[q].head
                           /\ (prs'[q].state = "open" => prs[q].state = "open")
      BY <3>1, <3>2 DEF PullEdited, Pull
    <3> QED
      BY <1>o, <1>n, <3>1, <3>3 DEF OneOpen
  <2>4. ASSUME NEW p \in Pulls, MergePR(p) PROVE OneOpen'
    <3>1. PullEdited(p, [prs[p] EXCEPT !.state = "merged"]) /\ Pulls' = Pulls /\ heads' = heads /\ branch' = branch
      BY <2>4, <1>a, PeopleMoves DEF MergePR, PullEdited, Pulls
    <3>2. prs[p] \in Pull(Len(issues), heads)
      BY <1>a
    <3>3. \A q \in Pulls : prs'[q].issue = prs[q].issue /\ prs'[q].head = prs[q].head
                           /\ (prs'[q].state = "open" => prs[q].state = "open")
      BY <3>1, <3>2 DEF PullEdited, Pull
    <3> QED
      BY <1>o, <1>n, <3>1, <3>3 DEF OneOpen
  <2>5. ASSUME NEW i \in Numbers, ToggleIssue(i) PROVE OneOpen'
    BY <2>5, <1>c DEF ToggleIssue, remote, ci
  <2>6. ASSUME NEW i \in Numbers, RetypeIssue(i) PROVE OneOpen'
    BY <2>6, <1>c DEF RetypeIssue, remote, ci
  <2>7. ASSUME NEW i \in Numbers, DeleteBranch(i) PROVE OneOpen'
    <3>1. PullsDropped(i) /\ branch' = [branch EXCEPT ![i] = 0] /\ heads' = heads /\ Pulls' = Pulls
      BY <2>7, <1>a, Deleted DEF DeleteBranch, PullsTyped, PullsDropped, Pulls
    <3>2. \A q \in OpenPulls' : q \in OpenPulls /\ prs'[q] = prs[q] /\ prs[q].issue # i
      <4> SUFFICES ASSUME NEW q \in OpenPulls' PROVE q \in OpenPulls /\ prs'[q] = prs[q] /\ prs[q].issue # i
        OBVIOUS
      <4>1. q \in Pulls /\ prs'[q].state = "open" /\ prs[q] \in Pull(Len(issues), heads)
        BY <1>a, <1>n, <3>1
      <4>2. [prs[q] EXCEPT !.state = "closed"].state = "closed"
        BY <4>1 DEF Pull
      <4> QED
        BY <1>o, <3>1, <4>1, <4>2 DEF PullsDropped
    <3>3. \A q \in OpenPulls' : branch'[prs[q].issue] = branch[prs[q].issue]
      BY <1>a, <1>o, <3>1, <3>2 DEF BranchTyped
    <3> QED
      BY <3>1, <3>2, <3>3 DEF OneOpen
  <2> QED
    BY <1>6, <2>1, <2>2, <2>3, <2>4, <2>5, <2>6, <2>7 DEF People
<1>7. CASE UNCHANGED vars
  BY <1>7, <1>c DEF vars, remote, ci
<1> QED
  BY <1>1, <1>2, <1>3, <1>4, <1>5, <1>6, <1>7 DEF Next

(* No step of people opens a pull request, and only a merge merges one. *)
NoneOpened  == Pulls' = Pulls /\ \A q \in Pulls : prs'[q].state = "open" => prs[q].state = "open"
MergedOf(S) == \A q \in Pulls : prs'[q].state = "merged" => prs[q].state = "merged" \/ q \in S
LEMMA PeopleStates ==
  ASSUME TypeOK, Grown
  PROVE  /\ \A p \in Pulls : PushCommit(p) \/ EditBody(p) \/ ClosePR(p) => NoneOpened /\ MergedOf({})
         /\ \A p \in Pulls : MergePR(p) => NoneOpened /\ MergedOf({p}) /\ prs[p].state = "open" /\ prs'[p].state = "merged"
         /\ \A i \in Numbers : DeleteBranch(i) => NoneOpened /\ MergedOf({})
<1>1. \A q \in Pulls : prs[q] \in Pull(Len(issues), heads)
  BY DEF Grown
<1>2. ASSUME NEW p \in Pulls, PushCommit(p) \/ EditBody(p) \/ ClosePR(p) PROVE NoneOpened /\ MergedOf({})
  <2>1. \/ PullEdited(p, [prs[p] EXCEPT !.head = heads + 1])
        \/ PullEdited(p, [prs[p] EXCEPT !.intact = ~@])
        \/ PullEdited(p, [prs[p] EXCEPT !.state = "closed"])
    BY <1>2, PeopleMoves
  <2>2. /\ [prs[p] EXCEPT !.head = heads + 1].state = prs[p].state
        /\ [prs[p] EXCEPT !.intact = ~@].state = prs[p].state
        /\ [prs[p] EXCEPT !.state = "closed"].state = "closed"
    BY <1>1 DEF Pull
  <2> QED
    BY <2>1, <2>2 DEF PullEdited, NoneOpened, MergedOf, Pulls
<1>3. ASSUME NEW p \in Pulls, MergePR(p)
      PROVE  NoneOpened /\ MergedOf({p}) /\ prs[p].state = "open" /\ prs'[p].state = "merged"
  <2>1. PullEdited(p, [prs[p] EXCEPT !.state = "merged"]) /\ prs[p].state = "open"
    BY <1>3, PeopleMoves DEF MergePR
  <2>2. [prs[p] EXCEPT !.state = "merged"].state = "merged"
    BY <1>1 DEF Pull
  <2> QED
    BY <2>1, <2>2 DEF PullEdited, NoneOpened, MergedOf, Pulls
<1>4. ASSUME NEW i \in Numbers, DeleteBranch(i) PROVE NoneOpened /\ MergedOf({})
  <2>1. PullsDropped(i)
    BY <1>4, TypeParts, Deleted DEF PullsTyped
  <2>2. \A q \in Pulls : [prs[q] EXCEPT !.state = "closed"].state = "closed"
    BY <1>1 DEF Pull
  <2> QED
    BY <2>1, <2>2 DEF PullsDropped, NoneOpened, MergedOf, Pulls
<1> QED
  BY <1>2, <1>3, <1>4

(* What a run is after a step of its own. *)
Going(step, issue, pr, head, smoked) ==
  /\ run'.at = step /\ run'.issue = issue /\ run'.pr = pr /\ run'.head = head /\ run'.smoked = smoked
  /\ run'.base = run.base /\ run'.version = run.version /\ run'.reviewed = run.reviewed
LEMMA RunFields ==
  ASSUME RunTyped
  PROVE  /\ Stop => run'.at = "idle"
         /\ \A step : Proceed(step) => Going(step, run.issue, run.pr, run.head, run.smoked)
         /\ \A step, i : run' = [run EXCEPT !.at = step, !.issue = i]
                           => Going(step, i, run.pr, run.head, run.smoked)
         /\ \A step, p : run' = [run EXCEPT !.at = step, !.pr = p]
                           => Going(step, run.issue, p, run.head, run.smoked)
         /\ \A step, h : run' = [run EXCEPT !.at = step, !.head = h]
                           => Going(step, run.issue, run.pr, h, run.smoked)
         /\ \A step, h : run' = [run EXCEPT !.at = step, !.smoked = h]
                           => Going(step, run.issue, run.pr, run.head, h)
         /\ \A step, h : \/ run' = [run EXCEPT !.at = step, !.looked = h]
                        \/ run' = [run EXCEPT !.at = step, !.taken = h]
                           => Going(step, run.issue, run.pr, run.head, run.smoked)
<1>1. Stop => run'.at = "idle"
  BY DEF Stop, Idle
<1>2. \A step : Proceed(step) => Going(step, run.issue, run.pr, run.head, run.smoked)
  BY DEF RunTyped, Proceed, Going
<1> QED
  BY <1>1, <1>2 DEF RunTyped, Going

(* The pin stays between what was merged and what is open, and behind every run. *)
LEMMA OrderedStep == (TypeOK /\ OneOpen /\ Ordered /\ Running) /\ [Next]_vars => Ordered'
<1> SUFFICES ASSUME (TypeOK /\ OneOpen /\ Ordered /\ Running), [Next]_vars PROVE Ordered'
  OBVIOUS
<1>a. Grown /\ BranchTyped /\ PullsTyped
  BY TypeStep, TypeParts
<1> USE DEF Grown
<1>o. \A p : p \in OpenPulls <=> p \in Pulls /\ prs[p].state = "open"
  BY DEF OpenPulls
<1>n. \A p : p \in OpenPulls' <=> p \in Pulls' /\ prs'[p].state = "open"
  BY DEF OpenPulls
<1>t. RunTyped /\ CountsTyped /\ run.base \in Nat /\ run.version \in Nat /\ latest \in Nat /\ pin \in Nat
  BY TypeParts, BoundsAssumption DEF RunTyped, CountsTyped
<1>v. \A p \in Pulls : VersionOf(p) \in Nat
  BY <1>a DEF Version
<1> DEFINE Continues == run'.at = "idle" \/ (run.at # "idle" /\ run'.base = run.base /\ run'.version = run.version)
<1>c. ASSUME Continues, prs' = prs, pin' = pin, latest' \in {latest, latest + 1} PROVE Ordered'
  <2>1. Pulls' = Pulls /\ OpenPulls' = OpenPulls
    BY <1>c DEF Pulls, OpenPulls
  <2>2. \A p \in Pulls : VersionOf(p)' = VersionOf(p)
    BY <1>a
  <2>3. latest <= latest' /\ latest' \in Nat
    BY <1>c, <1>t
  <2>4. \A n \in Nat : n <= latest => n <= latest'
    BY <1>t, <2>3
  <2> QED
    BY <1>c, <1>o, <1>t, <1>v, <2>1, <2>2, <2>4 DEF Ordered
<1>d. /\ run' = run => Continues
      /\ Stop => Continues
      /\ run.at # "idle" =>
           \A step : /\ Proceed(step) => Continues
                     /\ \A i : run' = [run EXCEPT !.at = step, !.issue = i] => Continues
                     /\ \A h : run' = [run EXCEPT !.at = step, !.head = h] => Continues
                     /\ \A h : run' = [run EXCEPT !.at = step, !.smoked = h] => Continues
                     /\ \A p : run' = [run EXCEPT !.at = step, !.pr = p] => Continues
  <2>1. \A step, i, p, h, s : run.at # "idle" /\ Going(step, i, p, h, s) => Continues
    BY DEF Going
  <2>2. (run' = run => Continues) /\ (Stop => Continues)
    BY RunFields, <1>t
  <2> HIDE DEF Continues
  <2> SUFFICES ASSUME run.at # "idle", NEW step
               PROVE  /\ Proceed(step) => Continues
                      /\ \A i : run' = [run EXCEPT !.at = step, !.issue = i] => Continues
                      /\ \A h : run' = [run EXCEPT !.at = step, !.head = h] => Continues
                      /\ \A h : run' = [run EXCEPT !.at = step, !.smoked = h] => Continues
                      /\ \A p : run' = [run EXCEPT !.at = step, !.pr = p] => Continues
    BY <2>2
  <2>3. Proceed(step) => Continues
    BY <1>t, <2>1, RunFields
  <2>4. \A i : run' = [run EXCEPT !.at = step, !.issue = i] => Continues
    BY <1>t, <2>1, RunFields
  <2>5. \A h : run' = [run EXCEPT !.at = step, !.head = h] => Continues
    BY <1>t, <2>1, RunFields
  <2>6. \A h : run' = [run EXCEPT !.at = step, !.smoked = h] => Continues
    BY <1>t, <2>1, RunFields
  <2>7. \A p : run' = [run EXCEPT !.at = step, !.pr = p] => Continues
    BY <1>t, <2>1, RunFields
  <2> QED
    BY <2>3, <2>4, <2>5, <2>6, <2>7
<1>e. ASSUME NoneOpened, MergedOf({}), pin' = pin, latest' = latest, run' = run PROVE Ordered'
  BY <1>a, <1>e, <1>o, <1>n DEF Ordered, NoneOpened, MergedOf
<1>f. ASSUME NEW step PROVE Idle.at = "idle" /\ [Idle EXCEPT !.failed = FailedChecks].at = "idle"
             /\ [Idle EXCEPT !.reviewed = branch[run.issue]].at = "idle"
  BY DEF Idle
<1> HIDE DEF Continues
<1>1. CASE Run
  <2>1. CASE Begin
    <3>1. /\ run'.base = pin /\ run'.version = latest /\ run'.at = "find"
          /\ pin' = pin /\ latest' = latest /\ prs' = prs /\ pin < latest
      BY <2>1, <1>t DEF Begin, Idle, remote
    <3>2. Pulls' = Pulls /\ OpenPulls' = OpenPulls /\ \A p \in Pulls : VersionOf(p)' = VersionOf(p)
      BY <1>a, <3>1 DEF Pulls, OpenPulls
    <3> QED
      BY <1>o, <1>t, <3>1, <3>2 DEF Ordered
  <2>2. CASE FindPending
    <3>1. run.at # "idle" /\ prs' = prs /\ pin' = pin /\ latest' = latest
      BY <2>2 DEF FindPending, remote
    <3>2. \/ Stop \/ Proceed("source")
          \/ \E p \in PendingPulls : run' = [run EXCEPT !.at = "redispatch", !.issue = prs[p].issue,
                                                       !.pr = p, !.head = prs[p].head]
      BY <2>2 DEF FindPending
    <3>3. ASSUME NEW p \in PendingPulls,
                 run' = [run EXCEPT !.at = "redispatch", !.issue = prs[p].issue, !.pr = p, !.head = prs[p].head]
          PROVE  Continues
      BY <1>t, <3>1, <3>3 DEF Continues, RunTyped
    <3>4. Continues
      BY <3>1, <3>2, <3>3, <1>d
    <3> QED
      BY <3>1, <3>4, <1>c
  <2>3. CASE Source
    <3>1. run.at # "idle" /\ prs' = prs /\ pin' = pin /\ latest' = latest
      BY <2>3 DEF Source, ci
    <3>2. Stop \/ \E i : run' = [run EXCEPT !.at = "branch", !.issue = i]
      BY <2>3 DEF Source
    <3> QED
      BY <3>1, <3>2, <1>c, <1>d
  <2>4. CASE StartBranch
    BY <2>4, <1>c, <1>d DEF StartBranch, remote, ci
  <2>5. CASE Push
    <3>1. run.at # "idle" /\ prs' = prs /\ pin' = pin /\ latest' = latest
      BY <2>5 DEF Push, ci
    <3>2. Stop \/ run' = [run EXCEPT !.at = "create", !.head = heads + 1]
      BY <2>5 DEF Push
    <3> QED
      BY <3>1, <3>2, <1>c, <1>d
  <2>6. CASE CreatePR
    <3>1. /\ run.at = "create" /\ run.issue \in Numbers /\ issues[run.issue].version = run.version
          /\ latest' = latest /\ pin' = pin /\ issues' = issues
      BY <2>6 DEF CreatePR, Running
    <3>2. CASE prs' = prs /\ Stop
      BY <3>1, <3>2, <1>c, <1>d
    <3>3. CASE branch[run.issue] # 0
      <4>1. Created /\ run' = [run EXCEPT !.at = "wait", !.pr = Len(prs) + 1]
        BY <2>6, <1>a, <3>3, NewPull DEF CreatePR
      <4>0. PICK n \in Nat : n = Len(prs) + 1
        BY <1>a
      <4>2. Pulls' = Pulls \union {n} /\ n \notin Pulls
        BY <1>a, <4>0, <4>1 DEF Created, Pulls
      <4>3. VersionOf(n)' = run.version
        BY <3>1, <4>0, <4>1 DEF VersionOf, Created, Opened
      <4>4. Continues
        BY <1>d, <3>1, <4>1
      <4>5. \A p \in Pulls : prs'[p] = prs[p]
        BY <4>0, <4>1 DEF Created
      <4>6. prs'[n].state = "open"
        BY <4>0, <4>1 DEF Created, Opened
      <4> HIDE DEF Grown
      <4>7. \A p \in Pulls : VersionOf(p)' = VersionOf(p)
        BY <1>a DEF Grown
      <4>8. pin <= latest /\ run.version <= latest /\ pin <= run.version /\ run.base < run.version
        BY <3>1 DEF Ordered
      <4>9. ASSUME NEW p \in Pulls'
            PROVE  /\ VersionOf(p)' <= latest /\ VersionOf(p)' <= run.version
                   /\ prs'[p].state = "open" => pin <= VersionOf(p)'
                   /\ prs'[p].state = "merged" => VersionOf(p)' <= pin
        <5>1. CASE p \in Pulls
          BY <1>o, <3>1, <4>5, <4>7, <5>1 DEF Ordered
        <5>2. CASE p = n
          BY <1>t, <4>3, <4>6, <4>8, <5>2
        <5> QED
          BY <4>2, <4>9, <5>1, <5>2
      <4> QED
        BY <1>n, <1>t, <3>1, <4>4, <4>8, <4>9 DEF Ordered, Continues
    <3> QED
      BY <2>6, <3>2, <3>3 DEF CreatePR
  <2>7. CASE Redispatch
    BY <2>7, <1>c, <1>d DEF Redispatch, remote, ci
  <2>8. CASE WaitChecks
    <3>1. run.at # "idle" /\ prs' = prs /\ pin' = pin /\ latest' = latest
      BY <2>8 DEF WaitChecks, remote
    <3>2. Proceed("reverify") \/ run'.at = "idle"
      BY <2>8, <1>f DEF WaitChecks, Stop
    <3>3. Continues
      BY <1>d, <3>1, <3>2 DEF Continues
    <3> QED
      BY <3>1, <3>3, <1>c
  <2>9. CASE Reverify
    <3>1. run.at # "idle" /\ prs' = prs /\ pin' = pin /\ latest' = latest
      BY <2>9 DEF Reverify, remote
    <3>2. Stop \/ \E step, h : run' = [run EXCEPT !.at = step, !.looked = h]
      BY <2>9 DEF Reverify, Reverified
    <3>3. Continues
      BY <3>1, <3>2, <1>d, <1>t, RunFields DEF Going, Continues
    <3> QED
      BY <3>1, <3>3, <1>c
  <2>10. CASE DispatchSmoke
    <3>1. run.at # "idle" /\ prs' = prs /\ pin' = pin /\ latest' = latest
      BY <2>10 DEF DispatchSmoke, remote
    <3>2. Stop \/ \E step, h : run' = [run EXCEPT !.at = step, !.taken = h]
      BY <2>10 DEF DispatchSmoke
    <3>3. Continues
      BY <3>1, <3>2, <1>d, <1>t, RunFields DEF Going, Continues
    <3> QED
      BY <3>1, <3>3, <1>c
  <2>11. CASE FinishSmoke
    <3>1. run.at # "idle" /\ prs' = prs /\ pin' = pin /\ latest' = latest
      BY <2>11 DEF FinishSmoke, remote
    <3>2. Stop \/ run' = [run EXCEPT !.at = "again", !.smoked = run.head]
      BY <2>11 DEF FinishSmoke
    <3> QED
      BY <3>1, <3>2, <1>c, <1>d
  <2>12. CASE DispatchReview
    <3>1. prs' = prs /\ pin' = pin /\ latest' = latest /\ run'.at = "idle"
      BY <2>12, <1>f DEF DispatchReview, remote
    <3>2. Continues
      BY <3>1 DEF Continues
    <3> QED
      BY <3>1, <3>2, <1>c
  <2>13. CASE TimeOut
    BY <2>13, <1>c, <1>d DEF TimeOut, remote, ci
  <2> QED
    BY <1>1, <2>1, <2>2, <2>3, <2>4, <2>5, <2>6, <2>7, <2>8, <2>9, <2>10, <2>11, <2>12, <2>13
       DEF Run
<1>2. CASE Die
  BY <1>2, <1>c, <1>d DEF Die, remote, ci
<1>3. CASE Release
  BY <1>3, <1>c, <1>d DEF Release, remote, ci
<1>4. CASE Index
  BY <1>4, <1>c, <1>d DEF Index, remote, ci
<1>5. CASE CheckMoves
  BY <1>5, <1>c, <1>d DEF CheckMoves, remote, ci
<1>6. CASE People
  <2> UNCHANGED <<latest, run>>
    BY <1>6 DEF People
  <2>1. ASSUME NEW p \in Pulls, PushCommit(p) PROVE Ordered'
    <3>1. NoneOpened /\ MergedOf({}) /\ pin' = pin /\ latest' = latest /\ run' = run
      BY <2>1, <1>a, PeopleStates DEF PushCommit
    <3> QED
      BY <3>1, <1>e
  <2>2. ASSUME NEW p \in Pulls, EditBody(p) PROVE Ordered'
    <3>1. NoneOpened /\ MergedOf({}) /\ pin' = pin /\ latest' = latest /\ run' = run
      BY <2>2, <1>a, PeopleStates DEF EditBody
    <3> QED
      BY <3>1, <1>e
  <2>3. ASSUME NEW p \in Pulls, ClosePR(p) PROVE Ordered'
    <3>1. NoneOpened /\ MergedOf({}) /\ pin' = pin /\ latest' = latest /\ run' = run
      BY <2>3, <1>a, PeopleStates DEF ClosePR
    <3> QED
      BY <3>1, <1>e
  <2>4. ASSUME NEW p \in Pulls, MergePR(p) PROVE Ordered'
    <3>1. NoneOpened /\ MergedOf({p}) /\ p \in OpenPulls /\ prs'[p].state = "merged"
      BY <2>4, <1>a, <1>o, PeopleStates
    <3>2. pin' = VersionOf(p) /\ latest' = latest /\ run' = run
      BY <2>4 DEF MergePR
    <3>3. \A q \in OpenPulls' : FALSE
      BY <1>o, <1>n, <3>1 DEF OneOpen, NoneOpened
    <3>4. pin <= VersionOf(p) /\ VersionOf(p) <= latest /\ (run.at # "idle" => VersionOf(p) <= run.version)
      BY <1>o, <3>1 DEF Ordered
    <3>5. \A q \in Pulls : VersionOf(q)' = VersionOf(q)
      BY <1>a
    <3>6. \A q \in Pulls : prs[q].state = "merged" => VersionOf(q) <= VersionOf(p)
      BY <1>o, <1>t, <1>v, <3>1, <3>4 DEF Ordered
    <3>7. VersionOf(p) <= VersionOf(p)
      BY <1>o, <1>v, <3>1
    <3> HIDE DEF Grown
    <3>8. \A q \in Pulls' : VersionOf(q)' <= latest' /\ (prs'[q].state = "merged" => VersionOf(q)' <= pin')
      BY <3>1, <3>2, <3>5, <3>6, <3>7 DEF NoneOpened, MergedOf, Ordered
    <3>9. run'.at # "idle" => /\ run'.base < run'.version /\ run'.version <= latest' /\ pin' <= run'.version
                              /\ \A q \in Pulls' : VersionOf(q)' <= run'.version
      BY <3>1, <3>2, <3>4, <3>5 DEF NoneOpened, Ordered
    <3> QED
      BY <3>2, <3>3, <3>4, <3>8, <3>9 DEF Ordered
  <2>5. ASSUME NEW i \in Numbers, ToggleIssue(i) PROVE Ordered'
    BY <2>5, <1>c, <1>d DEF ToggleIssue, remote, ci
  <2>6. ASSUME NEW i \in Numbers, RetypeIssue(i) PROVE Ordered'
    BY <2>6, <1>c, <1>d DEF RetypeIssue, remote, ci
  <2>7. ASSUME NEW i \in Numbers, DeleteBranch(i) PROVE Ordered'
    <3>1. NoneOpened /\ MergedOf({}) /\ pin' = pin /\ latest' = latest /\ run' = run
      BY <2>7, <1>a, PeopleStates DEF DeleteBranch
    <3> QED
      BY <3>1, <1>e
  <2> QED
    BY <1>6, <2>1, <2>2, <2>3, <2>4, <2>5, <2>6, <2>7 DEF People
<1>7. CASE UNCHANGED vars
  BY <1>7, <1>c, <1>d DEF vars, remote, ci
<1> QED
  BY <1>1, <1>2, <1>3, <1>4, <1>5, <1>6, <1>7 DEF Next

(* What a run has established stays so, whatever happens beside it. *)
LEMMA RunningStep == (TypeOK /\ OneOpen /\ Ordered /\ Running) /\ [Next]_vars => Running'
<1> SUFFICES ASSUME (TypeOK /\ OneOpen /\ Ordered /\ Running), [Next]_vars PROVE Running'
  OBVIOUS
<1>a. Grown /\ BranchTyped /\ PullsTyped
  BY TypeStep, TypeParts
<1> USE DEF Grown
<1>o. \A p : p \in OpenPulls <=> p \in Pulls /\ prs[p].state = "open"
  BY DEF OpenPulls
<1>n. \A p : p \in OpenPulls' <=> p \in Pulls' /\ prs'[p].state = "open"
  BY DEF OpenPulls
<1>t. RunTyped /\ CountsTyped /\ run.base \in Nat /\ run.version \in Nat /\ latest \in Nat /\ pin \in Nat
  BY TypeParts, BoundsAssumption DEF RunTyped, CountsTyped
<1>v. \A p \in Pulls : VersionOf(p) \in Nat
  BY <1>a DEF Version
<1> HIDE DEF Grown
<1>b. /\ \A p \in Pulls : prs[p] \in Pull(Len(issues), heads) /\ p \in Pulls' /\ VersionOf(p)' = VersionOf(p)
      /\ \A i \in Numbers : i \in Numbers' /\ issues'[i].version = issues[i].version /\ branch[i] \in 0..heads
      /\ heads \in Nat /\ heads' \in Nat /\ heads <= heads'
      /\ run.head \in 0..heads
  <2>1. Len(issues) <= Len(issues') /\ \A i \in Numbers : issues'[i].version = issues[i].version
    BY <1>a DEF Grown, IssuesGrow
  <2>2. \A i \in Numbers : i \in Numbers'
    BY <2>1, <1>a, LenProperties DEF Numbers, Grown, TypeOK
  <2>3. run.head \in 0..heads
    BY <1>t DEF RunTyped
  <2>4. heads \in Nat /\ heads' \in Nat /\ heads <= heads' /\ \A i \in Numbers : branch[i] \in 0..heads
    BY <1>a DEF Grown
  <2>5. \A p \in Pulls : prs[p] \in Pull(Len(issues), heads) /\ p \in Pulls' /\ VersionOf(p)' = VersionOf(p)
    BY <1>a DEF Grown
  <2> QED
    BY <2>1, <2>2, <2>3, <2>4, <2>5
<1>p. \A p \in Pulls : prs[p].state \in {"open", "closed", "merged"} /\ prs[p].head \in 1..heads /\ prs[p].issue \in Numbers
  BY <1>a, <1>b DEF Pull, Grown
<1>i. run'.at = "idle" => Running'
  BY DEF Running, Proposing, Proposed
<1>f. /\ Idle.at = "idle" /\ [Idle EXCEPT !.failed = FailedChecks].at = "idle"
      /\ [Idle EXCEPT !.reviewed = branch[run.issue]].at = "idle"
  BY DEF Idle
<1>g. /\ Stop => run'.at = "idle"
      /\ \A step : Proceed(step) => Going(step, run.issue, run.pr, run.head, run.smoked)
  BY <1>t, RunFields
<1>u. ASSUME UNCHANGED remote
      PROVE  /\ OpenPulls' = OpenPulls /\ Pulls' = Pulls /\ Numbers' = Numbers
             /\ prs' = prs /\ branch' = branch /\ heads' = heads /\ issues' = issues
  BY <1>u DEF remote, OpenPulls, Pulls, Numbers
<1>k. ASSUME NEW step \in Proposed, UNCHANGED remote, run.at \in Proposed,
             Going(step, run.issue, run.pr, run.head, run.smoked),
             step \in {"again", "review"} => run.at \in {"again", "review"}
      PROVE  Running'
  BY <1>k, <1>u DEF Running, Going, Proposing, Proposed
<1>w. ASSUME run' = run, NoneOpened,
             \A j \in Numbers : branch'[j] \in {branch[j], 0, heads'},
             OpenPulls = {} => heads' = heads /\ \A j \in Numbers : branch'[j] \in {branch[j], 0}
      PROVE  Running'
  <2>1. OpenPulls = {} => OpenPulls' = {}
    BY <1>w, <1>o, <1>n DEF NoneOpened
  <2>2. \A p \in Pulls : prs[p].state = "merged" => prs'[p].state = "merged"
    BY <1>a DEF Grown, PullsGrow
  <2>3. run.at \in Proposing =>
          OpenPulls' = {} /\ \A p \in Pulls' : VersionOf(p)' = run.version => prs'[p].state = "merged"
    BY <1>b, <1>w, <2>1, <2>2 DEF Running, NoneOpened
  <2>4. run.at = "create" => run.head = heads' /\ heads' > 0 /\ branch'[run.issue] \in {0, heads'}
    BY <1>w DEF Running, Proposing
  <2>5. run.at \in Proposed => branch'[run.issue] = 0 \/ branch'[run.issue] >= run.head
    BY <1>b, <1>w DEF Running
  <2>6. run.at \in {"branch", "push", "create"} => run.issue \in Numbers' /\ issues'[run.issue].version = run.version
    BY <1>b DEF Running
  <2>7. run.at \in Proposed => run.issue \in Numbers' /\ run.pr \in Pulls' /\ run.head > 0
    BY <1>b DEF Running
  <2>8. /\ run.at \in {"again", "review"} => run.smoked = run.head
        /\ run.at # "idle" => run.reviewed = 0
    BY DEF Running
  <2> QED
    BY <1>w, <2>3, <2>4, <2>5, <2>6, <2>7, <2>8 DEF Running
<1>1. CASE Run
  <2>1. CASE Begin
    <3>1. run'.at = "find" /\ run'.reviewed = 0
      BY <2>1 DEF Begin, Idle
    <3> QED
      BY <3>1 DEF Running, Proposing, Proposed
  <2>2. CASE FindPending
    <3>1. run.at = "find" /\ UNCHANGED remote
      BY <2>2 DEF FindPending
    <3>2. \/ Stop \/ (Proceed("source") /\ PendingPulls = {} /\ ~Rejected(run.version))
          \/ \E p \in PendingPulls : run' = [run EXCEPT !.at = "redispatch", !.issue = prs[p].issue,
                                                       !.pr = p, !.head = prs[p].head]
      BY <2>2 DEF FindPending
    <3>3. CASE Proceed("source") /\ PendingPulls = {} /\ ~Rejected(run.version)
      <4>1. OpenPulls = {} /\ \A p \in Pulls : VersionOf(p) = run.version => prs[p].state = "merged"
        BY <1>o, <1>p, <3>3 DEF PendingPulls, Rejected, RejectedPulls
      <4>2. Going("source", run.issue, run.pr, run.head, run.smoked)
        BY <1>g, <3>3
      <4>3. \A p \in Pulls : VersionOf(p)' = VersionOf(p)
        BY <1>b
      <4> QED
        BY <1>u, <3>1, <4>1, <4>2, <4>3 DEF Running, Going, Proposing, Proposed
    <3>4. ASSUME NEW p \in PendingPulls,
                 run' = [run EXCEPT !.at = "redispatch", !.issue = prs[p].issue, !.pr = p, !.head = prs[p].head]
          PROVE  Running'
      <4>1. p \in OpenPulls /\ p \in Pulls /\ prs[p].head \in 1..heads /\ prs[p].issue \in Numbers
        BY <1>o, <1>p, <3>4 DEF PendingPulls
      <4>2. prs[p].head = heads /\ branch[prs[p].issue] = heads
        BY <4>1 DEF OneOpen
      <4>3. /\ run'.at = "redispatch" /\ run'.issue = prs[p].issue /\ run'.pr = p /\ run'.head = prs[p].head
            /\ run'.reviewed = run.reviewed
        BY <1>t, <3>4 DEF RunTyped
      <4>4. run'.head > 0 /\ branch[run'.issue] >= run'.head /\ run'.issue \in Numbers /\ run'.pr \in Pulls
        BY <1>b, <4>1, <4>2, <4>3
      <4>5. run'.reviewed = 0
        BY <3>1, <4>3 DEF Running
      <4> QED
        BY <1>u, <3>1, <4>3, <4>4, <4>5 DEF Running, Proposing, Proposed
    <3> QED
      BY <1>g, <1>i, <3>2, <3>3, <3>4
  <2>3. CASE Source
    <3> DEFINE row == [version |-> run.version, open |-> TRUE, task |-> TRUE, indexed |-> FALSE]
    <3>1. run.at = "source" /\ prs' = prs
      BY <2>3 DEF Source
    <3>2. ASSUME NEW i \in Numbers', issues'[i].version = run.version, run' = [run EXCEPT !.at = "branch", !.issue = i]
          PROVE  Running'
      <4>1. Going("branch", i, run.pr, run.head, run.smoked)
        BY <1>t, <3>2, RunFields
      <4>2. OpenPulls' = {} /\ Pulls' = Pulls /\ \A p \in Pulls : VersionOf(p) = run.version => prs[p].state = "merged"
        BY <3>1 DEF Running, Proposing, OpenPulls, Pulls
      <4>3. \A p \in Pulls : VersionOf(p)' = VersionOf(p)
        BY <1>b
      <4>4. run.reviewed = 0
        BY <3>1 DEF Running
      <4> QED
        BY <3>1, <3>2, <4>1, <4>2, <4>3, <4>4 DEF Running, Going, Proposing, Proposed
    <3>3. CASE Found = {}
      <4>1. issues' = Append(issues, row) /\ run' = [run EXCEPT !.at = "branch", !.issue = Len(issues) + 1]
        BY <2>3, <3>3 DEF Source
      <4>2. issues \in Seq(Issue \union {row}) /\ row \in Issue \union {row} /\ row.version = run.version
        BY TypeParts, SeqMonotonic DEF IssuesTyped
      <4> HIDE DEF row
      <4>3. Len(issues') = Len(issues) + 1 /\ issues'[Len(issues) + 1] = row /\ Len(issues) \in Nat
        BY <4>1, <4>2, AppendProperties, LenProperties
      <4>4. PICK i \in Nat : i = Len(issues) + 1
        BY <4>3
      <4>5. i \in Numbers' /\ issues'[i].version = run.version
        BY <4>2, <4>3, <4>4 DEF Numbers
      <4> QED
        BY <3>2, <4>1, <4>4, <4>5
    <3>4. CASE Found # {}
      <4>1. \/ Stop
            \/ \E i \in Found : run' = [run EXCEPT !.at = "branch", !.issue = i] /\ issues[i].version = run.version
        BY <2>3, <3>4 DEF Source
      <4>2. issues' = issues /\ Found \subseteq Numbers'
        BY <2>3, <3>4 DEF Source, Found, Numbers
      <4> QED
        BY <1>g, <1>i, <3>2, <4>1, <4>2
    <3> QED
      BY <3>3, <3>4
  <2>4. CASE StartBranch
    <3>1. run.at = "branch" /\ UNCHANGED remote
      BY <2>4 DEF StartBranch
    <3>2. Stop \/ Proceed("push")
      BY <2>4 DEF StartBranch
    <3>3. CASE Proceed("push")
      <4>1. Going("push", run.issue, run.pr, run.head, run.smoked)
        BY <1>g, <3>3
      <4>2. \A p \in Pulls : VersionOf(p)' = VersionOf(p)
        BY <1>b
      <4> QED
        BY <1>u, <3>1, <4>1, <4>2 DEF Running, Going, Proposing, Proposed
    <3> QED
      BY <1>g, <1>i, <3>2, <3>3
  <2>5. CASE Push
    <3>1. run.at = "push" /\ prs' = prs /\ issues' = issues /\ run.issue \in Numbers
      BY <2>5 DEF Push, Running
    <3>2. Stop \/ (Commit(run.issue) /\ run' = [run EXCEPT !.at = "create", !.head = heads + 1])
      BY <2>5 DEF Push
    <3>3. CASE Commit(run.issue) /\ run' = [run EXCEPT !.at = "create", !.head = heads + 1]
      <4>1. Going("create", run.issue, run.pr, heads + 1, run.smoked)
        BY <1>t, <3>3, RunFields
      <4>2. heads' = heads + 1 /\ branch'[run.issue] = heads + 1
        BY <1>a, <3>1, <3>3, Committed DEF Tip
      <4>3. OpenPulls' = OpenPulls /\ Pulls' = Pulls /\ Numbers' = Numbers
        BY <3>1 DEF OpenPulls, Pulls, Numbers
      <4>4. \A p \in Pulls : VersionOf(p)' = VersionOf(p)
        BY <1>b
      <4>5. heads + 1 > 0
        BY <1>b
      <4> QED
        BY <3>1, <4>1, <4>2, <4>3, <4>4, <4>5 DEF Running, Going, Proposing, Proposed
    <3> QED
      BY <1>g, <1>i, <3>2, <3>3
  <2>6. CASE CreatePR
    <3>1. run.at = "create" /\ issues' = issues /\ branch' = branch /\ heads' = heads
      BY <2>6 DEF CreatePR
    <3>2. CASE branch[run.issue] # 0
      <4>1. Created /\ run' = [run EXCEPT !.at = "wait", !.pr = Len(prs) + 1]
        BY <2>6, <1>a, <3>2, NewPull DEF CreatePR
      <4>2. Going("wait", run.issue, Len(prs) + 1, run.head, run.smoked)
        BY <1>t, <4>1, RunFields
      <4>3. Len(prs) + 1 \in Pulls' /\ Numbers' = Numbers
        BY <1>a, <3>1, <4>1 DEF Grown, Created, Pulls, Numbers
      <4>4. run.issue \in Numbers /\ run.head > 0 /\ branch[run.issue] >= run.head /\ run.reviewed = 0
        BY <1>b, <3>1, <3>2 DEF Running
      <4> QED
        BY <3>1, <4>2, <4>3, <4>4 DEF Running, Going, Proposing, Proposed
    <3>3. CASE Stop
      BY <1>g, <1>i, <3>3
    <3> QED
      BY <2>6, <3>2, <3>3 DEF CreatePR
  <2>7. CASE Redispatch
    <3>1. run.at \in Proposed \ {"again", "review"} /\ UNCHANGED remote
      BY <2>7 DEF Redispatch, Proposed
    <3>2. Stop \/ Proceed("wait") \/ run'.at = "idle"
      BY <2>7, <1>f DEF Redispatch
    <3>3. CASE Proceed("wait")
      BY <3>1, <3>3, <1>g, <1>k DEF Proposed
    <3> QED
      BY <3>2, <3>3, <1>i, <1>g
  <2>8. CASE WaitChecks
    <3>1. run.at \in Proposed \ {"again", "review"} /\ UNCHANGED remote
      BY <2>8 DEF WaitChecks, Proposed
    <3>2. Stop \/ Proceed("reverify") \/ run'.at = "idle"
      BY <2>8, <1>f DEF WaitChecks
    <3>3. CASE Proceed("reverify")
      BY <3>1, <3>3, <1>g, <1>k DEF Proposed
    <3> QED
      BY <3>2, <3>3, <1>i, <1>g
  <2>9. CASE Reverify
    <3>1. UNCHANGED remote
      BY <2>9 DEF Reverify
    <3> DEFINE Looks(step) == run' = [run EXCEPT !.at = step, !.looked = heads]
    <3>2. \/ run.at = "reverify" /\ (Looks("smoke") \/ Stop)
          \/ run.at = "again" /\ (Looks("review") \/ Stop)
      BY <2>9 DEF Reverify, Reverified
    <3>5. \A step : Looks(step) => Going(step, run.issue, run.pr, run.head, run.smoked)
      BY <1>t, RunFields
    <3> HIDE DEF Looks
    <3>3. CASE run.at = "reverify" /\ Looks("smoke")
      BY <1>k, <3>1, <3>3, <3>5 DEF Proposed
    <3>4. CASE run.at = "again" /\ Looks("review")
      BY <1>k, <3>1, <3>4, <3>5 DEF Proposed
    <3> QED
      BY <1>g, <1>i, <3>2, <3>3, <3>4
  <2>10. CASE DispatchSmoke
    <3>1. run.at \in Proposed \ {"again", "review"} /\ UNCHANGED remote
      BY <2>10 DEF DispatchSmoke, Proposed
    <3>2. Stop \/ run' = [run EXCEPT !.at = "smoking", !.taken = branch[run.issue]]
      BY <2>10 DEF DispatchSmoke
    <3>3. CASE run' = [run EXCEPT !.at = "smoking", !.taken = branch[run.issue]]
      <4>1. Going("smoking", run.issue, run.pr, run.head, run.smoked)
        BY <1>t, <3>3, RunFields
      <4> QED
        BY <3>1, <4>1, <1>k DEF Proposed
    <3> QED
      BY <3>2, <3>3, <1>i, <1>g
  <2>11. CASE FinishSmoke
    <3>1. run.at = "smoking" /\ UNCHANGED remote
      BY <2>11 DEF FinishSmoke
    <3>2. CASE run' = [run EXCEPT !.at = "again", !.smoked = run.head]
      <4>1. Going("again", run.issue, run.pr, run.head, run.head)
        BY <1>t, <3>2, RunFields
      <4> QED
        BY <1>u, <3>1, <4>1 DEF Running, Going, Proposing, Proposed
    <3>3. CASE Stop
      BY <1>g, <1>i, <3>3
    <3> QED
      BY <2>11, <3>2, <3>3 DEF FinishSmoke
  <2>12. CASE DispatchReview
    <3>1. run'.at = "idle"
      BY <2>12, <1>f DEF DispatchReview, Stop
    <3> QED
      BY <3>1, <1>i
  <2>13. CASE TimeOut
    BY <2>13, <1>g, <1>i DEF TimeOut
  <2> QED
    BY <1>1, <2>1, <2>2, <2>3, <2>4, <2>5, <2>6, <2>7, <2>8, <2>9, <2>10, <2>11, <2>12, <2>13
       DEF Run
<1>2. CASE Die
  BY <1>2, <1>g, <1>i DEF Die
<1>3. CASE Release
  <2>1. UNCHANGED <<run, prs, branch, heads>>
    BY <1>3 DEF Release, remote, ci
  <2>2. NoneOpened
    BY <2>1 DEF NoneOpened, Pulls
  <2> QED
    BY <2>1, <2>2, <1>w
<1>4. CASE Index
  <2>1. UNCHANGED <<run, prs, branch, heads>>
    BY <1>4 DEF Index, remote, ci
  <2>2. NoneOpened
    BY <2>1 DEF NoneOpened, Pulls
  <2> QED
    BY <2>1, <2>2, <1>w
<1>5. CASE CheckMoves
  <2>1. UNCHANGED <<run, prs, branch, heads>>
    BY <1>5 DEF CheckMoves, remote, ci
  <2>2. NoneOpened
    BY <2>1 DEF NoneOpened, Pulls
  <2> QED
    BY <2>1, <2>2, <1>w
<1>6. CASE People
  <2> UNCHANGED <<latest, run>>
    BY <1>6 DEF People
  <2>1. ASSUME NEW p \in Pulls, PushCommit(p) PROVE Running'
    <3>1. NoneOpened
      BY <2>1, <1>a, PeopleStates
    <3>2. OpenPulls # {} /\ \A j \in Numbers : branch'[j] \in {branch[j], heads'}
      <4>1. Tip(prs[p].issue)
        BY <2>1, <1>a, PeopleMoves
      <4> QED
        BY <2>1, <1>o, <4>1 DEF PushCommit, Tip
    <3> QED
      BY <2>1, <3>1, <3>2, <1>w DEF PushCommit
  <2>2. ASSUME NEW p \in Pulls, EditBody(p) PROVE Running'
    <3>1. NoneOpened
      BY <2>2, <1>a, PeopleStates
    <3>2. OpenPulls # {} /\ branch' = branch /\ heads' = heads
      BY <2>2, <1>o DEF EditBody
    <3> QED
      BY <2>2, <3>1, <3>2, <1>w DEF EditBody
  <2>3. ASSUME NEW p \in Pulls, ClosePR(p) PROVE Running'
    <3>1. NoneOpened
      BY <2>3, <1>a, PeopleStates
    <3>2. OpenPulls # {} /\ branch' = branch /\ heads' = heads
      BY <2>3, <1>o DEF ClosePR
    <3> QED
      BY <2>3, <3>1, <3>2, <1>w DEF ClosePR
  <2>4. ASSUME NEW p \in Pulls, MergePR(p) PROVE Running'
    <3>1. NoneOpened
      BY <2>4, <1>a, PeopleStates
    <3>2. OpenPulls # {} /\ branch' = branch /\ heads' = heads
      BY <2>4, <1>o DEF MergePR
    <3> QED
      BY <2>4, <3>1, <3>2, <1>w DEF MergePR
  <2>5. ASSUME NEW i \in Numbers, ToggleIssue(i) PROVE Running'
    <3>1. UNCHANGED <<run, prs, branch, heads>>
      BY <2>5 DEF ToggleIssue, remote, ci
    <3>2. NoneOpened
      BY <3>1 DEF NoneOpened, Pulls
    <3> QED
      BY <3>1, <3>2, <1>w
  <2>6. ASSUME NEW i \in Numbers, RetypeIssue(i) PROVE Running'
    <3>1. UNCHANGED <<run, prs, branch, heads>>
      BY <2>6 DEF RetypeIssue, remote, ci
    <3>2. NoneOpened
      BY <3>1 DEF NoneOpened, Pulls
    <3> QED
      BY <3>1, <3>2, <1>w
  <2>7. ASSUME NEW i \in Numbers, DeleteBranch(i) PROVE Running'
    <3>1. NoneOpened
      BY <2>7, <1>a, PeopleStates
    <3>2. heads' = heads /\ \A j \in Numbers : branch'[j] \in {branch[j], 0}
      <4>1. branch' = [branch EXCEPT ![i] = 0] /\ heads' = heads /\ Numbers = DOMAIN branch
        BY <2>7, <1>a, LenProperties DEF DeleteBranch, BranchTyped, Numbers
      <4> QED
        BY <4>1
    <3> QED
      BY <2>7, <3>1, <3>2, <1>w DEF DeleteBranch
  <2> QED
    BY <1>6, <2>1, <2>2, <2>3, <2>4, <2>5, <2>6, <2>7 DEF People
<1>7. CASE UNCHANGED vars
  <2>1. UNCHANGED <<run, prs, branch, heads>>
    BY <1>7 DEF vars, remote
  <2>2. NoneOpened
    BY <2>1 DEF NoneOpened, Pulls
  <2> QED
    BY <2>1, <2>2, <1>w
<1> QED
  BY <1>1, <1>2, <1>3, <1>4, <1>5, <1>6, <1>7 DEF Next

(* What a run has looked at and taken changes only where it looks and where it takes. *)
LEMMA DispatchedStep ==
  (TypeOK /\ OneOpen /\ Running /\ Dispatched) /\ [Next]_vars => Dispatched'
<1> SUFFICES ASSUME TypeOK, OneOpen, Running, Dispatched, [Next]_vars PROVE Dispatched'
  OBVIOUS
<1>t. RunTyped /\ BranchTyped /\ PullsTyped
  BY TypeParts
<1>s. run' = run => Dispatched'
  BY DEF Dispatched
<1>e. run'.at \notin {"smoke", "smoking", "again", "review"} => Dispatched'
  BY DEF Dispatched
<1>p. \A step : Proceed(step) => run'.at = step
  BY <1>t DEF Proceed, RunTyped
<1>i. Stop => Dispatched'
  BY <1>e DEF Stop, Idle
<1>1. CASE Run
  <2>1. CASE Begin
    BY <2>1, <1>e DEF Begin, Idle
  <2>2. CASE FindPending
    <3>1. Stop \/ Proceed("source") \/ \E i, p, h : run' = [run EXCEPT !.at = "redispatch", !.issue = i, !.pr = p, !.head = h]
      BY <2>2 DEF FindPending
    <3> QED
      BY <3>1, <1>t, <1>e, <1>i, <1>p DEF RunTyped
  <2>3. CASE Source
    <3>1. Stop \/ \E i : run' = [run EXCEPT !.at = "branch", !.issue = i]
      BY <2>3 DEF Source
    <3> QED
      BY <3>1, <1>t, <1>e, <1>i DEF RunTyped
  <2>4. CASE StartBranch
    BY <2>4, <1>e, <1>i, <1>p DEF StartBranch
  <2>5. CASE Push
    <3>1. Stop \/ run' = [run EXCEPT !.at = "create", !.head = heads + 1]
      BY <2>5 DEF Push
    <3> QED
      BY <3>1, <1>t, <1>e, <1>i DEF RunTyped
  <2>6. CASE CreatePR
    <3>1. Stop \/ run' = [run EXCEPT !.at = "wait", !.pr = Len(prs) + 1]
      BY <2>6 DEF CreatePR
    <3> QED
      BY <3>1, <1>t, <1>e, <1>i DEF RunTyped
  <2>7. CASE Redispatch
    BY <2>7, <1>e, <1>p DEF Redispatch
  <2>8. CASE WaitChecks
    <3>1. [Idle EXCEPT !.failed = FailedChecks].at = "idle"
      BY DEF Idle
    <3> QED
      BY <2>8, <3>1, <1>e, <1>i, <1>p DEF WaitChecks
  <2>9. CASE Reverify
    <3>1. CASE Stop
      BY <3>1, <1>i
    <3>2. CASE ~Stop
      <4>1. PICK step \in {"smoke", "review"} :
              /\ run' = [run EXCEPT !.at = step, !.looked = heads]
              /\ step = "review" => run.at = "again"
        BY <2>9, <3>2 DEF Reverify, Reverified
      <4>2. run'.at = step /\ run'.looked = heads /\ run'.head = run.head /\ run'.taken = run.taken
        BY <1>t, <4>1 DEF RunTyped
      <4>3. prs[run.pr].state = "open" /\ prs[run.pr].head = run.head /\ run.pr \in Pulls
        BY <2>9, <3>2 DEF Reverify, Reverified, Verified, Running, Proposed
      <4>4. run.head = heads
        BY <4>3 DEF OneOpen, OpenPulls
      <4> QED
        BY <4>1, <4>2, <4>4 DEF Dispatched
    <3> QED
      BY <3>1, <3>2
  <2>10. CASE DispatchSmoke
    <3>1. CASE Stop
      BY <3>1, <1>i
    <3>2. CASE ~Stop
      <4>1. /\ run.at = "smoke" /\ branch[run.issue] # 0
            /\ run' = [run EXCEPT !.at = "smoking", !.taken = branch[run.issue]]
        BY <2>10, <3>2 DEF DispatchSmoke
      <4>2. /\ run'.at = "smoking" /\ run'.taken = branch[run.issue]
            /\ run'.head = run.head /\ run'.looked = run.looked
        BY <1>t, <4>1 DEF RunTyped
      <4>3. branch[run.issue] >= run.head /\ run.looked = run.head
        BY <4>1 DEF Running, Proposed, Dispatched
      <4> QED
        BY <4>2, <4>3 DEF Dispatched
    <3> QED
      BY <3>1, <3>2
  <2>11. CASE FinishSmoke
    <3>1. CASE Stop
      BY <3>1, <1>i
    <3>2. CASE ~Stop
      <4>1. /\ run.at = "smoking" /\ run.taken = run.head
            /\ run' = [run EXCEPT !.at = "again", !.smoked = run.head]
        BY <2>11, <3>2 DEF FinishSmoke
      <4>2. run'.at = "again" /\ run'.taken = run.taken /\ run'.head = run.head /\ run'.looked = run.looked
        BY <1>t, <4>1 DEF RunTyped
      <4> QED
        BY <4>1, <4>2 DEF Dispatched
    <3> QED
      BY <3>1, <3>2
  <2>12. CASE DispatchReview
    BY <2>12, <1>e DEF DispatchReview, Idle
  <2>13. CASE TimeOut
    BY <2>13, <1>i DEF TimeOut
  <2> QED
    BY <1>1, <2>1, <2>2, <2>3, <2>4, <2>5, <2>6, <2>7, <2>8, <2>9, <2>10, <2>11, <2>12, <2>13
       DEF Run
<1>2. CASE Die
  BY <1>2, <1>i DEF Die
<1>3. CASE Release \/ Index \/ CheckMoves \/ People
  BY <1>3, <1>s DEF Release, Index, CheckMoves, People
<1>4. CASE UNCHANGED vars
  BY <1>4, <1>s DEF vars
<1> QED
  BY <1>1, <1>2, <1>3, <1>4 DEF Next

(* What waitForPullRequestChecks() takes for ready has passed; a new commit has not. *)
LEMMA ReadyPassed ==
  ASSUME checks \in [Checks -> Status], ChecksReady
  PROVE  Passed(checks)
<1> SUFFICES ASSUME NEW c \in Checks PROVE checks[c] = "success"
  BY DEF Passed
<1>1. c \notin Missing(checks) /\ c \notin Pending(checks)
  BY DEF ChecksReady, PreliminaryReady, Ready
<1>2. c \notin Failed(checks) /\ c \notin WrongWorkflow(checks, PreliminaryReady)
  BY DEF ChecksReady, FailedChecks
<1>3. checks[c] \in Status
  OBVIOUS
<1> QED
  BY <1>1, <1>2, <1>3 DEF Missing, Pending, Failed, WrongWorkflow, Status

LEMMA UncheckedNotPassed == ~Passed(Unchecked)
BY ChecksAssumption DEF Passed, Unchecked

(* A run goes on only after it has seen all checks of the last commit passed, and the
   history keeps that commit for it. *)
LEMMA CheckedStep ==
  (TypeOK /\ OneOpen /\ Ordered /\ Running /\ Checked) /\ [Next]_vars
    => Checked'
<1> SUFFICES ASSUME (TypeOK /\ OneOpen /\ Ordered /\ Running /\ Checked), [Next]_vars
             PROVE  Checked'
  OBVIOUS
<1>t. RunTyped /\ checks \in [Checks -> Status] /\ heads \in Nat /\ run.head \in 0..heads
  BY TypeParts DEF TypeOK, RunTyped
<1>g. /\ Stop => run'.at = "idle"
      /\ \A step : Proceed(step) => Going(step, run.issue, run.pr, run.head, run.smoked)
  BY <1>t, RunFields
<1>f. /\ Idle.at = "idle" /\ [Idle EXCEPT !.failed = FailedChecks].at = "idle"
      /\ [Idle EXCEPT !.reviewed = branch[run.issue]].at = "idle"
  BY DEF Idle
<1>c. ASSUME checks' = checks, green' = green, heads' = heads,
             run'.at \in Assured => run.at \in Assured /\ run'.head = run.head
      PROVE  Checked'
  BY <1>c DEF Checked, Passed
<1>d. ASSUME UNCHANGED <<heads, ci>>, run'.at \notin Assured PROVE Checked'
  BY <1>c, <1>d DEF ci
<1>e. ASSUME checks' = Unchecked, run' = run, green \intersect {run.head} \subseteq green' PROVE Checked'
  BY <1>e, UncheckedNotPassed DEF Checked, Passed, Unchecked
<1>n. {"idle", "find", "source", "branch", "push", "create", "redispatch", "wait"} \cap Assured = {}
  BY DEF Assured, Proposed
<1>1. CASE Run
  <2>1. CASE Begin
    <3>1. UNCHANGED <<heads, ci>>
      BY <2>1 DEF Begin, remote
    <3>2. run'.at = "idle" \/ run' = [Idle EXCEPT !.at = "find", !.base = pin, !.version = latest]
      BY <2>1, <1>g, <1>f DEF Begin
    <3>3. run'.at \notin Assured
      BY <3>2, <1>t, <1>g, <1>n DEF Going, RunTyped, Idle
    <3> QED
      BY <3>1, <3>3, <1>d
  <2>2. CASE FindPending
    <3>1. UNCHANGED <<heads, ci>>
      BY <2>2 DEF FindPending, remote
    <3>2. \/ Stop \/ Proceed("source")
          \/ \E p \in PendingPulls : run' = [run EXCEPT !.at = "redispatch", !.issue = prs[p].issue,
                                                       !.pr = p, !.head = prs[p].head]
      BY <2>2 DEF FindPending
    <3>3. ASSUME NEW p \in PendingPulls,
                 run' = [run EXCEPT !.at = "redispatch", !.issue = prs[p].issue, !.pr = p, !.head = prs[p].head]
          PROVE  run'.at = "redispatch"
      BY <1>t, <3>3 DEF RunTyped
    <3>4. run'.at \in {"idle", "source", "redispatch"}
      BY <1>g, <3>2, <3>3 DEF Going
    <3> QED
      BY <3>1, <3>4, <1>d, <1>n
  <2>3. CASE Source
    <3>1. UNCHANGED <<heads, ci>>
      BY <2>3 DEF Source
    <3>2. Stop \/ \E i : run' = [run EXCEPT !.at = "branch", !.issue = i]
      BY <2>3 DEF Source
    <3>3. run'.at \in {"idle", "branch"}
      BY <1>g, <1>t, <3>2 DEF RunTyped
    <3> QED
      BY <3>1, <3>3, <1>d, <1>n
  <2>4. CASE StartBranch
    <3>1. UNCHANGED <<heads, ci>>
      BY <2>4 DEF StartBranch, remote
    <3>2. run'.at = "idle" \/ Proceed("push")
      BY <2>4, <1>g, <1>f DEF StartBranch
    <3>3. run'.at \notin Assured
      BY <3>2, <1>t, <1>g, <1>n DEF Going, RunTyped
    <3> QED
      BY <3>1, <3>3, <1>d
  <2>5. CASE Push
    <3>1. CASE Stop /\ UNCHANGED <<heads, branch, ci>>
      BY <3>1, <1>d, <1>g, <1>n
    <3>2. CASE Commit(run.issue) /\ run' = [run EXCEPT !.at = "create", !.head = heads + 1]
      <4>1. run'.at = "create" /\ checks' = Unchecked
        BY <1>t, <3>2 DEF RunTyped, Commit, Forget
      <4> QED
        BY <4>1, <1>n, UncheckedNotPassed DEF Checked, Passed, Unchecked
    <3> QED
      BY <2>5, <3>1, <3>2 DEF Push
  <2>6. CASE CreatePR
    <3>1. UNCHANGED <<heads, ci>>
      BY <2>6 DEF CreatePR, remote
    <3>2. run'.at = "idle" \/ run' = [run EXCEPT !.at = "wait", !.pr = Len(prs) + 1]
      BY <2>6, <1>g, <1>f DEF CreatePR
    <3>3. run'.at \notin Assured
      BY <3>2, <1>t, <1>g, <1>n DEF Going, RunTyped
    <3> QED
      BY <3>1, <3>3, <1>d
  <2>7. CASE Redispatch
    <3>1. UNCHANGED <<heads, ci>>
      BY <2>7 DEF Redispatch, remote
    <3>2. run'.at = "idle" \/ Proceed("wait")
      BY <2>7, <1>g, <1>f DEF Redispatch
    <3>3. run'.at \notin Assured
      BY <3>2, <1>t, <1>g, <1>n DEF Going, RunTyped
    <3> QED
      BY <3>1, <3>3, <1>d
  <2>8. CASE WaitChecks
    <3>1. UNCHANGED <<heads, ci>> /\ run.at = "wait"
      BY <2>8 DEF WaitChecks, remote
    <3>2. CASE prs[run.pr].state = "open" /\ prs[run.pr].head = run.head /\ ChecksReady /\ Proceed("reverify")
      <4>1. run.pr \in OpenPulls
        BY <3>1, <3>2 DEF Running, Proposed, OpenPulls
      <4>2. run.head = heads
        BY <3>2, <4>1 DEF OneOpen
      <4>3. run.head \in green
        BY <1>t, <3>2, <4>2, ReadyPassed DEF Checked
      <4>4. run'.head = run.head
        BY <1>g, <3>2 DEF Going
      <4> QED
        BY <3>1, <4>3, <4>4 DEF Checked, Passed, ci
    <3>3. CASE run'.at = "idle"
      BY <3>1, <3>3, <1>d, <1>n
    <3> QED
      BY <2>8, <3>2, <3>3, <1>f, <1>g DEF WaitChecks
  <2>9. CASE Reverify
    <3>1. UNCHANGED <<heads, ci>> /\ run.at \in Assured
      BY <2>9 DEF Reverify, remote, Assured, Proposed
    <3>2. Stop \/ \E step, h : run' = [run EXCEPT !.at = step, !.looked = h]
      BY <2>9 DEF Reverify, Reverified
    <3>3. CASE \E step, h : run' = [run EXCEPT !.at = step, !.looked = h]
      <4>1. run'.head = run.head
        BY <1>t, <3>3 DEF RunTyped
      <4> QED
        BY <3>1, <4>1, <1>c DEF ci
    <3>4. CASE Stop
      BY <3>1, <3>4, <1>d, <1>g, <1>n
    <3> QED
      BY <3>2, <3>3, <3>4
  <2>10. CASE DispatchSmoke
    <3>1. UNCHANGED <<heads, ci>> /\ run.at \in Assured
      BY <2>10 DEF DispatchSmoke, remote, Assured, Proposed
    <3>2. CASE run' = [run EXCEPT !.at = "smoking", !.taken = branch[run.issue]]
      <4>1. run'.head = run.head
        BY <1>t, <3>2 DEF RunTyped
      <4> QED
        BY <3>1, <4>1, <1>c DEF ci
    <3>3. CASE Stop
      BY <3>1, <3>3, <1>d, <1>g, <1>n
    <3> QED
      BY <2>10, <3>2, <3>3 DEF DispatchSmoke
  <2>11. CASE FinishSmoke
    <3>1. UNCHANGED <<heads, ci>> /\ run.at \in Assured
      BY <2>11 DEF FinishSmoke, remote, Assured, Proposed
    <3>2. CASE run' = [run EXCEPT !.at = "again", !.smoked = run.head]
      <4>1. run'.head = run.head
        BY <1>t, <3>2 DEF RunTyped
      <4> QED
        BY <3>1, <4>1, <1>c DEF ci
    <3>3. CASE Stop
      BY <3>1, <3>3, <1>d, <1>g, <1>n
    <3> QED
      BY <2>11, <3>2, <3>3 DEF FinishSmoke
  <2>12. CASE DispatchReview
    <3>1. UNCHANGED <<heads, ci>>
      BY <2>12 DEF DispatchReview, remote
    <3>2. run'.at = "idle" \/ FALSE
      BY <2>12, <1>g, <1>f DEF DispatchReview
    <3>3. run'.at \notin Assured
      BY <3>2, <1>t, <1>g, <1>n DEF Going, RunTyped
    <3> QED
      BY <3>1, <3>3, <1>d
  <2>13. CASE TimeOut
    <3>1. UNCHANGED <<heads, ci>>
      BY <2>13 DEF TimeOut, remote
    <3>2. run'.at = "idle" \/ FALSE
      BY <2>13, <1>g, <1>f DEF TimeOut
    <3>3. run'.at \notin Assured
      BY <3>2, <1>t, <1>g, <1>n DEF Going, RunTyped
    <3> QED
      BY <3>1, <3>3, <1>d
  <2> QED
    BY <1>1, <2>1, <2>2, <2>3, <2>4, <2>5, <2>6, <2>7, <2>8, <2>9, <2>10, <2>11, <2>12, <2>13
       DEF Run
<1>2. CASE Die
  <2>1. UNCHANGED <<heads, ci>>
    BY <1>2 DEF Die, remote
  <2>2. run'.at = "idle" \/ FALSE
    BY <1>2, <1>g, <1>f DEF Die
  <2>3. run'.at \notin Assured
    BY <2>2, <1>t, <1>g, <1>n DEF Going, RunTyped
  <2> QED
    BY <2>1, <2>3, <1>d
<1>3. CASE Release
  BY <1>3, <1>c DEF Release, remote, ci
<1>4. CASE Index
  BY <1>4, <1>c DEF Index, remote, ci
<1>5. CASE CheckMoves
  <2>1. heads' = heads /\ run' = run /\ green \subseteq green'
    BY <1>5 DEF CheckMoves, remote
  <2>2. Passed(checks') => heads \in green'
    BY <1>5 DEF CheckMoves
  <2>3. Passed(checks)' <=> Passed(checks')
    BY DEF Passed
  <2> QED
    BY <2>1, <2>2, <2>3 DEF Checked
<1>6. CASE People
  <2> UNCHANGED <<latest, run>>
    BY <1>6 DEF People
  <2>1. ASSUME NEW p \in Pulls, PushCommit(p) PROVE Checked'
    BY <2>1, <1>e DEF PushCommit, Commit, Forget
  <2>2. ASSUME NEW p \in Pulls, EditBody(p) PROVE Checked'
    BY <2>2, <1>c DEF EditBody, remote, ci
  <2>3. ASSUME NEW p \in Pulls, ClosePR(p) PROVE Checked'
    BY <2>3, <1>e DEF ClosePR, Forget
  <2>4. ASSUME NEW p \in Pulls, MergePR(p) PROVE Checked'
    BY <2>4, <1>e DEF MergePR, Forget
  <2>5. ASSUME NEW i \in Numbers, ToggleIssue(i) PROVE Checked'
    BY <2>5, <1>c DEF ToggleIssue, remote, ci
  <2>6. ASSUME NEW i \in Numbers, RetypeIssue(i) PROVE Checked'
    BY <2>6, <1>c DEF RetypeIssue, remote, ci
  <2>7. ASSUME NEW i \in Numbers, DeleteBranch(i) PROVE Checked'
    <3>1. checks' = checks \/ checks' = Unchecked
      BY <2>7 DEF DeleteBranch, Forget
    <3> QED
      BY <2>7, <3>1, <1>c, <1>e DEF DeleteBranch
  <2> QED
    BY <1>6, <2>1, <2>2, <2>3, <2>4, <2>5, <2>6, <2>7 DEF People
<1>7. CASE UNCHANGED vars
  BY <1>7, <1>c DEF vars, remote, ci
<1> QED
  BY <1>1, <1>2, <1>3, <1>4, <1>5, <1>6, <1>7 DEF Next

-----------------------------------------------------------------------------
\* A pull request comes only from where a run creates it, a review from where one is dispatched.
CreatedInPlace  == Len(prs') = Len(prs) \/ run.at = "create"
ReviewedInPlace ==
  run'.reviewed = 0 \/ run.at = "idle" \/ (run.at = "review" /\ run'.reviewed = branch[run.issue])

LEMMA CreatedStep == (TypeOK /\ OneOpen /\ Ordered /\ Running) /\ [Next]_vars => CreatedInPlace
<1> SUFFICES ASSUME (TypeOK /\ OneOpen /\ Ordered /\ Running), [Next]_vars PROVE CreatedInPlace
  OBVIOUS
<1>a. Grown
  BY TypeStep
<1>b. prs' = prs => CreatedInPlace
  BY DEF CreatedInPlace
<1>c. Pulls' = Pulls => CreatedInPlace
  BY <1>a, LenProperties DEF Grown, Pulls, TypeOK, CreatedInPlace
<1>1. CASE Run
  <2>1. CASE Begin
    BY <2>1, <1>b DEF Begin, remote, ci
  <2>2. CASE FindPending
    BY <2>2, <1>b DEF FindPending, remote, ci
  <2>3. CASE Source
    BY <2>3, <1>b DEF Source, remote, ci
  <2>4. CASE StartBranch
    BY <2>4, <1>b DEF StartBranch, remote, ci
  <2>5. CASE Push
    BY <2>5, <1>b DEF Push, remote, ci
  <2>6. CASE CreatePR
    BY <2>6 DEF CreatePR, CreatedInPlace
  <2>7. CASE Redispatch
    BY <2>7, <1>b DEF Redispatch, remote, ci
  <2>8. CASE WaitChecks
    BY <2>8, <1>b DEF WaitChecks, remote, ci
  <2>9. CASE Reverify
    BY <2>9, <1>b DEF Reverify, remote, ci
  <2>10. CASE DispatchSmoke
    BY <2>10, <1>b DEF DispatchSmoke, remote, ci
  <2>11. CASE FinishSmoke
    BY <2>11, <1>b DEF FinishSmoke, remote, ci
  <2>12. CASE DispatchReview
    BY <2>12, <1>b DEF DispatchReview, remote, ci
  <2>13. CASE TimeOut
    BY <2>13, <1>b DEF TimeOut, remote, ci
  <2> QED
    BY <1>1, <2>1, <2>2, <2>3, <2>4, <2>5, <2>6, <2>7, <2>8, <2>9, <2>10, <2>11, <2>12, <2>13
       DEF Run
<1>2. CASE Die
  BY <1>2, <1>b DEF Die, remote, ci
<1>3. CASE Release
  BY <1>3, <1>b DEF Release, remote, ci
<1>4. CASE Index
  BY <1>4, <1>b DEF Index, remote, ci
<1>5. CASE CheckMoves
  BY <1>5, <1>b DEF CheckMoves, remote, ci
<1>6. CASE People
  <2> UNCHANGED <<latest, run>>
    BY <1>6 DEF People
  <2>1. ASSUME NEW p \in Pulls, PushCommit(p) PROVE CreatedInPlace
    <3>1. Pulls' = Pulls
      BY <2>1, <1>a, PeopleStates DEF NoneOpened
    <3> QED
      BY <3>1, <1>c
  <2>2. ASSUME NEW p \in Pulls, EditBody(p) PROVE CreatedInPlace
    <3>1. Pulls' = Pulls
      BY <2>2, <1>a, PeopleStates DEF NoneOpened
    <3> QED
      BY <3>1, <1>c
  <2>3. ASSUME NEW p \in Pulls, ClosePR(p) PROVE CreatedInPlace
    <3>1. Pulls' = Pulls
      BY <2>3, <1>a, PeopleStates DEF NoneOpened
    <3> QED
      BY <3>1, <1>c
  <2>4. ASSUME NEW p \in Pulls, MergePR(p) PROVE CreatedInPlace
    <3>1. Pulls' = Pulls
      BY <2>4, <1>a, PeopleStates DEF NoneOpened
    <3> QED
      BY <3>1, <1>c
  <2>5. ASSUME NEW i \in Numbers, ToggleIssue(i) PROVE CreatedInPlace
    BY <2>5, <1>b DEF ToggleIssue, remote, ci
  <2>6. ASSUME NEW i \in Numbers, RetypeIssue(i) PROVE CreatedInPlace
    BY <2>6, <1>b DEF RetypeIssue, remote, ci
  <2>7. ASSUME NEW i \in Numbers, DeleteBranch(i) PROVE CreatedInPlace
    <3>1. Pulls' = Pulls
      BY <2>7, <1>a, PeopleStates DEF NoneOpened
    <3> QED
      BY <3>1, <1>c
  <2> QED
    BY <1>6, <2>1, <2>2, <2>3, <2>4, <2>5, <2>6, <2>7 DEF People
<1>7. CASE UNCHANGED vars
  BY <1>7, <1>b DEF vars, remote, ci
<1> QED
  BY <1>1, <1>2, <1>3, <1>4, <1>5, <1>6, <1>7 DEF Next

LEMMA ReviewedStep == (TypeOK /\ Running) /\ [Next]_vars => ReviewedInPlace
<1> SUFFICES ASSUME (TypeOK /\ Running), [Next]_vars PROVE ReviewedInPlace
  OBVIOUS
<1>t. RunTyped
  BY TypeParts
<1>r. run.at = "idle" \/ run.reviewed = 0
  BY DEF Running
<1>s. run' = run => ReviewedInPlace
  BY <1>r DEF ReviewedInPlace
<1>g. /\ Stop => run'.reviewed = 0
      /\ \A step : Proceed(step) => run'.reviewed = run.reviewed
  BY <1>t DEF Stop, Idle, Proceed, RunTyped
<1>f. [Idle EXCEPT !.failed = FailedChecks].reviewed = 0
  BY DEF Idle
<1>1. CASE Run
  <2>1. CASE Begin
    BY <2>1 DEF Begin, ReviewedInPlace
  <2>2. CASE FindPending
    <3>1. run.at # "idle" /\ run.reviewed = 0
      BY <2>2 DEF FindPending, Running
    <3>2. ASSUME NEW p \in PendingPulls,
                 run' = [run EXCEPT !.at = "redispatch", !.issue = prs[p].issue, !.pr = p, !.head = prs[p].head]
          PROVE  run'.reviewed = run.reviewed
      BY <1>t, <3>2 DEF RunTyped
    <3> QED
      BY <2>2, <3>1, <3>2, <1>g DEF FindPending, ReviewedInPlace
  <2>3. CASE Source
    <3>1. run.at # "idle" /\ run.reviewed = 0
      BY <2>3 DEF Source, Running
    <3>2. Stop \/ \E i : run' = [run EXCEPT !.at = "branch", !.issue = i]
      BY <2>3 DEF Source
    <3> QED
      BY <3>1, <3>2, <1>t, <1>g, <1>f DEF ReviewedInPlace, RunTyped
  <2>4. CASE StartBranch
    <3>1. run.at # "idle" /\ run.reviewed = 0
      BY <2>4 DEF StartBranch, Running
    <3>2. Stop \/ Proceed("push")
      BY <2>4 DEF StartBranch
    <3> QED
      BY <3>1, <3>2, <1>t, <1>g, <1>f DEF ReviewedInPlace, RunTyped
  <2>5. CASE Push
    <3>1. run.at # "idle" /\ run.reviewed = 0
      BY <2>5 DEF Push, Running
    <3>2. Stop \/ run' = [run EXCEPT !.at = "create", !.head = heads + 1]
      BY <2>5 DEF Push
    <3> QED
      BY <3>1, <3>2, <1>t, <1>g, <1>f DEF ReviewedInPlace, RunTyped
  <2>6. CASE CreatePR
    <3>1. run.at # "idle" /\ run.reviewed = 0
      BY <2>6 DEF CreatePR, Running
    <3>2. Stop \/ run' = [run EXCEPT !.at = "wait", !.pr = Len(prs) + 1]
      BY <2>6 DEF CreatePR
    <3> QED
      BY <3>1, <3>2, <1>t, <1>g, <1>f DEF ReviewedInPlace, RunTyped
  <2>7. CASE Redispatch
    <3>1. run.at # "idle" /\ run.reviewed = 0
      BY <2>7 DEF Redispatch, Running
    <3>2. Stop \/ Proceed("wait")
      BY <2>7 DEF Redispatch
    <3> QED
      BY <3>1, <3>2, <1>t, <1>g, <1>f DEF ReviewedInPlace, RunTyped
  <2>8. CASE WaitChecks
    <3>1. run.at # "idle" /\ run.reviewed = 0
      BY <2>8 DEF WaitChecks, Running
    <3>2. Stop \/ Proceed("reverify") \/ run' = [Idle EXCEPT !.failed = FailedChecks]
      BY <2>8 DEF WaitChecks
    <3> QED
      BY <3>1, <3>2, <1>t, <1>g, <1>f DEF ReviewedInPlace, RunTyped
  <2>9. CASE Reverify
    <3>1. run.at # "idle" /\ run.reviewed = 0
      BY <2>9 DEF Reverify, Running
    <3>2. Stop \/ \E step, h : run' = [run EXCEPT !.at = step, !.looked = h]
      BY <2>9 DEF Reverify, Reverified
    <3> QED
      BY <3>1, <3>2, <1>t, <1>g DEF ReviewedInPlace, RunTyped
  <2>10. CASE DispatchSmoke
    <3>1. run.at # "idle" /\ run.reviewed = 0
      BY <2>10 DEF DispatchSmoke, Running
    <3>2. Stop \/ \E h : run' = [run EXCEPT !.at = "smoking", !.taken = h]
      BY <2>10 DEF DispatchSmoke
    <3> QED
      BY <3>1, <3>2, <1>t, <1>g, <1>f DEF ReviewedInPlace, RunTyped
  <2>11. CASE FinishSmoke
    <3>1. run.at # "idle" /\ run.reviewed = 0
      BY <2>11 DEF FinishSmoke, Running
    <3>2. Stop \/ run' = [run EXCEPT !.at = "again", !.smoked = run.head]
      BY <2>11 DEF FinishSmoke
    <3> QED
      BY <3>1, <3>2, <1>t, <1>g, <1>f DEF ReviewedInPlace, RunTyped
  <2>12. CASE DispatchReview
    <3>1. run.at = "review" /\ run'.reviewed = branch[run.issue]
      BY <2>12 DEF DispatchReview, Idle
    <3> QED
      BY <3>1 DEF ReviewedInPlace
  <2>13. CASE TimeOut
    BY <2>13, <1>g DEF TimeOut, ReviewedInPlace
  <2> QED
    BY <1>1, <2>1, <2>2, <2>3, <2>4, <2>5, <2>6, <2>7, <2>8, <2>9, <2>10, <2>11, <2>12, <2>13
       DEF Run
<1>2. CASE Die
  BY <1>2, <1>g DEF Die, ReviewedInPlace
<1>3. CASE Release
  BY <1>3, <1>s DEF Release, remote, ci
<1>4. CASE Index
  BY <1>4, <1>s DEF Index, remote, ci
<1>5. CASE CheckMoves
  BY <1>5, <1>s DEF CheckMoves, remote, ci
<1>6. CASE People
  <2> UNCHANGED <<latest, run>>
    BY <1>6 DEF People
  <2>1. ASSUME NEW p \in Pulls, PushCommit(p) PROVE ReviewedInPlace
    BY <2>1, <1>s DEF PushCommit, remote, ci
  <2>2. ASSUME NEW p \in Pulls, EditBody(p) PROVE ReviewedInPlace
    BY <2>2, <1>s DEF EditBody, remote, ci
  <2>3. ASSUME NEW p \in Pulls, ClosePR(p) PROVE ReviewedInPlace
    BY <2>3, <1>s DEF ClosePR, remote, ci
  <2>4. ASSUME NEW p \in Pulls, MergePR(p) PROVE ReviewedInPlace
    BY <2>4, <1>s DEF MergePR, remote, ci
  <2>5. ASSUME NEW i \in Numbers, ToggleIssue(i) PROVE ReviewedInPlace
    BY <2>5, <1>s DEF ToggleIssue, remote, ci
  <2>6. ASSUME NEW i \in Numbers, RetypeIssue(i) PROVE ReviewedInPlace
    BY <2>6, <1>s DEF RetypeIssue, remote, ci
  <2>7. ASSUME NEW i \in Numbers, DeleteBranch(i) PROVE ReviewedInPlace
    BY <2>7, <1>s DEF DeleteBranch, remote, ci
  <2> QED
    BY <1>6, <2>1, <2>2, <2>3, <2>4, <2>5, <2>6, <2>7 DEF People
<1>7. CASE UNCHANGED vars
  BY <1>7, <1>s DEF vars, remote, ci
<1> QED
  BY <1>1, <1>2, <1>3, <1>4, <1>5, <1>6, <1>7 DEF Next

-----------------------------------------------------------------------------
LEMMA InitInv == Init => IInv
<1> SUFFICES ASSUME Init PROVE IInv
  OBVIOUS
<1>1. /\ latest = 0 /\ pin = 0 /\ issues = <<>> /\ branch = <<>> /\ prs = <<>> /\ heads = 0
      /\ checks = Unchecked /\ green = {} /\ run = Idle /\ incidents = 0
  BY DEF Init
<1>2. Pulls = {} /\ OpenPulls = {} /\ Len(issues) = 0 /\ Len(prs) = 0 /\ Len(branch) = 0
  BY <1>1, EmptySeq DEF Pulls, OpenPulls
<1>3. RunTyped
  BY <1>1, <1>2, BoundsAssumption DEF RunTyped, Idle, Steps
<1>4. IssuesTyped /\ BranchTyped /\ PullsTyped
  BY <1>1, <1>2, EmptySeq DEF IssuesTyped, BranchTyped, PullsTyped
<1>5. ChecksTyped /\ CountsTyped
  BY <1>1, BoundsAssumption DEF ChecksTyped, CountsTyped, Unchecked, Status
<1>6. run.at = "idle" /\ "idle" \notin Proposing \union Proposed
  BY <1>1 DEF Idle, Proposing, Proposed
<1>7. OneOpen /\ Ordered /\ Running /\ Dispatched
  BY <1>1, <1>2, <1>6 DEF OneOpen, Ordered, Running, Dispatched
<1>8. Checked
  BY <1>1, <1>6, UncheckedNotPassed DEF Checked, Assured
<1> QED
  BY <1>3, <1>4, <1>5, <1>7, <1>8, TypeParts DEF IInv

LEMMA StepInv == IInv /\ [Next]_vars => IInv'
BY TypeStep, OneOpenStep, OrderedStep, RunningStep, DispatchedStep, CheckedStep DEF IInv, Grown

(* Every reachable state of the updater and of what it works on satisfies the inductive
   invariant. *)
THEOREM Invariant == Spec => []IInv
<1>1. Init => IInv
  BY InitInv
<1>2. IInv /\ [Next]_vars => IInv'
  BY StepInv
<1> QED
  BY <1>1, <1>2, PTL DEF Spec

(* Issues, branches, pull requests, checks and the run of the workflow keep their types. *)
THEOREM TypeCorrect == Spec => []TypeOK
<1>1. IInv => TypeOK
  BY DEF IInv
<1> QED
  BY <1>1, Invariant, PTL

(* --wait-checks and --reverify-release-pr before --smoke-preflight, which is dispatched for
   the branch: the runner is taken for the commit of which all required checks had passed at
   one moment, or for one pushed after the last look at the pull request, and for no other,
   whatever is pushed, closed, merged or deleted meanwhile. *)
THEOREM SmokeChecked == Spec => []CheckedBeforeSmoke
<1>1. IInv => CheckedBeforeSmoke
  <2> SUFFICES ASSUME IInv, run.at = "smoking"
               PROVE  run.head \in green /\ (run.taken = run.head \/ run.taken > run.looked)
    BY DEF CheckedBeforeSmoke
  <2>1. run.head \in green
    BY DEF IInv, Checked, Assured, Proposed
  <2>2. run.taken >= run.head /\ run.looked = run.head
    BY DEF IInv, Dispatched
  <2>3. run.taken \in Nat /\ run.head \in Nat
    BY TypeParts DEF IInv, RunTyped, BranchTyped
  <2> QED
    BY <2>1, <2>2, <2>3
<1> QED
  BY <1>1, Invariant, PTL

(* --pending-pr before gh pr create: a release gets a second pull request only when the
   first was merged, and then only from a run that checked main out before the merge. *)
THEOREM ReleaseProposedOnce == Spec => ProposedOnce
<1>1. IInv /\ [Next]_vars
        => [\A p \in Pulls : Len(prs') > Len(prs) /\ VersionOf(p) = run.version =>
              prs[p].state = "merged" /\ run.base < pin]_vars
  <2> SUFFICES ASSUME IInv, [Next]_vars, NEW p \in Pulls, Len(prs') > Len(prs), VersionOf(p) = run.version
               PROVE  prs[p].state = "merged" /\ run.base < pin
    OBVIOUS
  <2>1. run.at = "create"
    <3>1. Len(prs) \in Nat
      BY LenProperties DEF IInv, TypeOK
    <3> QED
      BY <3>1, CreatedStep DEF IInv, CreatedInPlace
  <2>2. prs[p].state = "merged"
    BY <2>1 DEF IInv, Running, Proposing
  <2>3. VersionOf(p) <= pin /\ run.base < run.version
    BY <2>1, <2>2 DEF IInv, Ordered
  <2>4. run.base \in Nat /\ run.version \in Nat /\ pin \in Nat
    BY TypeParts, BoundsAssumption DEF IInv, RunTyped, CountsTyped
  <2> QED
    BY <2>2, <2>3, <2>4
<1> QED
  BY <1>1, Invariant, PTL DEF Spec, ProposedOnce

(* --smoke-preflight and --reverify-release-pr before the dispatch of the Harness review: a
   review follows a smoke that took the runner for the run's commit and passed on it, after
   its checks had passed, and it is of that commit or of one pushed after the last look. *)
THEOREM ReviewAfterSmoke == Spec => ReviewFollowsSmoke
<1>1. IInv /\ [Next]_vars
        => [run'.reviewed # 0 /\ run.at # "idle" =>
              /\ run.smoked = run.head /\ run.taken = run.head /\ run.head \in green
              /\ run'.reviewed = run.head \/ run'.reviewed > run.looked]_vars
  <2> SUFFICES ASSUME IInv, [Next]_vars, run'.reviewed # 0, run.at # "idle"
               PROVE  /\ run.smoked = run.head /\ run.taken = run.head /\ run.head \in green
                      /\ run'.reviewed = run.head \/ run'.reviewed > run.looked
    OBVIOUS
  <2>1. run.at = "review" /\ run'.reviewed = branch[run.issue]
    BY ReviewedStep DEF IInv, ReviewedInPlace
  <2>2. run.at \in Proposed /\ run.at \in Assured
    BY <2>1 DEF Proposed, Assured
  <2>3. run.smoked = run.head /\ (branch[run.issue] = 0 \/ branch[run.issue] >= run.head)
    BY <2>1, <2>2 DEF IInv, Running
  <2>4. run.taken = run.head /\ run.looked = run.head
    BY <2>1 DEF IInv, Dispatched
  <2>5. run.head \in green
    BY <2>2 DEF IInv, Checked
  <2>6. run.head \in Nat /\ branch[run.issue] \in Nat
    <3>1. run.issue \in Numbers
      BY <2>2 DEF IInv, Running
    <3> QED
      BY <3>1, TypeParts, ElementOfSeq DEF IInv, RunTyped, BranchTyped, Numbers
  <2> QED
    BY <2>1, <2>3, <2>4, <2>5, <2>6
<1> QED
  BY <1>1, Invariant, PTL DEF Spec, ReviewFollowsSmoke
=============================================================================
