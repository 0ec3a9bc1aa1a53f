------------------------- MODULE ArchitectureReview -------------------------
(***************************************************************************)
(* The Harness architecture review of one pull request:                    *)
(* runArchitectureReview with deterministicReview, and runSemanticReview   *)
(* of scripts/lib/architecture-review-agent.mjs, on the one self-hosted    *)
(* runner.  A review keeps a manifest for each fingerprint of its evidence *)
(* and works in steps; the workflow cancels it when the pull request       *)
(* changes, so a kill may come between any two.                            *)
(*                                                                         *)
(* A fingerprint is abstracted to what tells two reviews apart here: the   *)
(* commit, the description and the readiness of the checks.                *)
(***************************************************************************)
EXTENDS Naturals, Sequences, CheckReadiness, Traceability

CONSTANTS
  Base,            \* the revision the pull request is compared with
  Revisions,       \* by name, the revisions that a commit of the pull request may hold
  MaxIncidents     \* what people do, kills, failures, repeated checks

ASSUME BoundsAssumption == MaxIncidents \in Nat

\* The revisions that the deterministic rules let pass.
Passing == {name \in DOMAIN Revisions : RulesPass(Base, Revisions[name])}
ASSUME RevisionsAssumption == Passing # {} /\ "none" \notin DOMAIN Revisions
\* The base was merged through the same rules: its index is generated, its markers resolve.
ASSUME BaseAssumption == IndexEqual(Base) /\ Resolved(Base)

View     == {"complete", "failed", "late", "unread"}
Verdict  == {"aligned", "findings"}
Steps    == {"idle", "read", "wait", "recheck", "assemble", "client", "thread", "save",
             "turn", "running", "settle", "report"}

VARIABLES
  pr,         \* the pull request: open, the number of its head commit, the revision in
              \* that commit, and the commit its evidence marker names
  checks,     \* the latest run of each required check on the head
  other,      \* another job of the head is still running
  green,      \* the head, and the head of the review, if all checks had passed at some moment
  proc,       \* the review that runs
  manifests,  \* the saved manifests, by evidence: status, thread, verdict
  threads,    \* the Codex threads: their evidence, and whether a turn left a rollout
  verdicts,   \* the verdicts reported for an evidence
  incidents

github == <<pr, checks, other, green>>
disk   == <<manifests, threads>>
vars   == <<github, proc, disk, verdicts, incidents>>

\* A review: its step, the commit it checked out and the revision in it, the description
\* it read, whether the runner's preflight and sandbox steps passed, what it saw of the
\* checks, its thread.
Idle == [at |-> "idle", head |-> 0, rev |-> "none", body |-> 0, gate |-> FALSE, view |-> "unread",
         thread |-> 0, verdict |-> "none"]
End == proc' = Idle
Proceed(step) == proc' = [proc EXCEPT !.at = step]
Happens == incidents < MaxIncidents /\ incidents' = incidents + 1

Evidence == [head : 1..(MaxIncidents + 1), body : 0..(MaxIncidents + 1), view : View]
Fingerprint == [head |-> proc.head, body |-> proc.body, view |-> proc.view]
\* reviewStateLocation(): one directory for each fingerprint.
Location(e) == e

Saved(e) == Location(e) \in DOMAIN manifests
Manifest(e) == manifests[Location(e)]
Write(status, thread, verdict) ==
  LET at  == Location(Fingerprint)
      new == [status |-> status, thread |-> thread, verdict |-> verdict]
  IN  manifests' = [m \in DOMAIN manifests \union {at} |-> IF m = at THEN new ELSE manifests[m]]

\* deterministicReview(): the rules on the commit's decisions and primitives, and the
\* delivery evidence in the description, which must name this very commit.  The pin of
\* the architecture authority, the change of the review's own workflow and the name of
\* the branch are left out.
EvidenceFits(head, body) == body \in {0, head}
Deterministic(rev, head, body) == rev \in Passing /\ EvidenceFits(head, body)

-----------------------------------------------------------------------------
\* The checks of the head.  The review is itself a job of the head; runs of its own
\* workflow are left out of what it waits for.
OwnJobs == IF proc.at = "idle" THEN {} ELSE {"review"}
NoHarness == {}
VerifiedHarness == {"review"}
AllRunsComplete == ~other /\ OwnJobs \ VerifiedHarness = {} /\ Pending(checks) = {}
PreliminaryReady == Ready(checks, {})
\* While the checks are not ready their workflows are not asked for.
FailedChecks == IF PreliminaryReady THEN WrongWorkflow(checks, TRUE) ELSE Failed(checks)
Complete == PreliminaryReady /\ FailedChecks = {} /\ AllRunsComplete

\* A run starts: for an event or by hand, on the head of that moment.  Preflight and
\* sandbox run first; with a deterministic violation the semantic review is skipped.
Start ==
  /\ proc.at = "idle" /\ pr.open /\ Deterministic(pr.rev, pr.head, pr.body)
  /\ \E gate \in BOOLEAN :
       /\ proc' = [Idle EXCEPT !.at = "read", !.head = pr.head, !.rev = pr.rev,
                               !.body = pr.body, !.gate = gate]
       /\ IF gate THEN UNCHANGED incidents ELSE Happens
  /\ UNCHANGED <<github, disk, verdicts>>

\* pullRequestEvidence(): the live pull request, then its checks.  Only a review
\* that may start a turn waits for them.
Read ==
  /\ proc.at = "read"
  /\ \/ pr.head # proc.head /\ End
     \/ /\ pr.head = proc.head
        /\ proc' = [proc EXCEPT !.at = IF proc.gate THEN "wait" ELSE "assemble", !.body = pr.body,
             !.view = CASE proc.gate -> "unread" [] Complete -> "complete"
                        [] FailedChecks # {} -> "failed" [] OTHER -> "late"]
  /\ UNCHANGED <<github, disk, verdicts, incidents>>

\* One reading of the checks; the wait ends by itself after fifteen minutes.
Seen(view) == proc' = [proc EXCEPT !.at = "recheck", !.view = view]
Wait ==
  /\ proc.at = "wait"
  /\ \/ Complete /\ Seen("complete")
     \/ FailedChecks # {} /\ Seen("failed")
     \/ ~Complete /\ FailedChecks = {} /\ Seen("late")
  /\ UNCHANGED <<github, disk, verdicts, incidents>>

\* The pull request again: closed or moved, it is not reviewed.
Recheck ==
  /\ proc.at = "recheck"
  /\ IF pr.open /\ pr.head = proc.head
     THEN proc' = [proc EXCEPT !.at = "assemble", !.body = pr.body]
     ELSE End
  /\ UNCHANGED <<github, disk, verdicts, incidents>>

\* The saved state: directories of thirty days ago are pruned, a completed review of
\* this fingerprint is returned, and a turn needs the preflight and the checks.
Completed(e) == Saved(e) /\ Manifest(e).status = "completed"
GateIgnoresChecks == proc.gate
GatePassed == proc.gate /\ proc.view = "complete"
Assemble ==
  /\ proc.at = "assemble"
  /\ IF Completed(Fingerprint)
     THEN proc' = [proc EXCEPT !.at = "report", !.verdict = Manifest(Fingerprint).verdict]
     ELSE IF GatePassed THEN Proceed("client") ELSE End
  /\ UNCHANGED <<github, disk, verdicts, incidents>>
\* A directory became thirty days old before this review looked at it.
Prune ==
  /\ proc.at = "assemble" /\ Happens
  /\ \E e \in DOMAIN manifests :
       /\ manifests' = [m \in DOMAIN manifests \ {e} |-> manifests[m]]
       /\ threads' = [t \in 1..Len(threads) |->
                        IF threads[t].of = e THEN [threads[t] EXCEPT !.rolled = FALSE] ELSE threads[t]]
       /\ verdicts' = {v \in verdicts : v.of # e}
  /\ UNCHANGED <<github, proc>>

\* initialize() and capabilities(): no turn without the allowance.
Client ==
  /\ proc.at = "client"
  /\ \/ Proceed("thread") /\ UNCHANGED incidents
     \/ End /\ Happens
  /\ UNCHANGED <<github, disk, verdicts>>

\* The thread of the unfinished manifest, which the app-server can resume once a
\* turn has left a rollout; otherwise a new one.  A failure is saved as interrupted.
CanResumeUnlessKilled(e) == Saved(e) /\ Manifest(e).status \in {"interrupted", "retryable"}
CanResume(e) == Saved(e) /\ Manifest(e).status # "completed"
OpenThread ==
  /\ proc.at = "thread"
  /\ IF CanResume(Fingerprint)
     THEN LET t == Manifest(Fingerprint).thread IN
          /\ UNCHANGED threads
          /\ \/ /\ threads[t].rolled
                /\ proc' = [proc EXCEPT !.at = "save", !.thread = t]
                /\ UNCHANGED <<manifests, incidents>>
             \/ /\ Write("interrupted", t, "none") /\ End
                /\ IF threads[t].rolled THEN Happens ELSE UNCHANGED incidents
     ELSE /\ threads' = Append(threads, [of |-> Fingerprint, rolled |-> FALSE])
          /\ proc' = [proc EXCEPT !.at = "save", !.thread = Len(threads) + 1]
          /\ UNCHANGED <<manifests, incidents>>
  /\ UNCHANGED <<github, verdicts>>

\* The thread is saved before the turn.
Save ==
  /\ proc.at = "save" /\ Write("in-progress", proc.thread, "none") /\ Proceed("turn")
  /\ UNCHANGED <<github, threads, verdicts, incidents>>

\* runTurn(): stopped before the turn starts, by the allowance or an error, or started.
Interrupt == Write("interrupted", proc.thread, "none") /\ End /\ Happens
Turn ==
  /\ proc.at = "turn"
  /\ \/ Interrupt /\ UNCHANGED threads
     \/ /\ threads' = [threads EXCEPT ![proc.thread].rolled = TRUE] /\ Proceed("running")
        /\ UNCHANGED <<manifests, incidents>>
  /\ UNCHANGED <<github, verdicts>>
EndTurn ==
  /\ proc.at = "running"
  /\ \/ Interrupt
     \/ \E v \in Verdict \union {"inconclusive"} :
          /\ proc' = [proc EXCEPT !.at = "settle", !.verdict = v] /\ UNCHANGED manifests
          /\ IF v = "inconclusive" THEN Happens ELSE UNCHANGED incidents
  /\ UNCHANGED <<github, threads, verdicts>>

\* The manifest first, then the report of the job.
SettleUnsaved ==
  /\ proc.at = "settle"
  /\ verdicts' = verdicts \union ({[of |-> Fingerprint, says |-> proc.verdict]} \ {[of |-> Fingerprint, says |-> "inconclusive"]})
  /\ IF proc.verdict \in Verdict THEN Proceed("report") ELSE End
  /\ UNCHANGED <<github, disk, incidents>>
Settle ==
  /\ proc.at = "settle"
  /\ IF proc.verdict \in Verdict
     THEN Write("completed", proc.thread, proc.verdict) /\ Proceed("report")
     ELSE Write("retryable", proc.thread, "none") /\ End
  /\ UNCHANGED <<github, threads, verdicts, incidents>>
Report ==
  /\ proc.at = "report"
  /\ verdicts' = verdicts \union {[of |-> Fingerprint, says |-> proc.verdict]}
  /\ End
  /\ UNCHANGED <<github, disk, incidents>>

\* The workflow cancels the job, or the runner dies.
Kill ==
  /\ proc.at # "idle" /\ Happens /\ End
  /\ UNCHANGED <<github, disk, verdicts>>

-----------------------------------------------------------------------------
\* GitHub and the people.

\* A commit, with the same revision as before or another.  Only the checks of the head
\* matter.
PushCommit ==
  /\ pr.open /\ Happens
  /\ \E rev \in DOMAIN Revisions : pr' = [pr EXCEPT !.head = @ + 1, !.rev = rev]
  /\ checks' = Unchecked /\ other' = FALSE /\ green' = green \intersect {proc.head}
  /\ UNCHANGED <<proc, disk, verdicts>>
\* A description without a marker, or with the marker of the head.
EditBody ==
  /\ Happens
  /\ \E body \in {0, pr.head} \ {pr.body} : pr' = [pr EXCEPT !.body = body]
  /\ UNCHANGED <<checks, other, green, proc, disk, verdicts>>
CloseOrReopen ==
  /\ Happens /\ pr' = [pr EXCEPT !.open = ~@]
  /\ UNCHANGED <<checks, other, green, proc, disk, verdicts>>

\* Checks register and end; only an incident starts one again.
CheckMoves ==
  /\ \/ \E c \in Checks : \E to \in Following(checks[c]) :
          /\ checks' = [checks EXCEPT ![c] = to] /\ UNCHANGED other
          /\ IF checks[c] \in {"missing", "pending"} THEN UNCHANGED incidents ELSE Happens
     \/ other /\ other' = FALSE /\ UNCHANGED <<checks, incidents>>
     \/ ~other /\ other' = TRUE /\ Happens /\ UNCHANGED checks
  /\ green' = IF Passed(checks') /\ ~other' THEN green \union {pr.head} ELSE green
  /\ UNCHANGED <<pr, proc, disk, verdicts>>

-----------------------------------------------------------------------------
Init ==
  /\ pr \in [open : {TRUE}, head : {1}, rev : Passing, body : {0, 1}]
  /\ checks = Unchecked /\ other = FALSE /\ green = {}
  /\ proc = Idle /\ manifests = [m \in {} |-> Idle] /\ threads = <<>>
  /\ verdicts = {} /\ incidents = 0

Review ==
  \/ Start \/ Read \/ Wait \/ Recheck \/ Assemble \/ Client \/ OpenThread \/ Save
  \/ Turn \/ EndTurn \/ Settle \/ Report

Next == Review \/ Prune \/ Kill \/ PushCommit \/ EditBody \/ CloseOrReopen \/ CheckMoves

Spec == Init /\ [][Next]_vars

\* A review that runs goes on, reviews are run again until there is a verdict, and
\* the checks of the head end.
FairSpec == Spec /\ WF_vars(Review) /\ WF_vars(CheckMoves)

-----------------------------------------------------------------------------
\* The type invariant.
TypeOK ==
  /\ pr \in [open : BOOLEAN, head : Nat \ {0}, rev : DOMAIN Revisions, body : Nat] /\ pr.body <= pr.head
  /\ green \subseteq 1..pr.head /\ other \in BOOLEAN
  /\ checks \in [Checks -> Status]
  /\ proc \in [at : Steps, head : 0..pr.head, rev : {"none"} \union DOMAIN Revisions,
               body : 0..pr.head, gate : BOOLEAN, view : View,
               thread : 0..Len(threads), verdict : Verdict \union {"none", "inconclusive"}]
  /\ DOMAIN manifests \subseteq Evidence
  /\ \A e \in DOMAIN manifests :
       manifests[e] \in [status : {"in-progress", "interrupted", "retryable", "completed"},
                         thread : 1..Len(threads),
                         verdict : Verdict \union {"none"}]
  /\ threads \in Seq([of : Evidence, rolled : BOOLEAN])
  /\ verdicts \subseteq [of : Evidence, says : Verdict]
  /\ incidents \in 0..MaxIncidents

\* The same evidence has one verdict: whoever re-runs a review, or wherever an
\* earlier one was killed, nobody is told aligned and findings of the same thing.
OneVerdict == \A v, w \in verdicts : v.of = w.of => v = w

\* A review starts a model turn.
TurnStarts == proc.at = "turn" /\ proc'.at = "running"

\* "The thread UUID is saved before the model turn; an interrupted review resumes the
\* same thread" (docs/delivery/codex-workflow.md:382): the turns spent on an evidence
\* are turns of one thread, also when the review was killed in its middle.
OneThread ==
  \A t, u \in 1..Len(threads) :
    threads[t].rolled /\ threads[u].rolled /\ threads[t].of = threads[u].of => t = u

\* No model turn for a commit whose decisions and primitives do not fit, nor before the
\* runner's own checks passed and all checks of that very commit had passed at one moment.
TurnOnlyAfterGate ==
  [][TurnStarts => proc.gate /\ proc.head \in green /\ Traceable(Base, Revisions[proc.rev])]_vars

\* A saved thread without a rollout cannot be resumed, and nothing replaces it: the
\* evidence stays without a verdict until it changes.
Poisoned(e) == CanResume(e) /\ ~threads[Manifest(e).thread].rolled
\* An open pull request gets its verdict, unless it is to be skipped or a required
\* check failed: the review does not wait for its own job, and no interruption but
\* that one is final.
Concluded == \E v \in verdicts : v.of = [head |-> pr.head, body |-> pr.body, view |-> "complete"]
ReviewConcludes ==
  []<>(\/ ~pr.open \/ ~Deterministic(pr.rev, pr.head, pr.body) \/ FailedChecks # {}
       \/ Poisoned([head |-> pr.head, body |-> pr.body, view |-> "complete"])
       \/ Concluded)
=============================================================================
