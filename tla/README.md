# A TLA+ verification development of agentic-delivery

`agentic-delivery` runs a coding agent on behalf of GitHub issues.  A GitHub App
webhook is received by a gateway, which dispatches it to a controller workflow;
the workflow classifies the issue and runs one *operation* of the agent: it
refines, asks, plans, edits, validates, commits and publishes.  Beside it work a
reviewer of the architecture of every pull request and a weekly updater of the
agent's own pinned release.  Most of the code is about not losing, repeating or
mixing up any of that while several processes that know nothing of each other
crash, time out and are retried, and while people change what they work on.
That is what is modelled here.

The references below are to files under `src/`.  N stands for
`scripts/lib/neon-replay-store.mjs`, R for `api/cron/reconcile-webhooks.mjs`, W
for `api/github/webhook.mjs`, D for `scripts/codex-delivery.mjs`, L and C for
`codex-loop.mjs` and `codex-client.mjs` and A for
`architecture-review-agent.mjs` in `scripts/lib`, I for
`scripts/issue-intake.mjs` and U for `scripts/codex-cli-release-update.mjs`.

## 1. The system: an inventory

```
GitHub ──webhook──▶ gateway (W) ──repository_dispatch──▶ workflow
   ▲                 │    claim, receipt                    prepare ─ record ─ intake (I) ─ deliver (D) ─ finalize
   │ redelivery      ▼                                        │ receipt         │ type, fields │ checkpoint, lock,
reconciler (R) ◀── Neon tables (N) ◀──────────────────────────┘                 ▼              ▼ workspace
   cron                                                                  issue on GitHub   Codex app-server (L, C)

updater (U), weekly ──Task, branch, pull request, smoke──▶ architecture review (A) ──verdict──▶ people
```

| part | state it keeps | operations | what is hard | what makes it correct |
|---|---|---|---|---|
| gateway (W, N) | `webhook_replay_claims`: status, token, lease, expiry | turn away, check receipt, claim with lease, dispatch, mark dispatched, release, answer | concurrent redeliveries, lost answers, lapsed leases | one confirmed dispatch per replay window; success is answered only after an accepted dispatch |
| controller receipt (N, `prepare-`, `record-`, `finalize-*.mjs`) | `webhook_controller_receipts`: status, token, lease, attempts, attribution, expiry | ensure, claim, record identity, complete, retry, exhaust, clean up | reruns of jobs, duplicate finalizers, crashes between statements, retention | one live holder, bounded attempts, one completion |
| reconciler (R, N) | scan state, observations, redelivery requests | scan a segment, merge, link, queue, request, mark, exhaust, save or advance | overlapping runs, segments of a growing history, lost answers, limits | no failed delivery below the checkpoint without a request; each is resolved in the end |
| intake and routing (I, `issue-routing`, `orchestration-policy`, `intake-policy`) | none of its own; the issue's type and fields | read, propose, decide, write type, write fields, start the delivery | a model turn between reading and writing, overlapping runs, echoes of its own writes, minutes between a delivery's admission and its turn | what was decided is written whole; only a writer's event acts; a turn starts only on an issue that allows it, as far as the call can have seen |
| lifecycle and issue fields (`lifecycle-transitions`, `issue-field-api`, `issue-metadata`) | stage, readiness, type of an issue | transition, set field | writes in several calls, edits by people | only transitions of the catalogue |
| refinement and decomposition (D 1075-1440) | rounds, child issues, lineage in the checkpoint | refine, ask, work a phase, decompose, create, link, coordinate | a child created but not saved or not linked, a search that reads only the newest thousand entries | no work item gets a second issue within the reach of a search |
| audit outbox and conversation (D 541-595, 1731-1746) | entries waiting to be posted, waiting boundary | save, flush, hand off, accept an answer | a kill between posting and saving, comments in between | every text is posted, in order; an answer follows its question |
| delivery controller (D, `operation-active-time`, `operation-budget-policy`, `github-app`) | the saved checkpoint, the account lock, the workspace, the token | admit, start, turn, plan, branch, implement, validate, commit, push, fail, clean up | kills anywhere, edits and comments during a run, several clean-up steps | charges precede consumption; only validated trees are published; events act once |
| Codex session and turn (L, C, `quota-diagnostics`) | pending requests, timers, the chain of publications, the process group | open, start a turn, read, publish, poll the allowance, stop, time out, terminate | callbacks in any order, late answers, a server that dies | a completion is the turn's own and fully published; every turn returns |
| release updater (U, its workflow, `start-issue-branch`, `classify-codex-cli-updater-review`, `pull-request-check-readiness`) | nothing but GitHub: a Task, a branch, a pull request | find, create, push, wait for checks, smoke, hand to review | runs that die, a lagging search, people who edit | one proposal per release; on the runner only what was checked, or pushed after the last look |
| architecture review (A, `architecture-review`, `adr-traceability`) | a manifest and a thread per evidence | gate, wait, open or resume a thread, turn, report | cancellation at any step, moving checks, its own job among those it waits for | one verdict and one thread per evidence, no turn before the gates |
| file and in-memory replay stores (`replay-protection`) | marker and receipt files | claim, mark, release, claim/complete/retry | several processes on one directory | as for the gateway and the receipt |
| operation budgets, operation receipts | budget rows, journal files | reserve, settle; write once | – | – |
| envelopes, participants, evaluation-finding router | none | validate, look up, propose | – | – |
| operator scripts, validators, workflows, schemas | – | – | – | – |

The interactions that matter: the gateway reads the receipt before it claims;
the workflow claims the receipt the gateway ensured; the reconciler reads the
history GitHub keeps of the gateway's answers and the receipts the workflow
leaves open, and makes GitHub call the gateway again.  Intake writes an issue
that the delivery reads again minutes later, and each write is an event that
starts another intake.  The delivery controller does not know about receipts:
it has its own record of the events it acted on.  It drives Codex through one
session per operation.  The updater opens a pull request whose checks and review
are those of every other.  The hazards of each part are listed in `PROJECT.json`
at the line where they bite.

## 2. The modules

| module | models | notes |
|---|---|---|
| `LeasedWork` | what a receipt promises: work is granted to one holder at a time, is done or given up, and ends | abstract |
| `ControllerReceipt` | the receipt row and the workflow attempts that write it | implements `LeasedWork` |
| `DeliveryReconciler` | the cron job, its three tables, GitHub's history | |
| `DispatchClaim` | the gateway's claim | |
| `IssueCatalogue` | types, lifecycle, patterns and the rules over them | operators; used by the next two |
| `IssueIntake` | runs of intake on one issue, and the delivery they start up to its turns | |
| `Refinement` | calls of `deliver()` before there is a plan, the outbox, the children | |
| `DeliveryController` | one operation from plan to publication over all calls of `deliver()` | |
| `CodexAdmission` | what the client accepts of models, configuration and allowance | operators; used by `CodexTurn` |
| `CodexTurn` | one session with one turn, callback by callback | |
| `CheckReadiness` | when the required checks of a commit count as passed | operators; used by the next and by the review |
| `CodexRelease` | the updater's runs against GitHub and people | |
| `Traceability` | decisions, the primitives that implement them, and the rules on a change | operators; used by the review |
| `ArchitectureReview` | reviews of one pull request | |
| `ControllerReceiptProofs`, `DeliveryReconcilerProofs`, `RefinementProofs`, `DeliveryControllerProofs`, `CodexTurnProofs`, `CodexReleaseProofs`, `ArchitectureReviewProofs` | the theorems about the module they are named for | section 5 |
| `EntryProofs` | the theorems about `DispatchClaim` and, through the instance `Intake`, `IssueIntake` | section 5 |
| `MC…` | the instances TLC checks | definitions for the `.cfg` files only |

Definitions that a comment calls a slip (`ClaimableWhileRunning`, `PushClean`, …)
are not used by any specification.  Each is a wrong version of the definition
after it; substituting it makes TLC refute the property named in `PROJECT.json`
"mutants", which shows that the property is about the code.

### ControllerReceipt

State: `row` is the one row of `webhook_controller_receipts` (absent when there
is none), `phase` where each workflow attempt is, `outcome` what its jobs
reported, `now` the database clock, `grantEnd` and the counters histories of
grants and completions.  One action per SQL statement, because each statement is
a transaction of its own and anything may happen between two: `Ensure`
(N 63-136, also by the gateway), `PrepareClaim` (N 138-168), `RecordIdentity`
(N 170-186), `FinalizeRecord`/`FinalizeSettle` (finalize-agent-invocation.mjs),
`ExhaustExpired` (N 211-226), `CleanupExpired` (the clean-up CTE of N 63-76, run
by the ensure of another delivery).  `RerunFailedJobs` and `RepeatFinalizer` are
what GitHub Actions lets an operator do; `Crash` is the loss of a runner.  The
identity recorded by an attempt is reduced to the source it stands for
(`SourceOf`, the participant's controller pin) and its owner.

`grantEnd`, `Exists` and `SourceOf` carry the abstraction: lengths of time are
small naturals, not milliseconds; repository, issue and run numbers of the
identity are one value since they are compared only as a whole.

### DeliveryReconciler

A delivery attempt is named by its position in GitHub's history; a segment of a
scan is an interval of positions.  There is one action per statement or
request of `reconcileWebhookDeliveries`; every run keeps what the code keeps in
local variables (`snap`, `next`, `high`, `seen`, `due`, `ids`, `todo`), so that
what it writes may be stale.  `Crash` stops a run between any two of them.
Simplifications: pages behind the first do not change, so that all fetches are
one step; the cooldown is a flag that time may set (`CoolDown`), and a receipt's
due time a choice; `MissRequest` joins the exhausting UPDATE and the status
SELECT of a claim that missed; the budget of requests per run, the archived
status and the issue-60 operator scripts are left out.

### DispatchClaim

One delivery, any number of gateway requests: `TurnAway` (the refusals that one
request may meet and the next not: who may invoke, whether the repository admits it,
W 121-147, 206-274), `Check` (ensure and read the receipt, W 275-295), `Claim`/`Miss`/`AnswerMiss`
(W 296-315), `Send`, `Arrive`, `Hear`, `LoseAnswer` (the POST, its arrival at
GitHub, its answer or the lack of one), `MarkDispatched`, `Release`, `Reply`.
`PurgeExpired` is the expired-claims CTE run for another delivery.  After an
ambiguous outcome the claim keeps its lease (W 330-337); when that lapses another
request may dispatch the delivery again.  This is intended and absorbed by the
controller receipt, so `ConfirmedWindowApart` speaks of *confirmed* dispatches.
What a delivery alone decides (signature, event filter, mention) is the same for
all of its requests and left out.

### IssueIntake and IssueCatalogue

`issue` is the issue on GitHub, `runs` the overlapping runs of the workflow (it has
no concurrency group), `saved` the state its delivery left, `echoes` the events of
the App's own writes.  A run is `Ask`ed for by a person or started by an `Echo`;
it `Read`s once (I 282-424), `Reason`s (the model turn, then
`validateRoutingProposal`, `classifyIssue` and the pattern), writes the type
(`WriteType`), then the fields that differ from its reading (`WriteFields`, I 177-202), and
its route is delivered.  `Fail` ends a run at any write.  `Edit`, `Comment` and
`Provision` are people and the organization's owners.

`work` is the delivery that holds the account lock, step by step, since minutes lie
between its admission and its turn: `Deliver` takes the lock and makes the first reading
(D 970-1007), `AdmitPlan` the second, which only a plan has (D 1009-1038); `Brief`
comes after context, audit, clone and conversation (D 1073-1163) and may find the
plan of an implementation stale; `Check`, `Write` and `Observe` are `transitionState`
(D 899-952), which an implementation makes before each of its turns and a plan only
after its turn; `Bind` is the binding of the source
before every turn (`requireBoundSource` in `performTurn`, D 482, 530), `Turn` the
turn, `Outcome` what follows.  `Stop` ends the call at any step: a check that fails,
an error, a shutdown.  `work.changed` is a history: which parts of the issue (its
state; type, stage, readiness, label and form; the organization's fields) somebody
else changed since the call last read them.  `saved` is `paused` (to plan),
`planning` (waiting for an answer), `planned` (the plan is there, the issue not yet
moved), `valid` or `stale`.  Simplifications: one reading is one instant, and so are
the check directly before a write and that write (the property is about turns; what was
written is observed, and the source bound again, before each); a delivery that was refused
leaves no saved state; deliveries by other routes, and that of a parent, hold the lock (`elsewhere`) and
change nothing here.
The proposal of the model is any member of the values its schema allows.  Labels,
forms and the conversation are a flag each (an ADR label blocks, the form is
filled in, a later human comment exists).

### Refinement

`saved` is the checkpoint — every change of `state` is saved at once, so that one
record stands for memory and disk —, `call` the call under way, `thread` the
comments of the issue, `child` for each work item its issues and whether one is
linked, `texts` and `asked` histories.  `Deliver`, `Admit`, `RefinementWave` and
`Begin` are admission by route, pattern and event (D 864-1123); `Post` is one round
of `flush()`: the text at the head of the outbox is posted and removed, or posted
and not removed, or not posted; `ReadBrief`, `Session`, `Ask`, `Blocked`,
`Refined`, `Specialized` the turns and their outcomes (`RefinementOutcomes`,
`SpecializedOutcomes` are the combinations that the schemas and validators accept);
`Decompose`, `Child`, `Create`, `Link`, `Coordinate` the children (D 1292-1357):
`Child` searches for a work item, `Create` creates its issue, `Link` links it.  The
search reads the newest issues and pull requests, ten pages of a hundred in the code
(D 1311-1316) and `SearchDepth` here, while others open more of them (`Open`, up to
number `MaxOpened`).  `Fail`
throws into the catch clause from any step, also after a write whose answer was
lost.  Requirements stand for all four specialised phases.  Left out: children whose
text is edited or that are deleted, pages that shift while they are read, and an
answer of GitHub that is no list, which ends the search early.

### DeliveryController

State: `saved` — the checkpoint on disk, `mem` — the copy of the call under way,
`at` and `event` — where the call is and what it is for, `brief` — what it read,
`lock` and `loose` — the account lock and what may still be alive, `facts`, `tree`,
`head`, `pushed` — issue, workspace and branch, and histories of what was spent.
One action per step of `deliver()` between two points at which it saves or at
which the world may change; `Fail` from any of them goes through the same
clean-up, each part of which may fail.  Before the commit, and again before the push,
the discussion is read (`Recheck`, `Stale`: D 1560, 1581); the checks of the workspace,
the commit (`Commit`) and the push (`Push`) are steps after it, so that people may write in
between.  `Kill` removes the process and leaves disk
and world.  Only one call runs at a time, as the account lock serialises them and
a refused call changes nothing; an operator may remove a lock as documented.  The
discussion of an issue is a growing set of facts, some of which are comments that
trigger a call; trees of the workspace are numbered.  Left out here: what
`Refinement` models, and the identity of the Codex session.  At this commit
`deliver()` refuses every call made inside GitHub Actions (D 672-677) until
further admission controls exist; both models are of calls that get past that
line, those an operator makes interactively, for which the code after it is
written.

### CodexTurn and CodexAdmission

JavaScript runs one callback at a time, but the continuation of a promise runs
after other lines of the pipe may have been handled.  So a request is `pending`,
then has an answer in `answers`, then is continued, and any timer or line may come
in between.  `wire` holds the lines not yet read; `turn`, `items`, `app` are the
app-server's; `stopped`, `armed`, `stall`, `posts`, `ending`, `value`, `known` the
variables of `runTurn` (L 372-527).  `Receive…` are the branches of the client's
line handler and of the turn's listener, `Continue` the code after each `await`,
`Publish`/`Conclude`/`Resolve` the chain of publications and what waits for it,
`Poll` the quota reading, `Stall`, `InterruptExpired`, `Timeout`, `Terminate` the
timers, `CloseSession`/`Unlock` the owner.  The app-server is external: it answers
or not, in the order of the turn, or dies, or writes rubbish, or the end of another
turn.  What it may offer (`Catalogues`, `Configurations`, readings) is judged by
`CodexAdmission`, the rules of `verifyModels`, `checkConfiguration` and
`quotaBoundary`.

### CodexRelease and CheckReadiness

One action per command of the updater in the order of its workflow's steps; `run`
is what one job passes to the next, everything else is GitHub's.  `Die` ends a run
between any two steps; `People` push, edit, close, merge, retype and delete;
`Index` lets the issue search catch up; `CheckMoves` lets a check register, end or
run again.  The smoke is dispatched for the branch (U 124-130): it takes the runner
for whatever commit the branch has then (`run.taken`), and only the run that was started
tells (U 158, `FinishSmoke`) whether it is the head that was verified at the last look at
the pull request (`run.looked`).  A release is a number; titles, bodies and digests are
one flag each.

### ArchitectureReview and Traceability

`proc` is the review that runs, `manifests` and `threads` what the runner keeps,
`pr`, `checks` and `other` GitHub's.  `Start` … `Report` are the steps of
`runArchitectureReview` and `runSemanticReview`; `Kill` is the cancellation by the
workflow when the pull request changes or the loss of the runner.  The
fingerprint of the evidence is the commit, the description and the readiness of the
checks.  A commit holds one of a few *revisions*, sets of decisions and primitives
with their generated index; `Traceability` has the rules by which
`deterministicReview` (`architecture-review.mjs`) lets a revision pass, and
`Traceable`, independent of them, says what they are for: every decision in force
has its primitives, and none is lost or dangling.

## 3. The runs

| run | instance | asks |
|---|---|---|
| `receipt` | 3 attempts (2 of one workflow run), 2 pins, limit 2, lease 2, retention 3, time to 5 | one live holder, one completion, settled stays settled; every step is one of `LeasedWork` |
| `reconciler` | 1 run at a time, 2 deliveries, one with a receipt, 3 history entries, pages of 1, one page per run, request limit 2, crashes | nothing is forgotten, open receipts stay reachable |
| `reconciler_overlap` | 2 overlapping runs, 1 delivery, 2 entries (also of one instant), request limit 1, the fairness below | the checkpoint never moves back, requests are kept, each delivery is resolved |
| `reconciler_stalled` | 2 overlapping runs, 3 deliveries | refutes `NoDeliveryForgotten` |
| `dispatch` | 3 requests, window 2, lease 1, time to 4, with and without a receipt | confirmed dispatches are a window apart, success means dispatched |
| `delivery` | 2 dispatch events, 1 comment, 3 attempts, 2 turns, 2 validations, 3 trees, 3 facts, kills | charges, publication, lock, discussion, events |
| `codex_turn` | 1 message, 1 quota reading, 2 unread lines | a completion is the turn's own and published, a stop prevails, the lock outlives the server, every turn returns |
| `release` | 2 releases, 2 required checks, 2 incidents | one proposal per release, checks before smoke, smoke before review (but for what is pushed after the last look), a release is proposed in the end |
| `review` | 4 revisions, 2 required checks, 3 incidents | one verdict and one thread per evidence, no turn before the gates, a verdict in the end |
| `intake` | 2 overlapping runs, 1 type, 3 stages, 4 readiness values, 2 incidents | what was decided is written, only writers' events act, turns are gated but for what changed since the last reading |
| `refinement` | 3 calls, 2 work items, 1 comment, 1 fault or edit, searches of the 2 newest entries, up to 2 opened by others | the audit trail, the children, answers to questions |
| `refinement_stalled` | 1 call, 2 work items, no disturbance | refutes `DecompositionCoordinates` |

**Bounds.**  Every limit is reached and passed once: a lease can lapse while its
holder works and be granted again, and still leaves time for a retention to end
(`Retention` 3, `Lease` 2, `MaxTime` 5); three attempts are one holder, one
successor and one rerun that has no claim of its own; a limit of two is
hit by a crash and a failure.  With pages of one entry and one page per run a
history of three needs a saved cursor, and new entries arrive while older ones
are still unread.  Entries are further apart than the overlap of the checkpoint
(`reconciler`, gaps of 2) or of the same instant (`reconciler_overlap`, gaps of 0
and 2).  In the delivery run two of every budget let an operation fail, resume, use
its last unit and be held; three trees are the base, a validated one and one that is
not.

In a turn one message is enough to be published before, during or after its end,
and one reading to cross every other callback.  An *incident* is one thing that
people do, or a failure, or a kill: two of them put one between any two steps of a
run and another one into the run that recovers from it; the review needs a third,
since a kill before the manifest, one after it and a push make three generations of
its state.  The two required checks of `release` and `review` are one that is
done and one that is not.  The four revisions of the review remove a decision and
replace its primitive properly, leave a marker that names it, leave the index as it
was, or lose the primitive.  Intake checks one delivery type, `task`, which begins
at intake; the rules depend on the type only through the catalogue.  Three calls of
`refinement` are a question, an answer and what is done with it, with a fault in
any of them; the comment is written before, within or behind a question, and answers
it or comes too early; a search of two entries misses a child once another child and an
entry of somebody else, or two of these, were opened after it, and a second issue is then
created.  In `intake` two
incidents are one change between a delivery's readings and one more between its last
reading and its turn; the four readiness values are those at which a delivery waits, is
ready, works or asks.

**Deadlock** is checked in all runs but those of `ControllerReceipt` (time
ends at `MaxTime` and all attempts may be over), `DispatchClaim` (every request is
answered once), `CodexRelease` and `ArchitectureReview` (the pin is current, or the
pull request closed, and incidents are used up), `IssueIntake` (no run is asked for
any more) and `Refinement` (the attempts are spent).

**Fairness.**
- `DeliveryReconciler!FairSpec`, run `reconciler_overlap`: weak fairness of each
  run's next step, since the platform's cron schedule invokes the handler again and
  again (`vercel.json`), and of `CoolDown`, since time passes.  Nothing is assumed
  of GitHub.  `EventuallyResolved` is conditional on runs not being stopped for
  ever: a function that is always killed half way finishes nothing.
- `CodexTurn!FairSpec`: lines that arrived are read, continuations run,
  publications settle (each is an HTTP call with a time limit), timers fire, the
  owner goes on.  Nothing is assumed of the app-server.
- `CodexRelease!FairSpec`: weak fairness of `Run`, the weekly schedule with the
  time limit of the job.  People, checks and the search index owe nothing, and
  `ReleaseProposed` lists in `Blocked` what only a person can clear.
- `ArchitectureReview!FairSpec`: weak fairness of `Review` and of `CheckMoves`: a
  review is run again until there is a verdict, and checks end.

## 4. What the checks found

Two runs refute something a document of the repository says; each is a finding
in `PROJECT.json` with the quotation and a counterexample TLC prints.

1. **A stalled run** (`reconciler_stalled`).  The compare-and-set of the
   reconciler compares checkpoint and cursor, which come back to the same values
   after a complete scan; a run that stalled in between cannot tell that the
   observations were cleared, and the checkpoint moves over a failed delivery.
2. **No parent coordinates** (`refinement_stalled`).  A decomposition ends with a
   transition from definition to acceptance, which the lifecycle does not have.  It
   throws after all children were created and linked, the operation is paused, and
   its parent stays in definition.

What the models show besides, which contradicts no document as plainly:

- *Receipt.*  An attempt that runs after the controller pin moved cannot record its
  identity over the first attempt's and so cannot settle: its failure leaves the
  receipt running until the lease lapses.  `FinalizerSettlesUnderItsPin` is stated
  for attempts of the recorded pin.
- *Reconciler.*  A scan of several segments whose last one leaves an exhausted
  request keeps its cursor, so newer deliveries are not scanned until the operator
  resolves the hold.
- *Gateway.*  In durable mode every redelivery inside the replay window is answered
  503 (W 301) and uses up an attempt of the reconciler's request.
- *Delivery.*  The comment that resumes an operation is left out of the brief,
  counted into the digest, and given to a turn only if the phase has not changed
  (D 1158, 1165, 1206): `PublishedSeen` leaves that comment out.  What is written
  between the last reading (D 1581) and the push (D 1586) is pushed unseen;
  `docs/delivery/codex-workflow.md:315-316` calls the readings snapshots, not a lock, and
  `PublishedSeen` is about what the last one found.  A duplicate or
  ignored event is charged as a controller attempt, since the active segment begins
  before the event is compared with those acted on (D 703, 884).  A kill between
  settlement and revocation leaves a token nothing accounts for (D 1756).
- *Before the plan.*  The idempotent children of `docs/delivery/codex-workflow.md:40`
  are so only within the newest thousand issues and pull requests (D 1311-1316): a child
  whose creation was not saved and that lies behind them is created again.
  `OneChildPerKey` states the distance.  The link of an interrupted decomposition is not made when its
  child is found again (D 1334).  An operation paused in phase refine before its
  session was saved cannot be resumed (D 1173), nor can a refinement wave on a
  coordinating parent be admitted (D 1075), and the code on completed children
  (D 1090-1112) is not reached.  A comment whose call fails after admission was
  consumed: the answer in it is not read again (D 1731).  A failed preflight
  pauses an operation that was complete or waited (D 1693).  A completed specialised
  phase leaves its operation ready, so that a later route to plan is answered as
  complete (D 884); a second comment of a person in between holds it for good
  (D 595).  A typed feature whose saved phase is refine goes on only by route
  requirements.
- *Review.*  A kill between the manifest of a new thread and its first rollout
  leaves a thread that cannot be resumed and that nothing replaces (A 1214, 1227);
  `ReviewConcludes` names it (`Poisoned`).
- *Updater.*  The wait for the checks (U 735) reads the workflows of the runs only
  when all have passed, and counts runs not yet verified as failures: it reports
  failed checks as soon as one has registered while another has not passed.  It
  takes nothing unchecked to the runner, but rarely waits — except a commit pushed
  between its last look and the dispatch of the smoke, which runs before the updater
  notices that it is not the verified one (U 124, 158); no review follows it.  A run that dies between
  push and pull request leaves a branch that makes every later push fail, and an
  updated main between checkout and proposal is not noticed; `Blocked` and
  `ProposedOnce` name both.
- *Intake.*  Any newer comment of a person supersedes a writer's request, also one
  who may not start a run, and nothing repeats it.  Two overlapping runs each write
  the fields that differ from their own reading, so that the issue may end with the
  stage of one and the readiness of the other.  A planning turn can start on an issue that
  was gated, retyped or moved after its admission, since only its state and the
  organization's fields are read again before the turn (D 530); the plan is refused at the
  transition after it.  An issue put back to intake with an open question is admitted to
  such a turn as well, and its transition is refused.  An implementation is checked again
  before each turn.

## 5. What is proved

The theorems hold for every value of the constants under the named assumptions of
the modules.  Most of these say no more than that sets are disjoint and numbers
natural (`RunAssumption`, `BoundAssumption`, `DelayAssumption`, `ScanAssumption`,
`RequestAssumption`, `TimeAssumption`, `EventAssumption`, `LimitAssumption`,
`BoundsAssumption`, `ChecksAssumption`), or that the types, stages and readiness an
instance uses are closed under the starts of the catalogue (`CatalogueAssumption`).
Three say where the system begins:
`PastAssumption`, that the attempts behind the first checkpoint are in the order of
time, succeeded and concern deliveries without a receipt; `RevisionsAssumption`,
that some revision passes the rules; `BaseAssumption`, that the base of the pull
request has a generated index and no dangling marker, as the validator requires of
every commit of `main`.  Every run evaluates the assumptions of its module.

Each component has one inductive invariant (`IInv`, with the parts named below) from
which its theorems follow.  TLC checked each on the instance of the run before it
was proved, which is how most of its parts were found.

- **ControllerReceipt.**  `TypeCorrect`, `ReceiptMutualExclusion`,
  `AttemptsExact`, `CompletionSound`, `LeaseStability`, `SettlementFinal`,
  `SettlesUnderPin`, `ReceiptImplementsLease`.  Mutual exclusion is not inductive:
  that two attempts do not hold grants follows from the row naming one token, so the
  invariant adds that an unexpired grant is *shown* by the row or was settled,
  and that the counters are what the row says.  `SettlesUnderPin` adds that
  a run whose lease is live has its identity in the row from the moment it recorded
  it, and gave up only on a row pinned to another (`Pinned`).  The refinement proof maps every action to a step of `LeasedWork` or to
  a stutter.
- **DeliveryReconciler.**  For any number of overlapping runs: `TypeCorrect`,
  `CheckpointNeverReopened` and `RequestsKept`.  The last needs that every run's
  groups, and the stored observations, are *truthful*: a success in them is a success
  in the history.  For runs that do not overlap (the hypothesis `Serial`):
  `NothingForgotten` and `ReceiptsReachable`.  The hypothesis is necessary:
  `reconciler_stalled` is a counterexample with two runs, and nothing in the code
  excludes them (section 4).  The invariant (`Accounted`) is what a scan owes to
  every *open* position, one that the checkpoint leaves to the scans, up to its
  high-water mark: in the observations as far as earlier segments have been read
  (`ScanKnown`), in the run's hands and then in the observations (`Collected`,
  `Observes`), all of them in what the last segment's run reviews (`Reviews`), and
  then resolved or in the queue and linked (`Queues`, `Links`), until the checkpoint
  moves up and closes them.  A receipt that opens meanwhile was opened by an attempt
  behind the mark, which the checkpoint therefore does not close.  Two lemmas carry
  the scan: `WithinUp`, that what is open stays open up the history, so that a page
  wholly before the checkpoint ends the scan rightly, and `SegmentComplete`, that a
  run collects every open position between the cursor it found and the one it leaves.
- **DispatchClaim.**  `TypeCorrect`, `SuccessTruthful`, `ConfirmedOncePerWindow`,
  `ClaimFenced`, with requests that are turned away.  The strengthening is a
  horizon: nothing confirmed lies further ahead than the expiry of the row that
  confirmed it.
- **IssueIntake.**  `IntakeTypeCorrect`, `IntakeWritesAsDecided`,
  `IntakeOnlyWritersAct`, `IntakeWorkGated`, for any number of overlapping runs and
  any part of the catalogue.  The invariant (`Sound`) is what a run knows of the
  issue between its reading and its last write: it is a writer's, and as long as
  nobody else touched the issue the reading is still true, but for the type that
  the run wrote itself, and its decision follows the lifecycle.  `OwnAction` says
  that only a run's own action changes its step.  For `IntakeWorkGated` the invariant
  says (`WorkSound`) that what the delivery found in order — a plan at its admission, an
  implementation at its transition, the source at its binding before the turn — is still
  so at every later step up to the turn, unless somebody changed it: whatever others do is
  marked (`WorkMarked`), and the delivery's own steps keep it or check it anew
  (`DeliveryFit`).
- **DeliveryController.**  `TypeCorrect`, `ConsumptionBounded`,
  `PublicationSound`, `LockSound`, `EventsActedOnce`, `PublicationSeen`.  The
  invariant says how memory and disk agree at each point of a call (`Agreement`),
  what is reserved but not yet consumed (`Reservation`, `Charge`), that the lock
  covers client and token (`Ownership`), that a commit awaiting publication is a
  validated tree (`Publishing`) and that the events acted on are remembered
  (`Remembered`).  `PublicationSeen` adds what of the issue the model has been shown
  at each point of the planning, and that what a push starts from is the last reading
  (`Seen`).
- **CodexTurn.**  `TypeCorrect`, `CompletionOwn`, `CompletionPublished`,
  `StopDecides`, `LockRetained`, for any number of messages, readings and unread
  lines.  The invariant says which requests each phase waits for (`Waiting`), that
  until the outcome the messages queued for publication and those still on the wire
  are, in order, all that were sent (`Tally`), that a completion was heard of this
  turn with every message before it (`Heard`), what an outcome was decided by
  (`Decided`), and that a group which was terminated takes its turn with it
  (`Ownership`).
- **CodexRelease.**  `TypeCorrect`, `SmokeChecked`, `ReleaseProposedOnce`,
  `ReviewAfterSmoke`.  The invariant: at most one pull request per issue is open and
  it shows the last commit of its branch (`OneOpen`), pin, proposals and releases are
  in order (`Ordered`), what a run carries was true when the run read it and
  remains so as far as it is used later (`Running`, `Checked`), and the commit that took
  the runner is the run's head or newer than the last look (`Dispatched`).  `SmokeChecked`
  and `ReviewAfterSmoke` except just that newer commit.
- **ArchitectureReview.**  `TypeCorrect`, `VerdictUnique`, `ThreadUnique`,
  `GateHolds`, and `RulesTraceable`: a revision that passes the rules on decisions
  and primitives is traceable to its base.  The last is about all revisions, not
  those of an instance.  The invariant says what a review has verified at each step
  (`Reviewed`, `Gated`, `Greened`), how manifests, threads and rollouts belong
  together after any kill (`Threading`), and what a report presupposes
  (`Reporting`).
- **Refinement.**  `TypeCorrect`, `TrailInOrder`, `ChildUnique`, `QuestionFirst`,
  for any number of work items, calls, comments and faults.  The invariant says that
  the outbox is the part of the trail that the thread lacks (`Kept`), or has already
  when the answer to its posting was lost (`Sending`), what an operation that waits
  for people has asked (`Waiting`), and by what a call was admitted (`Admitting`).
  `ChildUnique` rests on the numbers in which issues are opened (`Numbered`) and on what
  the search before a creation did not find (`Searched`), since others open issues between
  the two.  `QuestionFirst` is about a boundary that is fixed when the question was posted
  whole, while comments may arrive between any two texts.

`Newest` of a set of positions is its maximum (`NewestIn`) by the library's theorem
on well-founded relations; no other induction is needed, since the models compute
with sets rather than by recursion.

**Only model-checked:** liveness (`EventuallyResolved`, `TurnEnds`,
`ReleaseProposed`, `ReviewConcludes`), which is beyond the prover.  Every other
property of a run that is expected to pass is stated by a theorem; the theorems on
`NoDeliveryForgotten` and `OpenReceiptReachable` have the hypothesis `Serial`.  The
properties of `IssueIntake` are stated through its instance in `EntryProofs`
(`Intake!WorkGated`).  `TypeOK` of `CodexTurn`, `CodexRelease`,
`ArchitectureReview`, `Refinement` and `IssueIntake` is proved, and part of the
invariants above or implied by them, but not repeated in a run.

## 6. What is not modelled, and why

- **File and in-memory replay stores** (`replay-protection.mjs`): for local runs
  and tests; they are used only without a database and if ephemeral replay is allowed
  explicitly.
- **Operation budgets** (`operation-budget-store.mjs`): only its tests call it.
  **Operation receipts** (`operation-receipt.mjs`): files under fresh names that
  nothing reads to decide.
- **Evaluation-finding router, project planning, envelopes, participants**: pure
  functions of their inputs, whose results are inputs of the models.
- **Signature checks, parsing, the wording of comments, prompts and reports**: pure,
  and covered by unit tests.
- **Operator scripts, validators, generators, workflows, schemas**: one-off,
  stateless or declarative.  The job order of the delivery workflow is part of
  `ControllerReceipt`, that of the updater's part of `CodexRelease`.
- Within modelled parts: what each section of 2 names as left out; the
  composition of gateway and reconciler, whose state together is beyond what can be
  enumerated: each is modelled against anything the other may do (the reconciler's
  GitHub answers at will; the gateway's requests come at will).

## 7. Running it

```
tlc -config ControllerReceipt.cfg MCControllerReceipt
tlapm ControllerReceiptProofs.tla
```

`PROJECT.json` lists the runs with their modules and configurations.  The longest
(`intake`) takes about three minutes with two workers.
