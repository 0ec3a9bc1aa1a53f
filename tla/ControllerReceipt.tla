------------------------- MODULE ControllerReceipt -------------------------
(***************************************************************************)
(* One row of webhook_controller_receipts and the workflow runs that use   *)
(* it: scripts/lib/neon-replay-store.mjs (one action per SQL statement,    *)
(* which PostgreSQL runs atomically against clock_timestamp()) driven by   *)
(* prepare-agent-invocation, record-agent-invocation-identity and          *)
(* finalize-agent-invocation.                                              *)
(*                                                                         *)
(* A run is a workflow run ATTEMPT: its lease token is "<run id>:<attempt>"*)
(* so the run itself stands for the token.  Statements of different runs   *)
(* interleave freely, a run may crash between any two of its statements,   *)
(* and the clock may move between them.                                    *)
(***************************************************************************)
EXTENDS Integers, FiniteSets

CONSTANTS
  Run,          \* workflow run attempts; each is also its own lease token
  NoRun,        \* SQL NULL in lease_token and in the workflow run columns
  Source,       \* source identities: origin repository, issue, controller commit
  NoSource,     \* SQL NULL in those columns
  SourceOf,     \* [Run -> Source]: the identity a run validates and presents
  Workflow,     \* [Run -> workflow run id]: attempts of one run share it
  MaxAttempts,  \* CONTROLLER_MAX_ATTEMPTS
  Lease,        \* DEFAULT_CONTROLLER_LEASE_MS
  Retention,    \* CONTROLLER_RECEIPT_RETENTION_MS
  BaseDelay, MaxDelay, \* backoff of retryController
  MaxTime       \* bound of the model's clock

ASSUME RunAssumption == NoRun \notin Run /\ NoSource \notin Source /\ SourceOf \in [Run -> Source]

\* The exponential backoff, capped.
RetryDelay(attempts) ==
  LET doubled == BaseDelay * 2 ^ (IF attempts > 1 THEN attempts - 1 ELSE 0)
  IN  IF doubled < MaxDelay THEN doubled ELSE MaxDelay

ASSUME BoundAssumption ==
  /\ MaxAttempts \in Nat \ {0} /\ MaxTime \in Nat
  /\ Lease \in Nat \ {0} /\ Retention \in Nat /\ Lease <= Retention

ASSUME DelayAssumption == \A n \in 0..MaxAttempts : RetryDelay(n) \in Nat

VARIABLES
  now,     \* clock_timestamp()
  row,     \* the receipt row
  phase,   \* where each run is in its jobs
  outcome, \* what the jobs of a run amount to: "complete" or "retry"
  grantEnd,    \* history: when the lease granted to a run ends, 0 if none
  grants,      \* history: grants since the row was last created
  completions  \* history: completions since the row was last created

vars == <<now, row, phase, outcome, grantEnd, grants, completions>>

Status == {"absent", "pending", "running", "retryable", "completed", "exhausted"}
Phase  == {"idle", "ensured", "rejected", "accepted", "recorded", "broken",
           "ended", "attributed", "settled", "unsettled", "lost"}

Absent == [status |-> "absent", token |-> NoRun, lease |-> 0, next |-> 0,
           attempts |-> 0, expires |-> 0, source |-> NoSource, owner |-> NoRun]

Exists  == row.status # "absent"
Expired == row.expires <= now

-----------------------------------------------------------------------------
\* The statements: what each makes of the row.

FreshRow == [Absent EXCEPT !.status = "pending", !.next = now, !.expires = now + Retention]

EnsuredRow ==
  IF ~Exists \/ Expired THEN FreshRow ELSE [row EXCEPT !.expires = now + Retention]

\* (A slip: the claim ignores the current holder's lease.)
ClaimableWhileRunning ==
  row.status \notin {"completed", "exhausted"} /\ row.next <= now

\* (A slip: the claim ignores the settled statuses.)
ClaimableWhenSettled ==
  row.next <= now /\ (row.status = "running" => row.lease <= now)

Claimable ==
  /\ row.status \notin {"completed", "exhausted"}
  /\ row.next <= now
  /\ row.status = "running" => row.lease <= now

\* (A slip: the attempt limit is not applied.)
ClaimedRowUnlimited(r) ==
  [row EXCEPT !.status = "running", !.token = r, !.lease = now + Lease,
              !.next = now, !.attempts = @ + 1, !.expires = now + Retention]

ClaimedRow(r) ==
  IF row.attempts >= MaxAttempts
  THEN [row EXCEPT !.status = "exhausted", !.token = NoRun, !.lease = 0,
                   !.next = now, !.expires = now + Retention]
  ELSE [row EXCEPT !.status = "running", !.token = r, !.lease = now + Lease,
                   !.next = now, !.attempts = @ + 1, !.expires = now + Retention]

\* The fence of every write a run makes after its claim.
Fenced(r) == row.status = "running" /\ row.token = r /\ row.lease > now

\* (A slip: attribution is accepted only once.)
RecordableOnce(r) == Fenced(r) /\ row.source = NoSource

Recordable(r) == Fenced(r) /\ row.source \in {NoSource, SourceOf[r]}
RecordedRow(r) ==
  [row EXCEPT !.source = IF @ = NoSource THEN SourceOf[r] ELSE @, !.owner = r]

Settleable(r) == Fenced(r) /\ row.source = SourceOf[r] /\ row.owner = r
CompletedRow == [row EXCEPT !.status = "completed", !.token = NoRun, !.lease = 0, !.next = now]
\* (A slip: the attempt that failed is counted once more.)
RetriedRowEarly ==
  [row EXCEPT !.status = IF row.attempts + 1 >= MaxAttempts THEN "exhausted" ELSE "retryable",
              !.token = NoRun, !.lease = 0, !.next = now + RetryDelay(row.attempts)]

RetriedRow ==
  [row EXCEPT !.status = IF row.attempts >= MaxAttempts THEN "exhausted" ELSE "retryable",
              !.token = NoRun, !.lease = 0, !.next = now + RetryDelay(row.attempts)]

-----------------------------------------------------------------------------
Init ==
  /\ now = 0
  /\ row = Absent
  /\ phase = [r \in Run |-> "idle"]
  /\ outcome = [r \in Run |-> "retry"]
  /\ grantEnd = [r \in Run |-> 0]
  /\ grants = 0 /\ completions = 0

Tick ==
  /\ now < MaxTime
  /\ now' = now + 1
  /\ UNCHANGED <<row, phase, outcome, grantEnd, grants, completions>>

\* ensureControllerReceipt, whoever calls it: a new row starts the history over.
Ensure ==
  /\ row' = EnsuredRow
  /\ IF ~Exists \/ Expired THEN grants' = 0 /\ completions' = 0
                           ELSE UNCHANGED <<grants, completions>>

\* The gateway ensures the receipt before each dispatch.
WebhookEnsure == Ensure /\ UNCHANGED <<now, phase, outcome, grantEnd>>

\* Another delivery's ensure deletes this row once its retention is over.
CleanupExpired ==
  /\ Exists /\ Expired
  /\ row' = Absent /\ grants' = 0 /\ completions' = 0
  /\ UNCHANGED <<now, phase, outcome, grantEnd>>

\* The reconciler exhausts a final attempt whose lease ran out.
ExhaustExpired ==
  /\ row.status = "running" /\ row.lease <= now /\ row.attempts >= MaxAttempts
  /\ row' = [row EXCEPT !.status = "exhausted", !.token = NoRun, !.lease = 0, !.next = now]
  /\ UNCHANGED <<now, phase, outcome, grantEnd, grants, completions>>

PrepareEnsure(r) ==
  /\ phase[r] = "idle"
  /\ Ensure
  /\ phase' = [phase EXCEPT ![r] = "ensured"]
  /\ UNCHANGED <<now, outcome, grantEnd>>

\* claimController: a grant, an exhausted row, or a row left alone.
PrepareClaim(r) ==
  /\ phase[r] = "ensured"
  /\ UNCHANGED <<now, outcome, completions>>
  /\ IF Claimable
     THEN /\ row' = ClaimedRow(r)
          /\ IF row.attempts >= MaxAttempts
             THEN /\ phase' = [phase EXCEPT ![r] = "rejected"]
                  /\ UNCHANGED <<grantEnd, grants>>
             ELSE /\ phase' = [phase EXCEPT ![r] = "accepted"]
                  /\ grantEnd' = [grantEnd EXCEPT ![r] = now + Lease]
                  /\ grants' = grants + 1
     ELSE /\ phase' = [phase EXCEPT ![r] = "rejected"]
          /\ UNCHANGED <<row, grantEnd, grants>>

\* The attribution step of the classify job; when it throws, the job fails.
RecordIdentity(r) ==
  /\ phase[r] = "accepted"
  /\ IF Recordable(r)
     THEN row' = RecordedRow(r) /\ phase' = [phase EXCEPT ![r] = "recorded"]
     ELSE phase' = [phase EXCEPT ![r] = "broken"] /\ UNCHANGED row
  /\ UNCHANGED <<now, outcome, grantEnd, grants, completions>>

\* Classification and the selected delivery end; only a success on a
\* completable route after a sound classify job counts as complete.
EndWork(r) ==
  /\ phase[r] \in {"recorded", "broken"}
  /\ phase' = [phase EXCEPT ![r] = "ended"]
  /\ \E o \in {"complete", "retry"} :
       /\ phase[r] = "broken" => o = "retry"
       /\ outcome' = [outcome EXCEPT ![r] = o]
  /\ UNCHANGED <<now, row, grantEnd, grants, completions>>

\* The finalizer first records the identity again ...
FinalizeRecord(r) ==
  /\ phase[r] = "ended"
  /\ IF Recordable(r)
     THEN row' = RecordedRow(r) /\ phase' = [phase EXCEPT ![r] = "attributed"]
     ELSE phase' = [phase EXCEPT ![r] = "unsettled"] /\ UNCHANGED row
  /\ UNCHANGED <<now, outcome, grantEnd, grants, completions>>

\* ... and then settles the receipt.
FinalizeSettle(r) ==
  /\ phase[r] = "attributed"
  /\ IF Settleable(r)
     THEN /\ phase' = [phase EXCEPT ![r] = "settled"]
          /\ grantEnd' = [grantEnd EXCEPT ![r] = 0]
          /\ IF outcome[r] = "complete"
             THEN row' = CompletedRow /\ completions' = completions + 1
             ELSE row' = RetriedRow /\ UNCHANGED completions
     ELSE /\ phase' = [phase EXCEPT ![r] = "unsettled"]
          /\ UNCHANGED <<row, grantEnd, completions>>
  /\ UNCHANGED <<now, outcome, grants>>

\* The runner is lost, cancelled or times out between two statements.
Crash(r) ==
  /\ phase[r] \in {"ensured", "accepted", "recorded", "broken", "ended", "attributed"}
  /\ phase' = [phase EXCEPT ![r] = "lost"]
  /\ UNCHANGED <<now, row, outcome, grantEnd, grants, completions>>

\* "Re-run failed jobs": attempt q of r's workflow run starts at the delivery
\* job with r's classify outputs, without a claim of its own.
RerunFailedJobs(r, q) ==
  /\ phase[r] \in {"settled", "unsettled", "lost"} /\ phase[q] = "idle"
  /\ Workflow[r] = Workflow[q]
  /\ phase' = [phase EXCEPT ![q] = "recorded"]
  /\ UNCHANGED <<now, row, outcome, grantEnd, grants, completions>>

\* The finalizer of an attempt is started once more.
RepeatFinalizer(r) ==
  /\ phase[r] \in {"settled", "unsettled"}
  /\ phase' = [phase EXCEPT ![r] = "ended"]
  /\ UNCHANGED <<now, row, outcome, grantEnd, grants, completions>>

Next ==
  \/ Tick \/ WebhookEnsure \/ CleanupExpired \/ ExhaustExpired
  \/ \E r \in Run :
       \/ PrepareEnsure(r) \/ PrepareClaim(r) \/ RecordIdentity(r)
       \/ EndWork(r) \/ FinalizeRecord(r) \/ FinalizeSettle(r)
       \/ Crash(r) \/ RepeatFinalizer(r)
       \/ \E q \in Run : RerunFailedJobs(r, q)

Spec == Init /\ [][Next]_vars

-----------------------------------------------------------------------------
\* Properties.

\* Every variable has its type.
RowType == [status: Status, token: Run \union {NoRun}, lease: Nat, next: Nat,
            attempts: 0..MaxAttempts, expires: Nat,
            source: Source \union {NoSource}, owner: Run \union {NoRun}]

TypeOK ==
  /\ now \in 0..MaxTime
  /\ row \in RowType
  /\ phase \in [Run -> Phase]
  /\ outcome \in [Run -> {"complete", "retry"}]
  /\ grantEnd \in [Run -> Nat]
  /\ grants \in Nat /\ completions \in Nat

\* Two runs never both hold an unexpired lease on one delivery, whatever the
\* order of their statements, crashes and retention resets: the controller
\* jobs that the receipt admits are serialised by it alone.
MutualExclusion ==
  \A r, q \in Run : grantEnd[r] > now /\ grantEnd[q] > now => r = q

\* The attempt counter is exactly the number of runs admitted since the row
\* was created: no path loses or invents an attempt, so the limit of
\* CONTROLLER_MAX_ATTEMPTS bounds real executions.
AttemptsCountGrants ==
  Exists => row.attempts = grants /\ grants <= MaxAttempts

\* Within one retention period a delivery completes at most once, and the row
\* says so exactly when it happened.
CompletedOnce ==
  completions <= 1 /\ (completions = 1 <=> row.status = "completed")

\* A completed receipt is attributed to a run whose own jobs succeeded and
\* whose source identity is the one first recorded for the delivery.
CompletionAttributed ==
  row.status = "completed" =>
    /\ row.owner \in Run
    /\ outcome[row.owner] = "complete"
    /\ SourceOf[row.owner] = row.source

\* A finalizer that gave up did so because its lease was gone: no run leaves behind
\* a live lease of its own that it failed to settle, however often jobs and
\* finalizers are repeated, as long as the pin recorded first is the run's own.
\* (A run on another pin can neither record its identity nor settle.)
FinalizerSettlesUnderItsPin ==
  \A r \in Run : phase[r] = "unsettled" /\ row.source \in {NoSource, SourceOf[r]} => ~Fenced(r)

\* While a lease is live only the holder's finalizer takes it away: gateway,
\* cleanup, reconciler and other attempts leave it alone.
LiveLeaseStable ==
  [][\A r \in Run : Fenced(r) /\ row'.token # r =>
        phase[r] = "attributed" /\ phase'[r] = "settled"]_vars

\* A settled receipt is final until its retention is over.
SettledFinal ==
  [][row.status \in {"completed", "exhausted"} /\ ~Expired
       => row'.status = row.status]_vars

\* The row implements the abstract promise of LeasedWork.
LiveHolder == IF row.status = "running" /\ row.lease > now THEN row.token ELSE NoRun

Reached == CASE row.status = "completed" -> "done"
             [] row.status = "exhausted" -> "dead"
             [] OTHER -> "open"

Promised == INSTANCE LeasedWork WITH
  Max <- MaxAttempts, holder <- LiveHolder, verdict <- Reached, tries <- row.attempts

ImplementsLeasedWork == Promised!Promise
=============================================================================
