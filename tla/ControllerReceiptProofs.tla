---------------------- MODULE ControllerReceiptProofs ----------------------
(***************************************************************************)
(* Theorems about ControllerReceipt for every set of runs, every lease,    *)
(* retention and backoff, and every attempt limit.                         *)
(***************************************************************************)
EXTENDS ControllerReceipt, TLAPS

\* A run that owns a completed row has its result behind it.
Finished == {"ended", "attributed", "settled", "unsettled", "lost"}

\* The inductive invariant: the row's token and lease columns are set exactly
\* while it runs, its lease never outlives its retention, and every live grant
\* is the one the row shows.
RowShape ==
  /\ row.status = "running" <=> row.token # NoRun
  /\ row.status = "running" => row.lease <= row.expires /\ row.lease <= now + Lease

GrantShown ==
  \A r \in Run : grantEnd[r] > now =>
    row.status = "running" /\ row.token = r /\ row.lease = grantEnd[r]

CountsExact == row.attempts = grants

OwnerFinished ==
  row.status = "completed" => row.owner \in Run /\ phase[row.owner] \in Finished

IInv ==
  /\ TypeOK /\ RowShape /\ GrantShown /\ CountsExact
  /\ CompletedOnce /\ CompletionAttributed /\ OwnerFinished

\* What each statement makes of a well-typed row is again a well-typed row.
LEMMA StatementsTyped ==
  ASSUME TypeOK
  PROVE  /\ FreshRow \in RowType
         /\ EnsuredRow \in RowType
         /\ \A r \in Run : ClaimedRow(r) \in RowType /\ RecordedRow(r) \in RowType
         /\ CompletedRow \in RowType
         /\ RetriedRow \in RowType
         /\ Absent \in RowType
<1>1. Absent \in RowType
  BY BoundAssumption DEF Absent, RowType, Status
<1>2. /\ now \in Nat /\ now + Retention \in Nat /\ now + Lease \in Nat
      /\ row \in RowType
  BY BoundAssumption DEF TypeOK
<1>3. FreshRow \in RowType
  BY <1>1, <1>2 DEF FreshRow, RowType, Status
<1>4. EnsuredRow \in RowType
  BY <1>2, <1>3 DEF EnsuredRow, RowType
<1>5. ASSUME NEW r \in Run PROVE ClaimedRow(r) \in RowType
  <2>1. row.attempts < MaxAttempts => row.attempts + 1 \in 0..MaxAttempts
    BY <1>2, BoundAssumption DEF RowType
  <2>2. row.attempts \in Nat /\ MaxAttempts \in Nat
    BY <1>2, BoundAssumption DEF RowType
  <2>3. CASE row.attempts >= MaxAttempts
    BY <1>2, <2>3 DEF ClaimedRow, RowType, Status
  <2>4. CASE ~(row.attempts >= MaxAttempts)
    <3>1. row.attempts + 1 \in 0..MaxAttempts
      BY <2>1, <2>2, <2>4
    <3> QED
      BY <1>2, <2>4, <3>1 DEF ClaimedRow, RowType, Status
  <2> QED
    BY <2>3, <2>4
<1>6. ASSUME NEW r \in Run PROVE RecordedRow(r) \in RowType
  BY <1>2, RunAssumption DEF RecordedRow, RowType
<1>7. CompletedRow \in RowType
  BY <1>2 DEF CompletedRow, RowType, Status
<1>8. RetriedRow \in RowType
  <2>1. now + RetryDelay(row.attempts) \in Nat
    BY <1>2, DelayAssumption DEF RowType
  <2> QED
    BY <1>2, <2>1 DEF RetriedRow, RowType, Status
<1> QED
  BY <1>1, <1>3, <1>4, <1>5, <1>6, <1>7, <1>8

\* The initial state satisfies the inductive invariant.
LEMMA InitInvariant == Init => IInv
<1> SUFFICES ASSUME Init PROVE IInv
  OBVIOUS
<1> USE RunAssumption, BoundAssumption
<1>1. Absent \in RowType
  BY DEF Absent, RowType, Status
<1>2. TypeOK
  BY <1>1 DEF Init, TypeOK, Phase
<1> QED
  BY <1>2 DEF Init, IInv, RowShape, GrantShown, CountsExact, CompletedOnce,
              CompletionAttributed, OwnerFinished, Absent

\* The arithmetic and typing facts every step below rests on.
LEMMA Typing ==
  ASSUME TypeOK
  PROVE  /\ now \in Nat /\ MaxTime \in Nat /\ MaxAttempts \in Nat /\ MaxAttempts > 0
         /\ Lease \in Nat /\ Lease > 0 /\ Retention \in Nat /\ Lease <= Retention
         /\ row \in RowType /\ NoRun \notin Run
         /\ row.lease \in Nat /\ row.expires \in Nat
         /\ row.attempts \in Nat /\ row.attempts <= MaxAttempts
         /\ row.status \in Status
         /\ grantEnd \in [Run -> Nat] /\ phase \in [Run -> Phase]
         /\ outcome \in [Run -> {"complete", "retry"}]
         /\ grants \in Nat /\ completions \in Nat
BY BoundAssumption, RunAssumption DEF TypeOK, RowType

\* An ensure either keeps everything but the retention, or starts a new row
\* that no live grant can point to.
LEMMA EnsureStep ==
  ASSUME IInv, Ensure, UNCHANGED <<now, outcome, grantEnd>>,
         phase' \in [Run -> Phase],
         \A r \in Run : phase'[r] = phase[r] \/ phase[r] = "idle"
  PROVE  IInv'
<1> USE DEF IInv
<1>t. TypeOK
  OBVIOUS
<1>1. CASE ~Exists \/ Expired
  <2>1. row' = FreshRow /\ grants' = 0 /\ completions' = 0
    BY <1>1 DEF Ensure, EnsuredRow
  <2>2. FreshRow \in RowType
    BY <1>t, StatementsTyped
  <2>3. TypeOK'
    BY <2>1, <2>2 DEF TypeOK
  <2>4. \A r \in Run : ~(grantEnd[r] > now)
    BY <1>1, Typing DEF Exists, Expired, GrantShown, RowShape
  <2> QED
    BY <2>1, <2>3, <2>4, Typing DEF FreshRow, Absent, RowShape, GrantShown, CountsExact,
       CompletedOnce, CompletionAttributed, OwnerFinished
<1>2. CASE ~(~Exists \/ Expired)
  <2>1. row' = [row EXCEPT !.expires = now + Retention] /\ UNCHANGED <<grants, completions>>
    BY <1>2 DEF Ensure, EnsuredRow
  <2>2. row' \in RowType
    BY <1>t, <1>2, <2>1, StatementsTyped DEF EnsuredRow
  <2>3. TypeOK'
    BY <2>1, <2>2 DEF TypeOK
  <2>4. /\ row'.status = row.status /\ row'.token = row.token /\ row'.lease = row.lease
        /\ row'.attempts = row.attempts /\ row'.owner = row.owner /\ row'.source = row.source
        /\ row'.expires = now + Retention
    BY <2>1, Typing DEF RowType
  <2>5. RowShape'
    BY <2>4, Typing DEF RowShape
  <2>6. GrantShown' /\ CountsExact' /\ CompletedOnce' /\ CompletionAttributed'
    BY <2>1, <2>4 DEF GrantShown, CountsExact, CompletedOnce, CompletionAttributed
  <2>7. OwnerFinished'
    BY <2>4 DEF OwnerFinished, Finished
  <2> QED
    BY <2>3, <2>5, <2>6, <2>7
<1> QED
  BY <1>1, <1>2

\* A step of one run that leaves the row and the grants alone.
LEMMA BystanderStep ==
  ASSUME IInv, NEW r \in Run,
         UNCHANGED <<now, row, grantEnd, grants, completions>>,
         NEW p \in Phase, phase' = [phase EXCEPT ![r] = p],
         NEW o \in {"complete", "retry"}, outcome' = [outcome EXCEPT ![r] = o],
         phase[r] \in Finished => p \in Finished /\ o = outcome[r]
  PROVE  IInv'
<1> USE DEF IInv
<1>1. TypeOK'
  BY DEF TypeOK
<1>2. RowShape' /\ GrantShown' /\ CountsExact' /\ CompletedOnce'
  BY DEF RowShape, GrantShown, CountsExact, CompletedOnce
<1>3. OwnerFinished' /\ CompletionAttributed'
  BY Typing DEF OwnerFinished, CompletionAttributed
<1> QED
  BY <1>1, <1>2, <1>3

\* A grant goes only to a row whose previous lease is over, so it is the only
\* live one; a claim of an exhausted row ends it without a grant.
LEMMA ClaimStep ==
  ASSUME IInv, NEW r \in Run, PrepareClaim(r)
  PROVE  IInv'
<1> USE DEF IInv
<1>1. CASE Claimable /\ row.attempts >= MaxAttempts
  <2>1. /\ row' = ClaimedRow(r) /\ phase' = [phase EXCEPT ![r] = "rejected"]
        /\ phase[r] = "ensured"
        /\ UNCHANGED <<now, outcome, grantEnd, grants, completions>>
    BY <1>1 DEF PrepareClaim
  <2>2. TypeOK'
    BY <2>1, StatementsTyped DEF TypeOK, Phase
  <2>3. /\ row'.status = "exhausted" /\ row'.token = NoRun
        /\ row'.attempts = row.attempts
    BY <1>1, <2>1, Typing DEF ClaimedRow, RowType
  <2>4. \A q \in Run : ~(grantEnd[q] > now)
    BY <1>1, Typing DEF Claimable, GrantShown
  <2> QED
    BY <1>1, <2>1, <2>2, <2>3, <2>4, Typing DEF Claimable, RowShape, GrantShown, CountsExact,
       CompletedOnce, CompletionAttributed, OwnerFinished
<1>2. CASE Claimable /\ ~(row.attempts >= MaxAttempts)
  <2>1. /\ row' = ClaimedRow(r) /\ phase' = [phase EXCEPT ![r] = "accepted"]
        /\ grantEnd' = [grantEnd EXCEPT ![r] = now + Lease] /\ grants' = grants + 1
        /\ UNCHANGED <<now, outcome, completions>>
    BY <1>2 DEF PrepareClaim
  <2>2. TypeOK'
    BY <2>1, StatementsTyped, Typing DEF TypeOK, Phase
  <2>3. /\ row'.status = "running" /\ row'.token = r /\ row'.lease = now + Lease
        /\ row'.attempts = row.attempts + 1 /\ row'.expires = now + Retention
    BY <1>2, <2>1, Typing DEF ClaimedRow, RowType
  <2>4. \A q \in Run : ~(grantEnd[q] > now)
    BY <1>2, Typing DEF Claimable, GrantShown
  <2>5. RowShape'
    BY <2>1, <2>3, Typing DEF RowShape
  <2>6. GrantShown'
    BY <2>1, <2>3, <2>4, Typing DEF GrantShown
  <2> QED
    BY <1>2, <2>1, <2>2, <2>3, <2>5, <2>6, Typing DEF Claimable, CountsExact,
       CompletedOnce, CompletionAttributed, OwnerFinished
<1>3. CASE ~Claimable
  <2>1. /\ phase' = [phase EXCEPT ![r] = "rejected"] /\ phase[r] = "ensured"
        /\ UNCHANGED <<now, row, outcome, grantEnd, grants, completions>>
    BY <1>3 DEF PrepareClaim
  <2>2. outcome' = [outcome EXCEPT ![r] = outcome[r]] /\ outcome[r] \in {"complete", "retry"}
    BY <2>1, Typing
  <2> QED
    BY <2>1, <2>2, BystanderStep DEF Finished, Phase
<1> QED
  BY <1>1, <1>2, <1>3

\* Attribution changes only the identity columns of a row that still runs.
LEMMA AttributeStep ==
  ASSUME IInv, NEW r \in Run, Recordable(r), row' = RecordedRow(r),
         NEW p \in Phase, phase' = [phase EXCEPT ![r] = p],
         UNCHANGED <<now, outcome, grantEnd, grants, completions>>
  PROVE  IInv'
<1> USE DEF IInv
<1>1. TypeOK'
  BY StatementsTyped DEF TypeOK
<1>2. /\ row'.status = row.status /\ row'.token = row.token /\ row'.lease = row.lease
      /\ row'.attempts = row.attempts /\ row'.expires = row.expires
      /\ row.status = "running"
  BY Typing DEF RecordedRow, RowType, Recordable, Fenced
<1> QED
  BY <1>1, <1>2 DEF RowShape, GrantShown, CountsExact, CompletedOnce,
     CompletionAttributed, OwnerFinished

\* A settlement ends the one live grant, which is the settling run's own.
LEMMA SettleStep ==
  ASSUME IInv, NEW r \in Run, FinalizeSettle(r)
  PROVE  IInv'
<1> USE DEF IInv
<1>1. CASE ~Settleable(r)
  <2>1. /\ phase' = [phase EXCEPT ![r] = "unsettled"] /\ phase[r] = "attributed"
        /\ UNCHANGED <<now, row, outcome, grantEnd, grants, completions>>
    BY <1>1 DEF FinalizeSettle
  <2>2. outcome' = [outcome EXCEPT ![r] = outcome[r]] /\ outcome[r] \in {"complete", "retry"}
    BY <2>1, Typing
  <2> QED
    BY <2>1, <2>2, BystanderStep DEF Finished, Phase
<1>2. CASE Settleable(r)
  <2>1. /\ phase' = [phase EXCEPT ![r] = "settled"] /\ phase[r] = "attributed"
        /\ grantEnd' = [grantEnd EXCEPT ![r] = 0]
        /\ UNCHANGED <<now, outcome, grants>>
        /\ \/ outcome[r] = "complete" /\ row' = CompletedRow /\ completions' = completions + 1
           \/ row' = RetriedRow /\ UNCHANGED completions
    BY <1>2 DEF FinalizeSettle
  <2>2. /\ row.status = "running" /\ row.token = r
        /\ row.source = SourceOf[r] /\ row.owner = r
    BY <1>2 DEF Settleable, Fenced
  <2>3. TypeOK'
    BY <2>1, StatementsTyped, Typing DEF TypeOK, Phase
  <2>4. \A q \in Run : ~(grantEnd'[q] > now')
    BY <2>1, <2>2, Typing DEF GrantShown
  <2>5. GrantShown'
    BY <2>4 DEF GrantShown
  <2>6. /\ row'.token = NoRun /\ row'.attempts = row.attempts
        /\ row'.source = row.source /\ row'.owner = row.owner
        /\ row'.status \in {"completed", "retryable", "exhausted"}
        /\ row'.status = "completed" <=> row' = CompletedRow
    BY <2>1, Typing DEF CompletedRow, RetriedRow, RowType
  <2>7. RowShape' /\ CountsExact'
    BY <2>1, <2>2, <2>6 DEF RowShape, CountsExact
  <2>8. CompletedOnce'
    <3>1. CompletedRow.status = "completed" /\ RetriedRow.status # "completed"
      BY Typing DEF CompletedRow, RetriedRow, RowType
    <3> QED
      BY <2>1, <2>2, <3>1, Typing DEF CompletedOnce
  <2>9. CompletionAttributed' /\ OwnerFinished'
    <3>1. RetriedRow.status # "completed"
      BY Typing DEF RetriedRow, RowType
    <3> QED
      BY <2>1, <2>2, <2>6, <3>1, Typing DEF CompletionAttributed, OwnerFinished, Finished
  <2> QED
    BY <2>3, <2>5, <2>7, <2>8, <2>9
<1> QED
  BY <1>1, <1>2

\* The clock only ends grants.
LEMMA TickStep == IInv /\ Tick => IInv'
<1> SUFFICES ASSUME IInv, Tick PROVE IInv'
  OBVIOUS
<1>1. TypeOK'
  BY Typing DEF IInv, TypeOK, Tick
<1> QED
  BY <1>1, Typing DEF IInv, Tick, RowShape, GrantShown, CountsExact, CompletedOnce,
     CompletionAttributed, OwnerFinished

\* The row is dropped, or its lapsed final attempt is exhausted.
LEMMA HousekeepingStep == IInv /\ (CleanupExpired \/ ExhaustExpired) => IInv'
<1> USE DEF IInv
<1>1. ASSUME IInv, CleanupExpired PROVE IInv'
  <2>1. TypeOK'
    BY <1>1, StatementsTyped DEF TypeOK, CleanupExpired
  <2>2. \A r \in Run : ~(grantEnd[r] > now)
    BY <1>1, Typing DEF CleanupExpired, Expired, GrantShown, RowShape
  <2> QED
    BY <1>1, <2>1, <2>2, Typing DEF CleanupExpired, Absent, RowShape, GrantShown,
       CountsExact, CompletedOnce, CompletionAttributed, OwnerFinished
<1>2. ASSUME IInv, ExhaustExpired PROVE IInv'
  <2>1. row' \in RowType
    BY <1>2, Typing DEF ExhaustExpired, RowType, Status
  <2>2. TypeOK'
    BY <1>2, <2>1 DEF TypeOK, ExhaustExpired
  <2>3. /\ row'.status = "exhausted" /\ row'.token = NoRun
        /\ row'.attempts = row.attempts
    BY <1>2, Typing DEF ExhaustExpired, RowType
  <2>4. \A r \in Run : ~(grantEnd[r] > now)
    BY <1>2, Typing DEF ExhaustExpired, GrantShown
  <2> QED
    BY <1>2, <2>2, <2>3, <2>4, Typing DEF ExhaustExpired, RowShape, GrantShown,
       CountsExact, CompletedOnce, CompletionAttributed, OwnerFinished
<1> QED
  BY <1>1, <1>2

\* Every step preserves the inductive invariant.
LEMMA StepInvariant == IInv /\ [Next]_vars => IInv'
<1> SUFFICES ASSUME IInv, [Next]_vars PROVE IInv'
  OBVIOUS
<1>t. TypeOK /\ phase \in [Run -> Phase] /\ outcome \in [Run -> {"complete", "retry"}]
  BY Typing DEF IInv
<1>1. CASE Tick
  BY <1>1, TickStep
<1>2. CASE WebhookEnsure
  BY <1>2, <1>t, EnsureStep DEF WebhookEnsure
<1>3. CASE CleanupExpired \/ ExhaustExpired
  BY <1>3, HousekeepingStep
<1>4. ASSUME NEW r \in Run, PrepareEnsure(r) PROVE IInv'
  BY <1>4, <1>t, EnsureStep DEF PrepareEnsure, Phase
<1>5. ASSUME NEW r \in Run, PrepareClaim(r) PROVE IInv'
  BY <1>5, ClaimStep
<1>6. ASSUME NEW r \in Run, RecordIdentity(r) PROVE IInv'
  <2>1. CASE Recordable(r)
    BY <1>6, <2>1, AttributeStep DEF RecordIdentity, Phase
  <2>2. CASE ~Recordable(r)
    <3>1. outcome' = [outcome EXCEPT ![r] = outcome[r]] /\ outcome[r] \in {"complete", "retry"}
      BY <1>6, <1>t DEF RecordIdentity
    <3> QED
      BY <1>6, <2>2, <3>1, BystanderStep DEF RecordIdentity, Finished, Phase
  <2> QED
    BY <2>1, <2>2
<1>7. ASSUME NEW r \in Run, EndWork(r) PROVE IInv'
  BY <1>7, BystanderStep DEF EndWork, Finished, Phase
<1>8. ASSUME NEW r \in Run, FinalizeRecord(r) PROVE IInv'
  <2>1. CASE Recordable(r)
    BY <1>8, <2>1, AttributeStep DEF FinalizeRecord, Phase
  <2>2. CASE ~Recordable(r)
    <3>1. outcome' = [outcome EXCEPT ![r] = outcome[r]] /\ outcome[r] \in {"complete", "retry"}
      BY <1>8, <1>t DEF FinalizeRecord
    <3> QED
      BY <1>8, <2>2, <3>1, BystanderStep DEF FinalizeRecord, Finished, Phase
  <2> QED
    BY <2>1, <2>2
<1>9. ASSUME NEW r \in Run, FinalizeSettle(r) PROVE IInv'
  BY <1>9, SettleStep
<1>10. ASSUME NEW r \in Run, Crash(r) \/ RepeatFinalizer(r) PROVE IInv'
  <2>1. outcome' = [outcome EXCEPT ![r] = outcome[r]] /\ outcome[r] \in {"complete", "retry"}
    BY <1>10, <1>t DEF Crash, RepeatFinalizer
  <2> QED
    BY <1>10, <2>1, BystanderStep DEF Crash, RepeatFinalizer, Finished, Phase
<1>11. ASSUME NEW r \in Run, NEW q \in Run, RerunFailedJobs(r, q) PROVE IInv'
  <2>1. outcome' = [outcome EXCEPT ![q] = outcome[q]] /\ outcome[q] \in {"complete", "retry"}
    BY <1>11, <1>t DEF RerunFailedJobs
  <2> QED
    BY <1>11, <2>1, BystanderStep DEF RerunFailedJobs, Finished, Phase
<1>12. CASE UNCHANGED vars
  BY <1>12 DEF vars, IInv, TypeOK, RowShape, GrantShown, CountsExact, CompletedOnce,
     CompletionAttributed, OwnerFinished
<1> QED
  BY <1>1, <1>2, <1>3, <1>4, <1>5, <1>6, <1>7, <1>8, <1>9, <1>10, <1>11, <1>12 DEF Next

(* The inductive invariant holds in every reachable state. *)
LEMMA Invariance == Spec => []IInv
  BY InitInvariant, StepInvariant, PTL DEF Spec

\* The types hold in every reachable state.
THEOREM TypeCorrect == Spec => []TypeOK
<1>1. IInv => TypeOK
  BY DEF IInv
<1> QED
  BY <1>1, Invariance, PTL

\* At most one run holds an unexpired lease on the delivery.
THEOREM ReceiptMutualExclusion == Spec => []MutualExclusion
<1>1. IInv => MutualExclusion
  BY DEF IInv, GrantShown, MutualExclusion
<1> QED
  BY <1>1, Invariance, PTL

\* The attempt counter counts the grants and never passes the limit.
THEOREM AttemptsExact == Spec => []AttemptsCountGrants
<1>1. IInv => AttemptsCountGrants
  BY Typing DEF IInv, CountsExact, AttemptsCountGrants
<1> QED
  BY <1>1, Invariance, PTL

\* A delivery completes at most once per retention period, by a run that
\* succeeded under the identity first recorded.
THEOREM CompletionSound == Spec => [](CompletedOnce /\ CompletionAttributed)
<1>1. IInv => CompletedOnce /\ CompletionAttributed
  BY DEF IInv
<1> QED
  BY <1>1, Invariance, PTL

\* An ensure keeps the status and the lease of a row that is still retained.
LEMMA EnsureKeeps ==
  ASSUME IInv, Ensure, Exists, ~Expired
  PROVE  /\ row'.status = row.status /\ row'.token = row.token
         /\ row'.lease = row.lease /\ row'.attempts = row.attempts
BY Typing DEF IInv, Ensure, EnsuredRow, RowType

\* So does the attribution of a run.
LEMMA RecordKeeps ==
  ASSUME IInv, NEW r \in Run, row' = RecordedRow(r)
  PROVE  /\ row'.status = row.status /\ row'.token = row.token
         /\ row'.lease = row.lease /\ row'.attempts = row.attempts
BY Typing DEF IInv, RecordedRow, RowType

\* A row with a live lease is still retained and cannot be claimed.
LEMMA LiveLease ==
  ASSUME IInv, row.status = "running", row.lease > now
  PROVE  Exists /\ ~Expired /\ ~Claimable
BY Typing DEF IInv, RowShape, Exists, Expired, Claimable

\* A live lease is ended only by its own holder's finalizer.
THEOREM LeaseStability == Spec => LiveLeaseStable
<1> DEFINE Stable == \A r \in Run : Fenced(r) /\ row'.token # r =>
                       phase[r] = "attributed" /\ phase'[r] = "settled"
<1>1. ASSUME IInv, Next, NEW r \in Run, Fenced(r), row'.token # r
      PROVE  phase[r] = "attributed" /\ phase'[r] = "settled"
  <2>1. Exists /\ ~Expired /\ ~Claimable
    BY <1>1, LiveLease DEF Fenced
  <2>2. row' # row
    BY <1>1 DEF Fenced
  <2>3. ~Ensure
    BY <1>1, <2>1, EnsureKeeps DEF Fenced
  <2>4. ~(\E q \in Run : row' = RecordedRow(q))
    BY <1>1, RecordKeeps DEF Fenced
  <2>5. PICK q \in Run : FinalizeSettle(q)
    BY <1>1, <2>1, <2>2, <2>3, <2>4, Typing
       DEF IInv, Next, Tick, WebhookEnsure, CleanupExpired, ExhaustExpired, PrepareEnsure,
           PrepareClaim, RecordIdentity, EndWork, FinalizeRecord, Crash, RepeatFinalizer,
           RerunFailedJobs, Fenced
  <2>6. q = r
    BY <1>1, <2>2, <2>5 DEF FinalizeSettle, Settleable, Fenced
  <2> QED
    BY <1>1, <2>2, <2>5, <2>6, Typing DEF IInv, FinalizeSettle
<1>2. IInv /\ [Next]_vars => [Stable]_vars
  BY <1>1
<1> QED
  BY <1>2, Invariance, PTL DEF Spec, LiveLeaseStable

\* A settled receipt keeps its status until its retention is over.
THEOREM SettlementFinal == Spec => SettledFinal
<1> DEFINE Final == row.status \in {"completed", "exhausted"} /\ ~Expired
                      => row'.status = row.status
<1>1. ASSUME IInv, Next, row.status \in {"completed", "exhausted"}, ~Expired
      PROVE  row'.status = row.status
  <2>1. Exists /\ ~Claimable /\ \A r \in Run : ~Fenced(r)
    BY <1>1 DEF Exists, Claimable, Fenced
  <2>2. Ensure => row'.status = row.status
    BY <1>1, <2>1, EnsureKeeps
  <2> QED
    BY <1>1, <2>1, <2>2
       DEF Next, Tick, WebhookEnsure, CleanupExpired, ExhaustExpired, PrepareEnsure,
           PrepareClaim, RecordIdentity, EndWork, FinalizeRecord, FinalizeSettle,
           Crash, RepeatFinalizer, RerunFailedJobs, Recordable, Settleable
<1>2. IInv /\ [Next]_vars => [Final]_vars
  BY <1>1 DEF vars
<1> QED
  BY <1>2, Invariance, PTL DEF Spec, SettledFinal

\* What a finalizer's phase says of a lease that is still its run's own: once
\* it has attributed the row, the row shows its identity, and it gives up
\* only on a row pinned to another identity.
HoldsPin(r) ==
  Fenced(r) =>
    /\ phase[r] = "attributed" => row.source = SourceOf[r] /\ row.owner = r
    /\ phase[r] = "unsettled" => row.source \notin {NoSource, SourceOf[r]}

Pinned == \A r \in Run : HoldsPin(r)

\* A step that leaves a run's phase and the row's identity alone keeps its pin.
LEMMA PinKept ==
  ASSUME Pinned, NEW r \in Run, phase'[r] = phase[r], Fenced(r),
         row'.source = row.source, row'.owner = row.owner
  PROVE  HoldsPin(r)'
BY DEF Pinned, HoldsPin

\* A run moves on by itself: whichever phase p it enters, every other run keeps its
\* pin when the step leaves the row alone.
LEMMA PinMoved ==
  ASSUME IInv, Pinned, UNCHANGED <<now, row>>, NEW r \in Run,
         NEW p \in Phase, phase' = [phase EXCEPT ![r] = p],
         p # "attributed", p = "unsettled" => ~Recordable(r)
  PROVE  Pinned'
<1>1. ASSUME NEW q \in Run PROVE HoldsPin(q)'
  <2>1. CASE q = r
    <3>1. phase'[q] = p
      BY <2>1, Typing DEF IInv
    <3> QED
      BY <2>1, <3>1 DEF HoldsPin, Fenced, Recordable
  <2>2. CASE q # r
    <3>1. phase'[q] = phase[q]
      BY <2>2, Typing DEF IInv
    <3> QED
      BY <3>1, PinKept DEF HoldsPin, Fenced
  <2> QED
    BY <2>1, <2>2
<1> QED
  BY <1>1 DEF Pinned

\* An ensure changes neither the identity nor the holder of a live lease.
LEMMA PinEnsured ==
  ASSUME IInv, Pinned, Ensure, now' = now, phase' \in [Run -> Phase],
         \A r \in Run : phase'[r] = phase[r] \/ phase'[r] = "ensured"
  PROVE  Pinned'
<1>1. ASSUME NEW r \in Run, Fenced(r)' PROVE HoldsPin(r)'
  <2>1. CASE ~Exists \/ Expired
    <3>1. row'.status = "pending"
      BY <2>1, Typing DEF IInv, Ensure, EnsuredRow, FreshRow, Absent
    <3> QED
      BY <1>1, <3>1 DEF Fenced
  <2>2. CASE Exists /\ ~Expired
    <3>1. row' = [row EXCEPT !.expires = now + Retention]
      BY <2>2 DEF Ensure, EnsuredRow
    <3>2. /\ row'.status = row.status /\ row'.token = row.token /\ row'.lease = row.lease
          /\ row'.source = row.source /\ row'.owner = row.owner
      BY <3>1, Typing DEF IInv, RowType
    <3>3. Fenced(r)
      BY <1>1, <3>2 DEF Fenced
    <3>4. CASE phase'[r] = phase[r]
      BY <3>2, <3>3, <3>4, PinKept
    <3>5. CASE phase'[r] = "ensured"
      BY <3>5 DEF HoldsPin
    <3> QED
      BY <3>4, <3>5
  <2> QED
    BY <2>1, <2>2
<1> QED
  BY <1>1 DEF Pinned, HoldsPin

\* Attribution shows the identity of the run that holds the lease, and no other
\* run holds one.
LEMMA PinRecorded ==
  ASSUME IInv, Pinned, NEW r \in Run, Recordable(r), row' = RecordedRow(r), now' = now,
         NEW p \in Phase, phase' = [phase EXCEPT ![r] = p], p # "unsettled"
  PROVE  Pinned'
<1>1. /\ row'.token = row.token /\ row'.owner = r /\ row'.source = SourceOf[r]
  BY Typing, RunAssumption DEF IInv, RowType, RecordedRow, Recordable
<1>2. phase'[r] = p
  BY Typing DEF IInv
<1>3. ASSUME NEW q \in Run, Fenced(q)' PROVE q = r
  BY <1>1, <1>3 DEF Fenced, Recordable
<1> QED
  BY <1>1, <1>2, <1>3 DEF Pinned, HoldsPin

\* Every step keeps the pins.  A lease becomes live only by a claim, and its
\* run has yet to attribute the row; while it lives no other run writes the
\* identity columns.
LEMMA PinnedStep == IInv /\ Pinned /\ [Next]_vars => Pinned'
<1> SUFFICES ASSUME IInv, Pinned, [Next]_vars PROVE Pinned'
  OBVIOUS
<1>t. phase \in [Run -> Phase] /\ row \in RowType
  BY Typing DEF IInv
<1>1. CASE Tick
  <2>1. ASSUME NEW r \in Run, Fenced(r)' PROVE HoldsPin(r)'
    <3>1. Fenced(r)
      BY <1>1, <2>1, Typing DEF IInv, Tick, Fenced
    <3> QED
      BY <1>1, <3>1, PinKept DEF Tick
  <2> QED
    BY <2>1 DEF Pinned, HoldsPin
<1>2. CASE WebhookEnsure
  BY <1>2, <1>t, PinEnsured DEF WebhookEnsure
<1>3. CASE CleanupExpired \/ ExhaustExpired
  <2>1. CleanupExpired => row'.status = "absent"
    BY <1>t DEF CleanupExpired, Absent
  <2>2. ExhaustExpired => row'.status = "exhausted"
    BY <1>t DEF ExhaustExpired, RowType
  <2> QED
    BY <1>3, <2>1, <2>2 DEF Pinned, HoldsPin, Fenced
<1>4. ASSUME NEW r \in Run, PrepareEnsure(r) PROVE Pinned'
  BY <1>4, <1>t, PinEnsured DEF PrepareEnsure, Phase
<1>5. ASSUME NEW r \in Run, PrepareClaim(r) PROVE Pinned'
  <2>1. CASE ~Claimable
    BY <1>5, <2>1, PinMoved DEF PrepareClaim, Phase
  <2>2. CASE Claimable /\ row.attempts >= MaxAttempts
    <3>1. row'.status = "exhausted"
      BY <1>5, <2>2, <1>t DEF PrepareClaim, ClaimedRow, RowType
    <3> QED
      BY <3>1 DEF Pinned, HoldsPin, Fenced
  <2>3. CASE Claimable /\ ~(row.attempts >= MaxAttempts)
    <3>1. row'.token = r /\ phase'[r] = "accepted"
      BY <1>5, <2>3, <1>t DEF PrepareClaim, ClaimedRow, RowType
    <3>2. ASSUME NEW q \in Run, Fenced(q)' PROVE q = r
      BY <3>1, <3>2 DEF Fenced
    <3> QED
      BY <3>1, <3>2 DEF Pinned, HoldsPin
  <2> QED
    BY <2>1, <2>2, <2>3
<1>6. ASSUME NEW r \in Run, RecordIdentity(r) PROVE Pinned'
  <2>1. CASE Recordable(r)
    BY <1>6, <2>1, PinRecorded DEF RecordIdentity, Phase
  <2>2. CASE ~Recordable(r)
    BY <1>6, <2>2, PinMoved DEF RecordIdentity, Phase
  <2> QED
    BY <2>1, <2>2
<1>7. ASSUME NEW r \in Run, EndWork(r) PROVE Pinned'
  BY <1>7, PinMoved DEF EndWork, Phase
<1>8. ASSUME NEW r \in Run, FinalizeRecord(r) PROVE Pinned'
  <2>1. CASE Recordable(r)
    BY <1>8, <2>1, PinRecorded DEF FinalizeRecord, Phase
  <2>2. CASE ~Recordable(r)
    BY <1>8, <2>2, PinMoved DEF FinalizeRecord, Phase
  <2> QED
    BY <2>1, <2>2
<1>9. ASSUME NEW r \in Run, FinalizeSettle(r) PROVE Pinned'
  <2>1. CASE Settleable(r)
    <3>1. row'.status # "running"
      BY <1>9, <2>1, <1>t, Typing DEF IInv, FinalizeSettle, CompletedRow, RetriedRow, RowType
    <3> QED
      BY <3>1 DEF Pinned, HoldsPin, Fenced
  <2>2. CASE ~Settleable(r)
    <3>1. ~Fenced(r)
      BY <1>9, <2>2 DEF FinalizeSettle, Settleable, Pinned, HoldsPin
    <3> QED
      BY <1>9, <2>2, <3>1, PinMoved DEF FinalizeSettle, Recordable, Phase
  <2> QED
    BY <2>1, <2>2
<1>10. ASSUME NEW r \in Run, Crash(r) \/ RepeatFinalizer(r) PROVE Pinned'
  BY <1>10, PinMoved DEF Crash, RepeatFinalizer, Phase
<1>11. ASSUME NEW r \in Run, NEW q \in Run, RerunFailedJobs(r, q) PROVE Pinned'
  BY <1>11, PinMoved DEF RerunFailedJobs, Phase
<1>12. CASE UNCHANGED vars
  BY <1>12 DEF vars, Pinned, HoldsPin, Fenced
<1> QED
  BY <1>1, <1>2, <1>3, <1>4, <1>5, <1>6, <1>7, <1>8, <1>9, <1>10, <1>11, <1>12 DEF Next

\* No run leaves behind a live lease that it failed to settle while the pin
\* recorded first is its own, however often jobs and finalizers are repeated.
THEOREM SettlesUnderPin == Spec => []FinalizerSettlesUnderItsPin
<1>1. Init => Pinned
  BY DEF Init, Pinned, HoldsPin, Fenced, Absent
<1>2. Pinned => FinalizerSettlesUnderItsPin
  BY DEF Pinned, HoldsPin, FinalizerSettlesUnderItsPin
<1> QED
  BY <1>1, <1>2, PinnedStep, Invariance, PTL DEF Spec

\* The columns the abstract lease sees, after each statement that moves them.
LEMMA StatementFields ==
  ASSUME TypeOK
  PROVE  /\ FreshRow.status = "pending" /\ FreshRow.attempts = 0
         /\ Absent.status = "absent" /\ Absent.attempts = 0
         /\ CompletedRow.status = "completed" /\ CompletedRow.attempts = row.attempts
         /\ RetriedRow.attempts = row.attempts
         /\ RetriedRow.status = IF row.attempts >= MaxAttempts THEN "exhausted" ELSE "retryable"
         /\ \A r \in Run :
              IF row.attempts >= MaxAttempts
              THEN ClaimedRow(r).status = "exhausted" /\ ClaimedRow(r).attempts = row.attempts
              ELSE /\ ClaimedRow(r).status = "running" /\ ClaimedRow(r).token = r
                   /\ ClaimedRow(r).lease = now + Lease
                   /\ ClaimedRow(r).attempts = row.attempts + 1
<1>1. row \in RowType
  BY DEF TypeOK
<1>2. FreshRow.status = "pending" /\ FreshRow.attempts = 0
      /\ Absent.status = "absent" /\ Absent.attempts = 0
  BY DEF FreshRow, Absent
<1>3. CompletedRow.status = "completed" /\ CompletedRow.attempts = row.attempts
  BY <1>1 DEF CompletedRow, RowType
<1>4. /\ RetriedRow.attempts = row.attempts
      /\ RetriedRow.status = IF row.attempts >= MaxAttempts THEN "exhausted" ELSE "retryable"
  BY <1>1 DEF RetriedRow, RowType
<1>5. ASSUME NEW r \in Run
      PROVE  IF row.attempts >= MaxAttempts
             THEN ClaimedRow(r).status = "exhausted" /\ ClaimedRow(r).attempts = row.attempts
             ELSE /\ ClaimedRow(r).status = "running" /\ ClaimedRow(r).token = r
                  /\ ClaimedRow(r).lease = now + Lease
                  /\ ClaimedRow(r).attempts = row.attempts + 1
  BY <1>1 DEF ClaimedRow, RowType
<1> QED
  BY <1>2, <1>3, <1>4, <1>5

\* How the abstract view follows from status, token and lease, in this state
\* and in the next.
LEMMA View ==
  /\ row.status # "running" => LiveHolder = NoRun
  /\ row.status = "running" /\ row.lease <= now /\ row.lease \in Nat /\ now \in Nat
       => LiveHolder = NoRun
  /\ row.status = "running" /\ row.lease > now => LiveHolder = row.token
  /\ row.status \in {"absent", "pending", "running", "retryable"} => Reached = "open"
  /\ row.status = "completed" => Reached = "done"
  /\ row.status = "exhausted" => Reached = "dead"
BY DEF LiveHolder, Reached

(* What the mapping to LeasedWork shows of the row a step leaves. *)
LEMMA NextView ==
  /\ row'.status # "running" => LiveHolder' = NoRun
  /\ row'.status = "running" /\ row'.lease > now' => LiveHolder' = row'.token
  /\ row'.status \in {"absent", "pending", "running", "retryable"} => Reached' = "open"
  /\ row'.status = "completed" => Reached' = "done"
  /\ row'.status = "exhausted" => Reached' = "dead"
BY DEF LiveHolder, Reached

\* Every behaviour of the receipt is one the abstract lease allows: each
\* statement is a step of LeasedWork or leaves its view unchanged.
THEOREM ReceiptImplementsLease == Spec => ImplementsLeasedWork
<1> DEFINE view == <<LiveHolder, Reached, row.attempts>>
<1>1. Init => Promised!Start
  BY BoundAssumption DEF Init, Absent, Promised!Start, LiveHolder, Reached
<1>2. ASSUME IInv, Next PROVE Promised!Step \/ UNCHANGED view
  <2>t. /\ TypeOK /\ RowShape
        /\ now \in Nat /\ row.lease \in Nat /\ row.attempts \in Nat /\ row.expires \in Nat
        /\ MaxAttempts \in Nat /\ Lease \in Nat /\ Lease > 0 /\ NoRun \notin Run
        /\ row.status \in Status
    BY <1>2, Typing DEF IInv
  <2>s. /\ row'.status = row.status /\ row'.token = row.token
        /\ row'.lease = row.lease /\ row'.attempts = row.attempts /\ now' = now
        => UNCHANGED view
    BY DEF LiveHolder, Reached
  <2>1. CASE Tick
    <3>1. CASE LiveHolder' = LiveHolder
      BY <2>1, <3>1 DEF Tick, Reached
    <3>2. CASE LiveHolder' # LiveHolder
      <4>1. LiveHolder # NoRun /\ LiveHolder' = NoRun
        BY <2>1, <2>t, <3>2 DEF Tick, LiveHolder, RowShape
      <4> QED
        BY <2>1, <4>1 DEF Tick, Reached, Promised!Step, Promised!Lapse
    <3> QED
      BY <3>1, <3>2
  <2>2. CASE Ensure /\ now' = now
    <3>1. CASE ~Exists \/ Expired
      <4>1. row' = FreshRow
        BY <2>2, <3>1 DEF Ensure, EnsuredRow
      <4>2. LiveHolder = NoRun
        BY <2>t, <3>1, View DEF Exists, Expired, RowShape
      <4>3. LiveHolder' = NoRun /\ Reached' = "open" /\ row'.attempts = 0
        BY <2>t, <4>1, StatementFields, NextView
      <4> QED
        BY <4>2, <4>3 DEF Promised!Step, Promised!Forget
    <3>2. CASE Exists /\ ~Expired
      BY <1>2, <2>2, <2>s, <3>2, EnsureKeeps
    <3> QED
      BY <3>1, <3>2
  <2>3. CASE CleanupExpired
    <3>1. LiveHolder = NoRun
      BY <2>3, <2>t, View DEF CleanupExpired, Expired, RowShape
    <3>2. LiveHolder' = NoRun /\ Reached' = "open" /\ row'.attempts = 0
      BY <2>3, <2>t, StatementFields, NextView DEF CleanupExpired
    <3> QED
      BY <3>1, <3>2 DEF Promised!Step, Promised!Forget
  <2>4. CASE ExhaustExpired
    <3>1. LiveHolder = NoRun /\ Reached = "open" /\ row.attempts >= MaxAttempts
      BY <2>4, <2>t, View DEF ExhaustExpired
    <3>2. row'.status = "exhausted" /\ row'.attempts = row.attempts
      BY <2>4, <2>t DEF ExhaustExpired, TypeOK, RowType
    <3> QED
      BY <3>1, <3>2, NextView DEF Promised!Step, Promised!Abandon
  <2>5. ASSUME NEW r \in Run, PrepareClaim(r) PROVE Promised!Step \/ UNCHANGED view
    <3>1. CASE ~Claimable
      BY <2>5, <3>1, <2>s DEF PrepareClaim
    <3>2. CASE Claimable
      <4>1. row' = ClaimedRow(r) /\ now' = now
        BY <2>5, <3>2 DEF PrepareClaim
      <4>2. LiveHolder = NoRun /\ Reached = "open"
        BY <2>t, <3>2, View DEF Claimable, Status
      <4>3. CASE row.attempts >= MaxAttempts
        BY <2>t, <4>1, <4>2, <4>3, StatementFields, NextView DEF Promised!Step, Promised!Abandon
      <4>4. CASE ~(row.attempts >= MaxAttempts)
        <5>1. LiveHolder' = r /\ Reached' = "open" /\ row'.attempts = row.attempts + 1
          BY <2>t, <4>1, <4>4, StatementFields, NextView
        <5> QED
          BY <2>t, <4>2, <4>4, <5>1 DEF Promised!Step, Promised!Grant
      <4> QED
        BY <4>3, <4>4
    <3> QED
      BY <3>1, <3>2
  <2>6. ASSUME NEW r \in Run, row' = RecordedRow(r), now' = now PROVE UNCHANGED view
    BY <1>2, <2>6, <2>s, RecordKeeps
  <2>7. ASSUME NEW r \in Run, FinalizeSettle(r) PROVE Promised!Step \/ UNCHANGED view
    <3>1. CASE ~Settleable(r)
      BY <2>7, <3>1, <2>s DEF FinalizeSettle
    <3>2. CASE Settleable(r)
      <4>1. LiveHolder = r /\ Reached = "open" /\ r # NoRun
        BY <2>t, <3>2, View DEF Settleable, Fenced
      <4>2. row' = CompletedRow \/ row' = RetriedRow
        BY <2>7, <3>2 DEF FinalizeSettle
      <4>3. CASE row' = CompletedRow
        <5>1. LiveHolder' = NoRun /\ Reached' = "done" /\ row'.attempts = row.attempts
          BY <2>t, <4>3, StatementFields, NextView
        <5> QED
          BY <4>1, <5>1 DEF Promised!Step, Promised!Finish
      <4>4. CASE row' = RetriedRow
        <5>1. /\ LiveHolder' = NoRun /\ row'.attempts = row.attempts
              /\ Reached' = IF row.attempts >= MaxAttempts THEN "dead" ELSE "open"
          BY <2>t, <4>4, StatementFields, NextView
        <5> QED
          BY <4>1, <5>1 DEF Promised!Step, Promised!GiveUp
      <4> QED
        BY <4>2, <4>3, <4>4
    <3> QED
      BY <3>1, <3>2
  <2>8. row' = row /\ now' = now => UNCHANGED view
    BY <2>s
  <2> QED
    BY <1>2, <2>1, <2>2, <2>3, <2>4, <2>5, <2>6, <2>7, <2>8
       DEF Next, WebhookEnsure, PrepareEnsure, RecordIdentity, EndWork, FinalizeRecord,
           Crash, RepeatFinalizer, RerunFailedJobs
<1>3. UNCHANGED vars => UNCHANGED view
  BY DEF vars, LiveHolder, Reached
<1>4. IInv /\ [Next]_vars => [Promised!Step]_view
  BY <1>2, <1>3
<1> QED
  BY <1>1, <1>4, Invariance, PTL DEF Spec, ImplementsLeasedWork, Promised!Promise

=============================================================================
