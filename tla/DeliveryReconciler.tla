------------------------- MODULE DeliveryReconciler -------------------------
(***************************************************************************)
(* The scheduled webhook reconciler (api/cron/reconcile-webhooks.mjs) and  *)
(* its three tables (scripts/lib/neon-replay-store.mjs): it scans GitHub's *)
(* delivery history in bounded segments, queues a redelivery for every     *)
(* delivery without a success, asks GitHub for it, and moves a checkpoint  *)
(* that no later scan goes behind (but for a fixed overlap).               *)
(*                                                                         *)
(* A delivery attempt is named by its position in GitHub's history, which  *)
(* only grows; 0 is SQL NULL.  Runs interleave statement by statement and  *)
(* may fail or crash anywhere: nothing stops two from overlapping.  The    *)
(* cooldown of a request is a flag that time may set at any moment.        *)
(***************************************************************************)
EXTENDS Integers, Sequences, FiniteSets

CONSTANTS
  Guid,        \* delivery GUIDs
  Invocation,  \* those whose event invokes the controller: only they get a receipt
  NoGuid,
  Reconciler,  \* invocations of the cron handler that may overlap
  PageSize, MaxPages, \* PAGE_SIZE, MAX_PAGES
  Overlap,     \* CHECKPOINT_OVERLAP_MS
  MaxRequests, \* CONTROLLER_MAX_ATTEMPTS, the limit of one request row
  Past,        \* the attempts behind the first checkpoint, all successful
  Gaps,        \* bound of the model: the time between two attempts
  MaxHistory,  \* bound of the model: delivery attempts GitHub ever makes
  MaxAsked     \* bound of the model: redeliveries of a GUID under way

ASSUME ScanAssumption ==
  /\ NoGuid \notin Guid /\ Invocation \subseteq Guid /\ Gaps \subseteq Nat
  /\ PageSize \in Nat \ {0} /\ MaxPages \in Nat \ {0}
  /\ Overlap \in Nat /\ MaxRequests \in Nat \ {0}
  /\ MaxHistory \in Nat /\ MaxAsked \in Nat

ASSUME PastAssumption ==
  /\ Past \in Seq([guid: Guid, at: Nat, ok: BOOLEAN]) /\ Len(Past) <= MaxHistory
  /\ \A i \in 1..Len(Past) : Past[i].ok /\ Past[i].guid \notin Invocation
  /\ \A i, j \in 1..Len(Past) : i <= j => Past[i].at <= Past[j].at

VARIABLES
  history,  \* GitHub: the attempts [guid, at, ok], oldest first
  asked,    \* GitHub: redeliveries it accepted and has not made yet
  scan,     \* webhook_reconciler_state
  observed, \* webhook_reconciler_observations
  requests, \* webhook_redelivery_requests
  receipt,  \* webhook_controller_receipts: [stage, link] of each delivery
  run       \* the invocations

vars == <<history, asked, scan, observed, requests, receipt, run>>
github == <<history, asked>>
tables == <<scan, observed, requests, receipt>>

NoScan == [checkpoint |-> 0, cursor |-> 0, high |-> 0]
NoGroup == [id |-> 0, ok |-> FALSE]
NoGroups == [g \in Guid |-> NoGroup]
NoRequest == [status |-> "absent", id |-> 0, attempts |-> 0, cooled |-> FALSE]
NoIds == [g \in Guid |-> 0]
Idle == [at |-> "idle", snap |-> NoScan, next |-> 0, high |-> 0, seen |-> NoGroups,
         due |-> {}, ids |-> NoIds, todo |-> {}, target |-> NoGuid, result |-> "none"]

-----------------------------------------------------------------------------
\* GitHub's history and what a scan makes of it.

At(i) == IF i = 0 THEN 0 ELSE history[i].at
AttemptsOf(g) == {i \in 1..Len(history) : history[i].guid = g}
Delivered(g) == \E i \in AttemptsOf(g) : history[i].ok

\* withinCheckpoint: the later part of the history is always within.
Within(i, checkpoint) ==
  checkpoint = 0 \/ i > checkpoint \/ At(i) >= At(checkpoint) - Overlap

Newest(S) == CHOOSE i \in S : \A j \in S : j <= i

\* The positions a run reads from where it starts: MaxPages full pages.
First(s) == IF s.cursor # 0 THEN s.cursor ELSE Len(history)
Segment(s) ==
  {i \in 1..First(s) : i > First(s) - MaxPages * PageSize /\ Within(i, s.checkpoint)}
Groups(S) ==
  [g \in Guid |->
     LET mine == S \cap AttemptsOf(g)
     IN  IF mine = {} THEN NoGroup
         ELSE [id |-> Newest(mine), ok |-> \E i \in mine : history[i].ok]]

\* (A slip: a scan that ran out of pages counts as complete.)
NextCursorNone(s) == 0

\* The cursor left when neither the history nor the checkpoint ended the scan;
\* only a page that lies wholly before the checkpoint ends it.
NextCursor(s) ==
  LET beyond == First(s) - MaxPages * PageSize
      lastPage == beyond + PageSize
  IN  IF beyond >= 1 /\ Within(lastPage, s.checkpoint) THEN beyond ELSE 0

-----------------------------------------------------------------------------
\* The store's statements.

\* The compare-and-set of every write to the reconciler's state.
Current(s) == scan.cursor = s.cursor /\ scan.checkpoint = s.checkpoint

\* An exhausted request whose delivery id is not the observed one.
Repairable(g, id) ==
  requests[g].status = "exhausted" /\ requests[g].id # id /\ requests[g].attempts < MaxRequests

Merged(old, new, g) ==
  IF new.id = 0 THEN old
  ELSE [id |-> IF old.id = 0 \/ old.id < new.id
                    \/ (At(old.id) = At(new.id) /\ Repairable(g, new.id))
               THEN new.id ELSE old.id,
        ok |-> old.ok \/ new.ok]

Requeued(q, id) == [q EXCEPT !.status = "queued", !.id = id, !.cooled = TRUE]

\* queueRedeliveryRequests for one GUID of the batch.
Queued(g, id) ==
  IF requests[g].status = "absent"
    THEN [status |-> "queued", id |-> id, attempts |-> 0, cooled |-> TRUE]
  ELSE IF requests[g].status = "queued" THEN [requests[g] EXCEPT !.id = id]
  ELSE IF Repairable(g, id) THEN Requeued(requests[g], id)
  ELSE requests[g]

\* claimRedeliveryRequest: an absent row is inserted, a due one is taken over.
Takeable(g) ==
  \/ requests[g].status = "absent"
  \/ /\ requests[g].status = "queued"
        \/ (requests[g].status \in {"requesting", "accepted"} /\ requests[g].cooled)
     /\ requests[g].attempts < MaxRequests

Requesting(g, id) ==
  [status |-> "requesting", id |-> id, attempts |-> requests[g].attempts + 1, cooled |-> FALSE]

\* The three outcomes of a request; each needs the row to be requesting.
Accepted(q, id) == [q EXCEPT !.status = "accepted", !.id = id, !.cooled = FALSE]
Settled(q, result, id) ==
  CASE result = "accepted" -> Accepted(q, id)
    [] result = "rejected" -> [q EXCEPT !.status = "exhausted", !.id = id]
    [] OTHER -> [q EXCEPT !.status = IF q.attempts >= MaxRequests THEN "exhausted" ELSE "requesting",
                          !.id = id, !.cooled = FALSE]

Due(queuedToo) ==
  {g \in Guid : /\ \/ queuedToo /\ requests[g].status = "queued"
                   \/ requests[g].status \in {"accepted", "requesting"} /\ requests[g].cooled
                /\ requests[g].attempts < MaxRequests}

\* (A slip: a request at the limit has one more to go.)
SpentBeyond(q) == q.status \in {"requesting", "accepted"} /\ q.attempts > MaxRequests /\ q.cooled

Spent(q) == q.status \in {"requesting", "accepted"} /\ q.attempts >= MaxRequests /\ q.cooled

Pending ==
  \E g \in Guid : \/ requests[g].status \in {"queued", "requesting", "exhausted"}
                  \/ requests[g].status = "accepted" /\ Spent(requests[g])

-----------------------------------------------------------------------------
\* GitHub, the gateway behind it and the controller.

\* An attempt is made: the gateway ensures a receipt unless it is not reached.
Attempt(g) ==
  \E ok \in BOOLEAN, gap \in Gaps :
    /\ Len(history) < MaxHistory
    /\ history' = Append(history, [guid |-> g, at |-> At(Len(history)) + gap, ok |-> ok])
    /\ \E ensured \in BOOLEAN :
         /\ ensured => g \in Invocation
         /\ ok /\ g \in Invocation => ensured
         /\ receipt' = IF ensured /\ receipt[g].stage = "absent"
                       THEN [receipt EXCEPT ![g].stage = "open"] ELSE receipt
    /\ UNCHANGED <<scan, observed, requests, run>>

Deliver(g) == AttemptsOf(g) = {} /\ Attempt(g) /\ UNCHANGED asked
Redeliver(g) == asked[g] > 0 /\ Attempt(g) /\ asked' = [asked EXCEPT ![g] = @ - 1]

\* A run of the controller completes (or exhausts) the receipt.
ControllerSettles(g) ==
  /\ receipt[g].stage = "open"
  /\ receipt' = [receipt EXCEPT ![g].stage = "settled"]
  /\ UNCHANGED <<github, scan, observed, requests, run>>

\* next_attempt_at passes.
CoolDown(g) ==
  /\ requests[g].status \in {"requesting", "accepted"} /\ ~requests[g].cooled
  /\ requests' = [requests EXCEPT ![g].cooled = TRUE]
  /\ UNCHANGED <<github, scan, observed, receipt, run>>

-----------------------------------------------------------------------------
\* reconcileWebhookDeliveries, one action per statement or request.

Step(r, from, new) == run[r].at = from /\ run' = [run EXCEPT ![r] = new]
Fail(r) == run' = [run EXCEPT ![r] = Idle]

ReadState(r) ==
  /\ Step(r, "idle", [Idle EXCEPT !.at = "began", !.snap = scan])
  /\ UNCHANGED <<github, tables>>

\* Pages behind the first never change, so the fetches are one step.
Collect(r) ==
  LET s == run[r].snap
  IN  /\ Step(r, "began", [run[r] EXCEPT !.at = "collected", !.seen = Groups(Segment(s)),
                !.next = NextCursor(s), !.high = IF s.cursor # 0 THEN s.high ELSE First(s)])
      /\ UNCHANGED <<github, tables>>

\* mergeReconcilerObservations; an empty batch is not even sent.
Merge(r) ==
  LET seen == run[r].seen
      merged == [g \in Guid |-> Merged(observed[g], seen[g], g)]
  IN  /\ run[r].at = "collected"
      /\ IF seen = NoGroups
         THEN Step(r, "collected", [run[r] EXCEPT !.at = "merged"]) /\ UNCHANGED <<observed, requests>>
         ELSE IF Current(run[r].snap)
         THEN /\ observed' = merged
              /\ requests' = [g \in Guid |->
                   IF seen[g].id # 0 /\ merged[g].id = seen[g].id /\ Repairable(g, merged[g].id)
                   THEN Requeued(requests[g], merged[g].id) ELSE requests[g]]
              /\ Step(r, "collected", [run[r] EXCEPT !.at = "merged"])
         ELSE Fail(r) /\ UNCHANGED <<observed, requests>>
      /\ UNCHANGED <<github, scan, receipt>>

ReadObservations(r) ==
  /\ Step(r, "merged", [run[r] EXCEPT !.at = "grouped",
                           !.seen = IF run[r].next # 0 THEN NoGroups ELSE observed])
  /\ UNCHANGED <<github, tables>>

\* dueControllerReceipts: any open, linked receipt may be due by its clock.
ReadDueReceipts(r) ==
  /\ \E due \in SUBSET {g \in Guid : receipt[g].stage = "open" /\ receipt[g].link # 0} :
       Step(r, "grouped", [run[r] EXCEPT !.at = "due", !.due = due,
              !.ids = [g \in Guid |-> IF g \in due THEN receipt[g].link ELSE 0]])
  /\ UNCHANGED <<github, tables>>

\* (A slip: only the receipts that are due are linked.)
LinkDue(r) ==
  LET seen == run[r].seen
  IN  /\ receipt' = [g \in Guid |-> IF seen[g].id # 0 /\ g \in run[r].due
                                    THEN [receipt[g] EXCEPT !.link = seen[g].id] ELSE receipt[g]]
      /\ Step(r, "due", [run[r] EXCEPT !.at = "linked",
              !.todo = {g \in Guid : seen[g].id # 0 /\ seen[g].ok /\ g \notin run[r].due}])
      /\ UNCHANGED <<github, scan, observed, requests>>

\* (A slip: every observed delivery that is not due is completed.)
LinkCompleting(r) ==
  LET seen == run[r].seen
  IN  /\ receipt' = [g \in Guid |-> IF seen[g].id # 0 /\ receipt[g].stage = "open"
                                    THEN [receipt[g] EXCEPT !.link = seen[g].id] ELSE receipt[g]]
      /\ Step(r, "due", [run[r] EXCEPT !.at = "linked",
              !.todo = {g \in Guid : seen[g].id # 0 /\ g \notin run[r].due}])
      /\ UNCHANGED <<github, scan, observed, requests>>

Link(r) ==
  LET seen == run[r].seen
  IN  /\ receipt' = [g \in Guid |-> IF seen[g].id # 0 /\ receipt[g].stage = "open"
                                    THEN [receipt[g] EXCEPT !.link = seen[g].id] ELSE receipt[g]]
      /\ Step(r, "due", [run[r] EXCEPT !.at = "linked",
              !.todo = {g \in Guid : seen[g].id # 0 /\ seen[g].ok /\ g \notin run[r].due}])
      /\ UNCHANGED <<github, scan, observed, requests>>

CompleteRedelivery(r) ==
  /\ \E g \in run[r].todo :
       /\ Step(r, "linked", [run[r] EXCEPT !.todo = @ \ {g}])
       /\ requests' = [requests EXCEPT ![g] = NoRequest]
  /\ UNCHANGED <<github, scan, observed, receipt>>

\* A scanned delivery without success, or due, by its newest attempt; a due
\* one that was not scanned by the receipt's own link.
QueueRedeliveries(r) ==
  LET id(g) == IF run[r].seen[g].id # 0 /\ (~run[r].seen[g].ok \/ g \in run[r].due)
               THEN run[r].seen[g].id ELSE run[r].ids[g]
  IN  /\ run[r].todo = {}
      /\ requests' = [g \in Guid |-> IF id(g) # 0 THEN Queued(g, id(g)) ELSE requests[g]]
      /\ Step(r, "linked", [run[r] EXCEPT !.at = "queued", !.seen = NoGroups, !.due = {}, !.ids = NoIds])
      /\ UNCHANGED <<github, scan, observed, receipt>>

ReadDueRequests(r) ==
  LET due == Due(run[r].next = 0)
  IN  /\ Step(r, "queued", [run[r] EXCEPT !.at = "requesting", !.todo = due,
              !.ids = [g \in Guid |-> IF g \in due THEN requests[g].id ELSE 0]])
      /\ UNCHANGED <<github, tables>>

ClaimRequest(r) ==
  /\ \E g \in run[r].todo :
       IF Takeable(g)
       THEN /\ requests' = [requests EXCEPT ![g] = Requesting(g, run[r].ids[g])]
            /\ Step(r, "requesting", [run[r] EXCEPT !.at = "posting", !.target = g, !.todo = @ \ {g}])
       ELSE /\ Step(r, "requesting", [run[r] EXCEPT !.at = "missed", !.target = g, !.todo = @ \ {g}])
            /\ UNCHANGED requests
  /\ UNCHANGED <<github, scan, observed, receipt>>

\* The claim missed: a request at its limit is exhausted, a vanished one throws.
MissRequest(r) ==
  LET g == run[r].target
  IN  /\ run[r].at = "missed"
      /\ IF requests[g].status = "absent" THEN Fail(r)
         ELSE Step(r, "missed", [run[r] EXCEPT !.at = "requesting", !.target = NoGuid])
      /\ requests' = IF requests[g].status = "requesting" /\ requests[g].attempts >= MaxRequests
                     THEN [requests EXCEPT ![g].status = "exhausted"] ELSE requests
      /\ UNCHANGED <<github, scan, observed, receipt>>

\* GitHub accepts, rejects (4xx), limits the rate, or the outcome is unknown.
Post(r) ==
  /\ \E result \in {"accepted", "rejected", "limited", "unknown"} :
       /\ Step(r, "posting", [run[r] EXCEPT !.at = "marking", !.result = result])
       /\ \E made \in BOOLEAN :
            /\ result = "accepted" => made
            /\ result \in {"rejected", "limited"} => ~made
            /\ made => asked[run[r].target] < MaxAsked
            /\ asked' = IF made THEN [asked EXCEPT ![run[r].target] = @ + 1] ELSE asked
  /\ UNCHANGED <<history, tables>>

\* The outcome is recorded.  Only an acceptance or a rejection goes on; when
\* the row is no longer requesting the store throws.
Mark(r) ==
  LET g == run[r].target
      done == run[r].result \in {"accepted", "rejected"}
  IN  /\ run[r].at = "marking"
      /\ IF requests[g].status # "requesting"
         THEN Step(r, "marking", [run[r] EXCEPT !.at = "recovering"]) /\ UNCHANGED requests
         ELSE /\ requests' = [requests EXCEPT ![g] = Settled(@, run[r].result, run[r].ids[g])]
              /\ IF done THEN Step(r, "marking", [run[r] EXCEPT !.at = "requesting",
                                    !.target = NoGuid, !.result = "none"])
                         ELSE Fail(r)
      /\ UNCHANGED <<github, scan, observed, receipt>>

\* deferAndReportPersistenceFailure, after which the run fails anyway.
Recover(r) ==
  LET g == run[r].target
  IN  /\ run[r].at = "recovering"
      /\ requests' = IF requests[g].status = "requesting"
                     THEN [requests EXCEPT ![g] = Settled(@, "unknown", run[r].ids[g])] ELSE requests
      /\ Fail(r)
      /\ UNCHANGED <<github, scan, observed, receipt>>

ExhaustExpiredRequests(r) ==
  /\ run[r].todo = {}
  /\ Step(r, "requesting", [run[r] EXCEPT !.at = "exhausted", !.ids = NoIds])
  /\ requests' = [g \in Guid |-> IF Spent(requests[g])
                                 THEN [requests[g] EXCEPT !.status = "exhausted"] ELSE requests[g]]
  /\ UNCHANGED <<github, scan, observed, receipt>>

\* hasPendingRedeliveryRequests, and what the run does with the answer.
CheckPending(r) ==
  /\ \/ /\ run[r].next # 0
        /\ Step(r, "exhausted", [run[r] EXCEPT !.at = "saving"])
     \/ /\ run[r].next = 0 /\ run[r].high # 0 /\ ~Pending
        /\ Step(r, "exhausted", [run[r] EXCEPT !.at = "advancing"])
     \/ /\ run[r].next = 0 /\ (run[r].high = 0 \/ Pending)
        /\ Step(r, "exhausted", Idle)
  /\ UNCHANGED <<github, tables>>

SaveScan(r) ==
  /\ Step(r, "saving", Idle)
  /\ scan' = IF Current(run[r].snap)
             THEN [scan EXCEPT !.cursor = run[r].next, !.high = run[r].high] ELSE scan
  /\ UNCHANGED <<github, observed, requests, receipt>>

\* (A slip: the checkpoint is written without comparing.)
AdvanceCheckpointBlindly(r) ==
  /\ Step(r, "advancing", Idle)
  /\ scan' = [NoScan EXCEPT !.checkpoint = run[r].high] /\ observed' = NoGroups
  /\ UNCHANGED <<github, requests, receipt>>

\* (A slip: the high-water mark of the finished scan is kept.)
AdvanceCheckpointKeepingHigh(r) ==
  /\ Step(r, "advancing", Idle)
  /\ IF Current(run[r].snap)
     THEN /\ scan' = [scan EXCEPT !.cursor = 0, !.checkpoint =
                        IF scan.checkpoint <= run[r].high THEN run[r].high ELSE scan.checkpoint]
          /\ observed' = NoGroups
     ELSE UNCHANGED <<scan, observed>>
  /\ UNCHANGED <<github, requests, receipt>>

AdvanceCheckpoint(r) ==
  /\ Step(r, "advancing", Idle)
  /\ IF Current(run[r].snap)
     THEN /\ scan' = [NoScan EXCEPT !.checkpoint =
                        IF scan.checkpoint <= run[r].high THEN run[r].high ELSE scan.checkpoint]
          /\ observed' = NoGroups
     ELSE UNCHANGED <<scan, observed>>
  /\ UNCHANGED <<github, requests, receipt>>

\* The platform stops the invocation, or GitHub or the store does not answer.
Crash(r) ==
  /\ run[r].at # "idle"
  /\ Fail(r)
  /\ UNCHANGED <<github, tables>>

-----------------------------------------------------------------------------
Init ==
  /\ history = Past /\ asked = NoIds
  /\ scan = [NoScan EXCEPT !.checkpoint = Len(Past)] /\ observed = NoGroups
  /\ requests = [g \in Guid |-> NoRequest]
  /\ receipt = [g \in Guid |-> [stage |-> "absent", link |-> 0]]
  /\ run = [r \in Reconciler |-> Idle]

Advance(r) ==
  \/ ReadState(r) \/ Collect(r) \/ Merge(r) \/ ReadObservations(r) \/ ReadDueReceipts(r)
  \/ Link(r) \/ CompleteRedelivery(r) \/ QueueRedeliveries(r) \/ ReadDueRequests(r)
  \/ ClaimRequest(r) \/ MissRequest(r) \/ Post(r) \/ Mark(r) \/ Recover(r)
  \/ ExhaustExpiredRequests(r) \/ CheckPending(r) \/ SaveScan(r) \/ AdvanceCheckpoint(r)

Next ==
  \/ \E g \in Guid : Deliver(g) \/ Redeliver(g) \/ ControllerSettles(g) \/ CoolDown(g)
  \/ \E r \in Reconciler : Advance(r) \/ Crash(r)

Spec == Init /\ [][Next]_vars

\* The cron schedule starts a run again and again and time passes; nothing is
\* assumed of GitHub, which may never make a redelivery it accepted.
FairSpec ==
  /\ Spec
  /\ \A r \in Reconciler : WF_vars(Advance(r))
  /\ \A g \in Guid : WF_vars(CoolDown(g))

-----------------------------------------------------------------------------
\* Properties.

\* Every variable has its type; a stored cursor comes with its high-water mark.
Id == 0..MaxHistory
Group == [id: Id, ok: BOOLEAN]
ScanType == [checkpoint: Id, cursor: Id, high: Id]
TypeOK ==
  /\ history \in Seq([guid: Guid, at: Nat, ok: BOOLEAN]) /\ Len(history) <= MaxHistory
  /\ asked \in [Guid -> 0..MaxAsked]
  /\ scan \in ScanType /\ (scan.cursor = 0 <=> scan.high = 0)
  /\ observed \in [Guid -> Group]
  /\ requests \in [Guid -> [status: {"absent", "queued", "requesting", "accepted", "exhausted"},
                            id: Id, attempts: 0..MaxRequests, cooled: BOOLEAN]]
  /\ receipt \in [Guid -> [stage: {"absent", "open", "settled"}, link: Id]]
  /\ \A r \in Reconciler :
       /\ run[r].snap \in ScanType /\ run[r].next \in Id /\ run[r].high \in Id
       /\ run[r].seen \in [Guid -> Group] /\ run[r].ids \in [Guid -> Id]
       /\ run[r].due \subseteq Guid /\ run[r].todo \subseteq Guid
       /\ run[r].target \in Guid \union {NoGuid}

\* No scan will ever see an attempt of this delivery again.
OutOfReach(g) == AttemptsOf(g) # {} /\ \A i \in AttemptsOf(g) : ~Within(i, scan.checkpoint)

\* A delivery that never succeeded is not left behind the checkpoint without
\* a request in the redelivery queue, however the scan was cut into segments,
\* whatever arrived meanwhile and wherever a run stopped.
NoDeliveryForgotten ==
  \A g \in Guid : OutOfReach(g) /\ ~Delivered(g) => requests[g].status # "absent"

\* An open receipt whose delivery left the scan's reach carries the delivery
\* id without which the reconciler could never find it due.
OpenReceiptReachable ==
  \A g \in Guid : OutOfReach(g) /\ receipt[g].stage = "open" => receipt[g].link # 0

\* The history is never reopened: overlapping runs, each with its own idea of
\* the high-water mark, cannot move the checkpoint back.
CheckpointMonotone == [][scan'.checkpoint >= scan.checkpoint]_vars

\* A request leaves the queue only for a delivery that GitHub has seen succeed.
RequestKept ==
  [][\A g \in Guid : requests[g].status # "absent" /\ requests'[g].status = "absent"
       => Delivered(g)]_vars

\* A stop that is not also the regular end of a run.
Stopped(r) == Crash(r) /\ ~Advance(r)

\* When runs stop crashing, a delivery succeeds, or some request is given up
\* and waits for the operator, for whom the reconciler holds the checkpoint.
EventuallyResolved ==
  <>[][\A r \in Reconciler : ~Stopped(r)]_vars =>
    \A g \in Guid :
      AttemptsOf(g) # {} ~> (Delivered(g) \/ \E h \in Guid : requests[h].status = "exhausted")
=============================================================================
