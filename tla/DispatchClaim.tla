--------------------------- MODULE DispatchClaim ---------------------------
(***************************************************************************)
(* The webhook gateway between GitHub's delivery of one event and the      *)
(* repository_dispatch that starts the controller: handleWebhook of        *)
(* api/github/webhook.mjs over one row of webhook_replay_claims, whose     *)
(* statements are in scripts/lib/neon-replay-store.mjs.                    *)
(*                                                                         *)
(* GitHub may deliver the same event many times and at once; every request *)
(* runs in its own function instance, which may be killed between any two  *)
(* statements.  The dispatch POST and its answer are two messages: GitHub  *)
(* may accept what the gateway believes has timed out.                     *)
(***************************************************************************)
EXTENDS Integers, FiniteSets

CONSTANTS
  Request,   \* the HTTP requests that carry this delivery; each is its own lease token
  NoRequest, \* SQL NULL in dispatch_lease_token
  Window,    \* AGENTIC_DELIVERY_REPLAY_WINDOW_MS
  Lease,     \* DEFAULT_DISPATCH_LEASE_MS
  MaxTime    \* bound of the model's clock

ASSUME RequestAssumption == NoRequest \notin Request
ASSUME TimeAssumption == Window \in Nat \ {0} /\ Lease \in Nat \ {0} /\ MaxTime \in Nat

VARIABLES
  now,     \* clock_timestamp()
  claim,   \* the row of webhook_replay_claims
  receipt, \* the controller receipt of the delivery; an observation event keeps none
  step,    \* where each request is in handleWebhook
  wire,    \* what became of each request's dispatch POST at GitHub
  answer,  \* the HTTP status each request was answered with, 0 for none
  granted  \* history: when each request was granted the claim, -1 for never

vars == <<now, claim, receipt, step, wire, answer, granted>>

Step   == {"idle", "checked", "missed", "claimed", "sent", "accepted", "refused", "over"}
Wire   == {"none", "flying", "accepted", "refused"}
Answer == {0, 200, 202, 204, 403, 502, 503}
Receipt == {"none", "open", "completed"}

NoClaim == [status |-> "absent", token |-> NoRequest, lease |-> 0, expires |-> 0]

Dispatched == \E q \in Request : wire[q] = "accepted"

-----------------------------------------------------------------------------
\* The statements.

\* (A slip: a dispatched row without a lease counts as lapsed.)
ClaimableWithoutLease ==
  \/ claim.status = "absent" \/ claim.expires <= now
  \/ claim.lease <= now

Claimable ==
  \/ claim.status = "absent" \/ claim.expires <= now
  \/ claim.status = "dispatching" /\ claim.lease <= now

\* (A slip: the lease is subtracted from the clock.)
ClaimedBackwards(q) ==
  [status |-> "dispatching", token |-> q, lease |-> now - Lease, expires |-> now + Window]

ClaimedBy(q) ==
  [status |-> "dispatching", token |-> q, lease |-> now + Lease, expires |-> now + Window]

\* Every write after the claim names the owner's token; note that it does
\* not ask whether the lease, or the row, has expired.
HeldBy(q) == claim.status = "dispatching" /\ claim.token = q

\* The write markDispatched makes.
DispatchedRow == [claim EXCEPT !.status = "dispatched", !.lease = 0, !.token = NoRequest]

-----------------------------------------------------------------------------
Init ==
  /\ now = 0 /\ claim = NoClaim /\ receipt \in {"none", "open"}
  /\ step = [q \in Request |-> "idle"]
  /\ wire = [q \in Request |-> "none"]
  /\ answer = [q \in Request |-> 0]
  /\ granted = [q \in Request |-> -1]

\* A request ends with an HTTP status; 0 stands for a killed function.
Reply(q, status) ==
  /\ step' = [step EXCEPT ![q] = "over"]
  /\ answer' = [answer EXCEPT ![q] = status]

Goto(q, where) ==
  /\ step' = [step EXCEPT ![q] = where]
  /\ UNCHANGED answer

\* actorIsAuthorized: an actor whose permission is too small is refused, and a
\* permission that cannot be read is an error.
ActorRefusals == {403, 502}

\* No token for the origin or for the controller repository and a repository that does
\* not take part are refused; an event that its participant has not subscribed to is
\* none of the gateway's.  What the delivery alone decides (its signature, event,
\* organization, repository and mention) it has passed in all its requests.
AdmissionRefusals == {204, 403}

TurnAway(q) ==
  /\ step[q] = "idle"
  /\ \E status \in AdmissionRefusals \cup ActorRefusals : Reply(q, status)
  /\ UNCHANGED <<now, claim, receipt, wire, granted>>

\* ensureControllerReceipt and the read of the receipt, for events that keep
\* one; an observation event goes straight to the claim.
Check(q) ==
  /\ step[q] = "idle"
  /\ IF receipt = "completed" THEN Reply(q, 200) ELSE Goto(q, "checked")
  /\ UNCHANGED <<now, claim, receipt, wire, granted>>

\* claimWithLease: CLAIM_SQL returned the row.
Claim(q) ==
  /\ step[q] = "checked" /\ Claimable
  /\ claim' = ClaimedBy(q)
  /\ granted' = [granted EXCEPT ![q] = now]
  /\ Goto(q, "claimed")
  /\ UNCHANGED <<now, receipt, wire>>

\* ... or no row: a second statement will read why.
Miss(q) ==
  /\ step[q] = "checked" /\ ~Claimable
  /\ Goto(q, "missed")
  /\ UNCHANGED <<now, claim, receipt, wire, granted>>

\* (A slip: a miss is answered as a duplicate whoever holds the claim.)
MissStatusDuplicate == 200

\* The status read after a miss decides the answer, but only of an event
\* without a receipt: one with a receipt is always told to come back.
MissStatus == IF receipt = "none" /\ claim.status = "dispatched" THEN 200 ELSE 503

AnswerMiss(q) ==
  /\ step[q] = "missed"
  /\ Reply(q, MissStatus)
  /\ UNCHANGED <<now, claim, receipt, wire, granted>>

\* POST /repos/<controller>/dispatches leaves the gateway.
Send(q) ==
  /\ step[q] = "claimed"
  /\ wire' = [wire EXCEPT ![q] = "flying"]
  /\ Goto(q, "sent")
  /\ UNCHANGED <<now, claim, receipt, granted>>

\* GitHub's side of the POST.
Arrive(q) ==
  /\ wire[q] = "flying"
  /\ \E verdict \in {"accepted", "refused"} : wire' = [wire EXCEPT ![q] = verdict]
  /\ UNCHANGED <<now, claim, receipt, step, answer, granted>>

\* A 2xx, or a status that proves the dispatch was not accepted (below 500
\* and not 408).
Hear(q) ==
  /\ step[q] = "sent" /\ wire[q] \in {"accepted", "refused"}
  /\ Goto(q, wire[q])
  /\ UNCHANGED <<now, claim, receipt, wire, granted>>

\* AbortSignal.timeout, a network failure, a 5xx or a 408 proves nothing: the
\* error is thrown, the bounded lease is kept and the request answered 502.
LoseAnswer(q) ==
  /\ step[q] = "sent"
  /\ Reply(q, 502)
  /\ UNCHANGED <<now, claim, receipt, wire, granted>>

\* markDispatched: without a row of its own, or when the statement's result is
\* lost, the request is not answered 202.
MarkDispatched(q) ==
  /\ step[q] = "accepted"
  /\ \/ /\ HeldBy(q)
        /\ claim' = DispatchedRow
        /\ \E status \in {0, 202, 502} : Reply(q, status)
     \/ /\ ~HeldBy(q)
        /\ UNCHANGED claim
        /\ Reply(q, 502)
  /\ UNCHANGED <<now, receipt, wire, granted>>

\* releaseClaim, then the rethrown error.
Release(q) ==
  /\ step[q] = "refused"
  /\ claim' = IF HeldBy(q) THEN NoClaim ELSE claim
  /\ Reply(q, 502)
  /\ UNCHANGED <<now, receipt, wire, granted>>

\* The function instance dies, or the store cannot be reached.
Die(q) ==
  /\ step[q] \notin {"idle", "over"}
  /\ \E status \in {0, 502} : Reply(q, status)
  /\ UNCHANGED <<now, claim, receipt, wire, granted>>

\* The claim of another delivery deletes rows that have expired.
PurgeExpired ==
  /\ claim.status # "absent" /\ claim.expires <= now
  /\ claim' = NoClaim
  /\ UNCHANGED <<now, receipt, step, wire, answer, granted>>

\* A controller run settles the receipt of a dispatched event (module
\* ControllerReceipt says how).
ControllerCompletes ==
  /\ receipt # "none" /\ Dispatched
  /\ receipt' = "completed"
  /\ UNCHANGED <<now, claim, step, wire, answer, granted>>

Tick ==
  /\ now < MaxTime
  /\ now' = now + 1
  /\ UNCHANGED <<claim, receipt, step, wire, answer, granted>>

Gateway(q) == TurnAway(q) \/ Check(q) \/ Claim(q) \/ Miss(q) \/ AnswerMiss(q) \/ Send(q) \/ Hear(q)
                \/ MarkDispatched(q) \/ Release(q)

Next ==
  \/ \E q \in Request : Gateway(q) \/ Arrive(q) \/ LoseAnswer(q) \/ Die(q)
  \/ PurgeExpired \/ ControllerCompletes \/ Tick

Spec == Init /\ [][Next]_vars

-----------------------------------------------------------------------------
\* Every variable has its type.
TypeOK ==
  /\ now \in 0..MaxTime
  /\ claim \in [status: {"absent", "dispatching", "dispatched"}, token: Request \cup {NoRequest},
                lease: Nat, expires: Nat]
  /\ receipt \in Receipt
  /\ step \in [Request -> Step]
  /\ wire \in [Request -> Wire]
  /\ answer \in [Request -> Answer]
  /\ granted \in [Request -> {-1} \cup 0..MaxTime]

\* GitHub stops redelivering an event that was answered with success, so a
\* success is only ever answered when GitHub has accepted a dispatch of it:
\* the 202 of the request that posted it, the duplicate 200 of an observation
\* whose claim is confirmed, the duplicate 200 of a completed receipt.
SuccessMeansDispatched ==
  \A q \in Request : answer[q] \in {200, 202} => Dispatched

\* Two requests that both confirmed their dispatch (202) were granted the
\* claim at least one replay window apart: a confirmed dispatch is repeated
\* only after the window, even by requests whose lease had lapsed unnoticed.
ConfirmedWindowApart ==
  \A p, q \in Request :
     (p # q /\ answer[p] = 202 /\ answer[q] = 202) =>
        (granted[q] >= granted[p] + Window \/ granted[p] >= granted[q] + Window)

\* "An expired request cannot complete or release a newer request's claim"
\* (docs/delivery/replay-protection.md:5): while the lease of a live row runs,
\* the row changes only by a step of the request that holds it.
LiveClaimFenced ==
  [][(claim.status = "dispatching" /\ claim.expires > now /\ claim.lease > now /\ claim' # claim)
       => \E q \in Request : claim.token = q /\ step[q] # step'[q]]_vars
=============================================================================
