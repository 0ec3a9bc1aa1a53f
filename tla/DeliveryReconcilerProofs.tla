---------------------- MODULE DeliveryReconcilerProofs ----------------------
(***************************************************************************)
(* Proofs about DeliveryReconciler.  For any number of overlapping runs:   *)
(* the types, a request leaves the queue only for a delivery that          *)
(* succeeded, and the checkpoint never moves back.  For runs that do not   *)
(* overlap: neither a delivery nor an open receipt is forgotten, by the    *)
(* account a scan gives of every position the checkpoint leaves open.      *)
(***************************************************************************)
EXTENDS DeliveryReconciler, WellFoundedInduction, TLAPS

Attempts == Seq([guid: Guid, at: Nat, ok: BOOLEAN])
Marks == [checkpoint: Nat, cursor: Nat, high: Nat]

\* What a run carries has the shape the statements rely on.
RunShape(r) ==
  /\ DOMAIN run[r] = DOMAIN Idle
  /\ run[r].snap \in Marks /\ run[r].next \in Nat /\ run[r].high \in Nat

Columns == {"status", "id", "attempts", "cooled"}
RequestShape ==
  /\ DOMAIN requests = Guid
  /\ \A g \in Guid : DOMAIN requests[g] = Columns

Shape ==
  /\ history \in Attempts
  /\ scan \in Marks
  /\ DOMAIN run = Reconciler /\ RequestShape
  /\ \A r \in Reconciler : RunShape(r)

\* Whatever claims a success, in the tables or in a run, GitHub recorded it.
Truthful(group) == \A g \in Guid : group[g].ok => Delivered(g)
Evidence(r) ==
  /\ Truthful(run[r].seen)
  /\ run[r].at = "linked" => \A g \in run[r].todo : g \in Guid /\ Delivered(g)

IInv == Shape /\ Truthful(observed) /\ \A r \in Reconciler : Evidence(r)

-----------------------------------------------------------------------------
(* An element of a sequence over S is in S. *)
LEMMA ElementIn == ASSUME NEW S, NEW q \in Seq(S), NEW i \in 1..Len(q) PROVE q[i] \in S
OBVIOUS

\* History only grows, so a success once recorded stays.
LEMMA HistoryGrows ==
  ASSUME history \in Attempts, NEW e \in [guid: Guid, at: Nat, ok: BOOLEAN],
         history' = history \/ history' = Append(history, e)
  PROVE  history' \in Attempts /\ \A g \in Guid : Delivered(g) => Delivered(g)'
<1>1. CASE history' = history
  BY <1>1 DEF Attempts, Delivered, AttemptsOf
<1>2. CASE history' = Append(history, e)
  <2>1. history' \in Attempts /\ Len(history') = Len(history) + 1 /\ Len(history) \in Nat
    BY <1>2 DEF Attempts
  <2>2. \A i \in 1..Len(history) : i \in 1..Len(history') /\ history'[i] = history[i]
    BY <1>2, <2>1 DEF Attempts
  <2> QED
    BY <2>1, <2>2 DEF Delivered, AttemptsOf
<1> QED
  BY <1>1, <1>2

\* A step of one run touches no other.
LEMMA OneRun ==
  ASSUME Shape, NEW r \in Reconciler, NEW new, run' = [run EXCEPT ![r] = new]
  PROVE  DOMAIN run' = Reconciler /\ run'[r] = new /\ \A q \in Reconciler \ {r} : run'[q] = run[q]
BY DEF Shape

(* The shape of an idle reconciler, which knows nothing. *)
LEMMA IdleShape ==
  /\ DOMAIN Idle = {"at", "snap", "next", "high", "seen", "due", "ids", "todo", "target", "result"}
  /\ Idle.at = "idle" /\ Idle.snap \in Marks /\ Idle.next \in Nat /\ Idle.high \in Nat
  /\ NoScan \in Marks
  /\ \A g \in Guid : NoGroups[g].ok = FALSE /\ Idle.seen[g].ok = FALSE
BY DEF Idle, Marks, NoScan, NoGroups, NoGroup

\* The groups made of any part of the history are truthful.
LEMMA GroupsTruthful == ASSUME NEW S PROVE Truthful(Groups(S))
BY DEF Truthful, Groups, NoGroup, Delivered, AttemptsOf

\* The positions a run computes are positions.
LEMMA PositionsTyped ==
  ASSUME Shape, NEW s \in Marks
  PROVE  First(s) \in Nat /\ NextCursor(s) \in Nat
<1>1. MaxPages * PageSize \in Nat
  BY ScanAssumption, SMT
<1>2. First(s) \in Nat
  BY DEF First, Shape, Attempts, Marks
<1> DEFINE beyond == First(s) - MaxPages * PageSize
<1>3. beyond \in Int /\ (beyond >= 1 => beyond \in Nat)
  BY <1>1, <1>2
<1> QED
  BY <1>2, <1>3 DEF NextCursor

-----------------------------------------------------------------------------
(* The invariant holds initially. *)
LEMMA InitInvariant == Init => IInv
<1> SUFFICES ASSUME Init PROVE IInv
  OBVIOUS
<1>1. Past \in Attempts
  BY PastAssumption DEF Attempts
<1>2. scan \in Marks
  BY <1>1 DEF Init, NoScan, Marks, Attempts
<1>3. RequestShape
  BY DEF Init, RequestShape, NoRequest, Columns
<1>4. Shape
  BY <1>1, <1>2, <1>3, IdleShape DEF Init, Shape, RunShape
<1>5. Truthful(observed)
  BY IdleShape DEF Init, Truthful
<1>6. \A r \in Reconciler : Evidence(r)
  BY IdleShape DEF Init, Evidence, Truthful
<1> QED
  BY <1>4, <1>5, <1>6 DEF IInv

\* A step of run r that leaves the history alone keeps the invariant when it
\* keeps the shape of the tables and of r, and their evidence.
LEMMA RunStep ==
  ASSUME IInv, NEW r \in Reconciler, NEW new,
         run' = [run EXCEPT ![r] = new], UNCHANGED history,
         scan' \in Marks, RequestShape',
         \/ UNCHANGED observed
         \/ \A g \in Guid : observed'[g].ok => Delivered(g),
         DOMAIN new = DOMAIN Idle, new.snap \in Marks, new.next \in Nat, new.high \in Nat,
         Truthful(new.seen),
         new.at = "linked" => \A g \in new.todo : g \in Guid /\ Delivered(g)
  PROVE  IInv'
<1>1. DOMAIN run' = Reconciler /\ run'[r] = new /\ \A q \in Reconciler \ {r} : run'[q] = run[q]
  BY OneRun DEF IInv
<1>2. \A g : Delivered(g)' <=> Delivered(g)
  BY DEF Delivered, AttemptsOf
<1>3. Shape'
  BY <1>1 DEF IInv, Shape, RunShape
<1>4. Truthful(observed)'
  BY <1>2 DEF IInv, Truthful
<1>5. ASSUME NEW q \in Reconciler PROVE Evidence(q)'
  <2>1. CASE q = r
    BY <1>1, <1>2, <2>1 DEF Evidence, Truthful
  <2>2. CASE q # r
    BY <1>1, <1>2, <2>2 DEF IInv, Evidence, Truthful
  <2> QED
    BY <2>1, <2>2
<1> QED
  BY <1>3, <1>4, <1>5 DEF IInv

\* GitHub, the controller and time.
LEMMA EnvironmentStep ==
  ASSUME IInv, NEW g \in Guid,
         Deliver(g) \/ Redeliver(g) \/ ControllerSettles(g) \/ CoolDown(g)
  PROVE  IInv'
<1>1. PICK e \in [guid: Guid, at: Nat, ok: BOOLEAN] :
        history' = history \/ history' = Append(history, e)
  <2>1. CASE Attempt(g)
    <3>1. PICK ok \in BOOLEAN, gap \in Gaps :
            history' = Append(history, [guid |-> g, at |-> At(Len(history)) + gap, ok |-> ok])
      BY <2>1 DEF Attempt
    <3>2. At(Len(history)) \in Nat
      <4>1. history \in Attempts /\ Len(history) \in Nat
        BY DEF IInv, Shape, Attempts
      <4>2. Len(history) # 0 => Len(history) \in 1..Len(history)
        BY <4>1
      <4>3. Len(history) # 0 => history[Len(history)] \in [guid: Guid, at: Nat, ok: BOOLEAN]
        BY <4>1, <4>2, ElementIn DEF Attempts
      <4> QED
        BY <4>3 DEF At
    <3>3. [guid |-> g, at |-> At(Len(history)) + gap, ok |-> ok] \in [guid: Guid, at: Nat, ok: BOOLEAN]
      BY <3>2, ScanAssumption
    <3> QED
      BY <3>1, <3>3
  <2>2. CASE UNCHANGED history
    <3>1. [guid |-> g, at |-> 0, ok |-> TRUE] \in [guid: Guid, at: Nat, ok: BOOLEAN]
      OBVIOUS
    <3> QED
      BY <2>2, <3>1
  <2> QED
    BY <2>1, <2>2 DEF Deliver, Redeliver, ControllerSettles, CoolDown, github
<1>2. history' \in Attempts /\ \A h \in Guid : Delivered(h) => Delivered(h)'
  BY <1>1, HistoryGrows DEF IInv, Shape
<1>3. UNCHANGED <<scan, observed, run>> /\ RequestShape'
  BY DEF Deliver, Redeliver, ControllerSettles, CoolDown, Attempt, IInv, Shape, RequestShape
<1>4. Shape'
  BY <1>2, <1>3 DEF IInv, Shape, RunShape
<1>5. Truthful(observed)'
  BY <1>2, <1>3 DEF IInv, Truthful
<1>6. \A r \in Reconciler : Evidence(r)'
  BY <1>2, <1>3 DEF IInv, Evidence, Truthful
<1> QED
  BY <1>4, <1>5, <1>6 DEF IInv

\* The shape of a run, spelled out for one of them.
LEMMA RunFacts ==
  ASSUME IInv, NEW r \in Reconciler
  PROVE  /\ DOMAIN run[r] = {"at", "snap", "next", "high", "seen", "due", "ids", "todo", "target", "result"}
         /\ DOMAIN run[r] = DOMAIN Idle
         /\ run[r].snap \in Marks /\ run[r].next \in Nat /\ run[r].high \in Nat
         /\ Truthful(run[r].seen)
         /\ scan \in Marks /\ RequestShape /\ Truthful(Idle.seen) /\ Truthful(NoGroups)
         /\ run[r].at = "linked" => \A g \in run[r].todo : g \in Guid /\ Delivered(g)
BY IdleShape DEF IInv, Shape, RunShape, Evidence, Truthful

\* A run that starts, fails or ends is idle.
LEMMA FailStep ==
  ASSUME IInv, NEW r \in Reconciler, Fail(r), UNCHANGED history, scan' \in Marks,
         RequestShape',
         UNCHANGED observed \/ observed' = NoGroups
  PROVE  IInv'
<1>1. \/ UNCHANGED observed
      \/ \A g \in Guid : observed'[g].ok => Delivered(g)
  BY IdleShape
<1>2. Idle.at # "linked"
  BY IdleShape
<1>3. Truthful(Idle.seen)
  BY IdleShape DEF Truthful
<1> QED
  BY <1>1, <1>2, <1>3, IdleShape, RunStep DEF Fail

\* Every statement on the requests keeps their columns.
LEMMA RequestStep ==
  ASSUME RequestShape, NEW r \in Reconciler,
         \/ Merge(r) \/ QueueRedeliveries(r) \/ ClaimRequest(r) \/ MissRequest(r)
         \/ Mark(r) \/ Recover(r) \/ ExhaustExpiredRequests(r)
  PROVE  RequestShape' /\ \A g \in Guid : requests[g].status # "absent" => requests'[g].status # "absent"
<1> USE DEF RequestShape, Columns
<1>1. CASE Merge(r)
  <2>1. /\ DOMAIN requests' = Guid
        /\ \A g \in Guid : requests'[g] = requests[g] \/ \E id : requests'[g] = Requeued(requests[g], id)
    BY <1>1 DEF Merge
  <2>2. \A g \in Guid : \A id : LET q == Requeued(requests[g], id)
                            IN  DOMAIN q = Columns /\ q.status = "queued"
    BY DEF Requeued
  <2>3. ASSUME NEW g \in Guid
        PROVE  DOMAIN requests'[g] = Columns /\ (requests[g].status # "absent" => requests'[g].status # "absent")
    BY <2>1, <2>2
  <2> QED
    BY <2>1, <2>3
<1>2. CASE QueueRedeliveries(r)
  BY <1>2 DEF QueueRedeliveries, Queued, Requeued
<1>3. CASE ClaimRequest(r)
  <2>1. PICK g : requests' = requests \/ requests' = [requests EXCEPT ![g] = Requesting(g, run[r].ids[g])]
    BY <1>3 DEF ClaimRequest
  <2>2. LET q == Requesting(g, run[r].ids[g]) IN DOMAIN q = Columns /\ q.status # "absent"
    BY DEF Requesting
  <2> QED
    BY <2>1, <2>2
<1>4. CASE MissRequest(r)
  BY <1>4 DEF MissRequest
<1>5. ASSUME NEW g \in Guid, NEW result, NEW id,
             requests' = [requests EXCEPT ![g] = Settled(requests[g], result, id)]
      PROVE  RequestShape' /\ \A h \in Guid : requests[h].status # "absent" => requests'[h].status # "absent"
  <2> DEFINE q == Settled(requests[g], result, id)
  <2>1. DOMAIN q = Columns /\ q.status # "absent"
    BY DEF Settled, Accepted
  <2> HIDE DEF q
  <2> QED
    BY <1>5, <2>1 DEF q
<1>6. ASSUME UNCHANGED requests
      PROVE  RequestShape' /\ \A h \in Guid : requests[h].status # "absent" => requests'[h].status # "absent"
  BY <1>6
<1>7. CASE Mark(r) \/ Recover(r)
  BY <1>5, <1>6, <1>7 DEF Mark, Recover
<1>8. CASE ExhaustExpiredRequests(r)
  BY <1>8 DEF ExhaustExpiredRequests
<1> QED
  BY <1>1, <1>2, <1>3, <1>4, <1>7, <1>8

(* It is kept by the steps that only read: the scan, the history, the tables. *)
LEMMA ReadingStep ==
  ASSUME IInv, NEW r \in Reconciler,
         \/ ReadState(r) \/ Collect(r) \/ ReadObservations(r) \/ ReadDueReceipts(r)
         \/ ReadDueRequests(r) \/ CheckPending(r)
  PROVE  IInv'
<1> USE RunFacts
<1>1. UNCHANGED <<github, tables>>
  BY DEF ReadState, Collect, ReadObservations, ReadDueReceipts, ReadDueRequests, CheckPending
<1>2. UNCHANGED <<history, scan, observed, requests>> /\ RequestShape'
  BY <1>1 DEF github, tables, RequestShape
<1>3. CASE ReadState(r)
  <2> DEFINE new == [Idle EXCEPT !.at = "began", !.snap = scan]
  <2>1. /\ DOMAIN new = DOMAIN Idle /\ new.at = "began" /\ new.snap = scan
        /\ new.next = Idle.next /\ new.high = Idle.high /\ new.seen = Idle.seen
    BY IdleShape
  <2>2. run' = [run EXCEPT ![r] = new]
    BY <1>3 DEF ReadState, Step
  <2> HIDE DEF new
  <2> QED
    BY <1>2, <2>1, <2>2, IdleShape, RunStep
<1>4. CASE Collect(r)
  <2> DEFINE s == run[r].snap
             new == [run[r] EXCEPT !.at = "collected", !.seen = Groups(Segment(s)),
                       !.next = NextCursor(s), !.high = IF s.cursor # 0 THEN s.high ELSE First(s)]
  <2>1. /\ DOMAIN new = DOMAIN Idle /\ new.at = "collected" /\ new.snap = s
        /\ new.next = NextCursor(s) /\ new.seen = Groups(Segment(s))
        /\ new.high = IF s.cursor # 0 THEN s.high ELSE First(s)
    OBVIOUS
  <2>2. First(s) \in Nat /\ NextCursor(s) \in Nat /\ s.high \in Nat
    BY PositionsTyped DEF IInv, Marks
  <2>3. run' = [run EXCEPT ![r] = new]
    BY <1>4 DEF Collect, Step
  <2>4. Truthful(new.seen)
    BY <2>1, GroupsTruthful
  <2>5. new.snap \in Marks /\ new.next \in Nat /\ new.high \in Nat
    BY <2>1, <2>2
  <2> HIDE DEF new
  <2> QED
    BY <1>2, <2>1, <2>3, <2>4, <2>5, RunStep
<1>5. CASE ReadObservations(r)
  <2> DEFINE new == [run[r] EXCEPT !.at = "grouped",
                       !.seen = IF run[r].next # 0 THEN NoGroups ELSE observed]
  <2>1. /\ DOMAIN new = DOMAIN Idle /\ new.at = "grouped" /\ new.snap = run[r].snap
        /\ new.next = run[r].next /\ new.high = run[r].high
        /\ new.seen = NoGroups \/ new.seen = observed
    OBVIOUS
  <2>2. run' = [run EXCEPT ![r] = new]
    BY <1>5 DEF ReadObservations, Step
  <2>3. Truthful(new.seen)
    BY <2>1 DEF IInv
  <2> HIDE DEF new
  <2> QED
    BY <1>2, <2>1, <2>2, <2>3, RunStep
<1>6. CASE ReadDueReceipts(r)
  <2>1. PICK due : run' = [run EXCEPT ![r] = [run[r] EXCEPT !.at = "due", !.due = due,
              !.ids = [g \in Guid |-> IF g \in due THEN receipt[g].link ELSE 0]]]
    BY <1>6 DEF ReadDueReceipts, Step
  <2> DEFINE new == [run[r] EXCEPT !.at = "due", !.due = due,
                       !.ids = [g \in Guid |-> IF g \in due THEN receipt[g].link ELSE 0]]
  <2>2. /\ DOMAIN new = DOMAIN Idle /\ new.at = "due" /\ new.snap = run[r].snap
        /\ new.next = run[r].next /\ new.high = run[r].high /\ new.seen = run[r].seen
    OBVIOUS
  <2> HIDE DEF new
  <2> QED
    BY <1>2, <2>1, <2>2, RunStep DEF new
<1>7. CASE ReadDueRequests(r)
  <2> DEFINE new == [run[r] EXCEPT !.at = "requesting", !.todo = Due(run[r].next = 0),
              !.ids = [g \in Guid |-> IF g \in Due(run[r].next = 0) THEN requests[g].id ELSE 0]]
  <2>1. /\ DOMAIN new = DOMAIN Idle /\ new.at = "requesting" /\ new.snap = run[r].snap
        /\ new.next = run[r].next /\ new.high = run[r].high /\ new.seen = run[r].seen
    OBVIOUS
  <2>2. run' = [run EXCEPT ![r] = new]
    BY <1>7 DEF ReadDueRequests, Step
  <2> HIDE DEF new
  <2> QED
    BY <1>2, <2>1, <2>2, RunStep
<1>8. CASE CheckPending(r)
  <2>1. CASE Fail(r)
    BY <1>2, <2>1, FailStep
  <2>2. ASSUME NEW stage \in {"saving", "advancing"}, run' = [run EXCEPT ![r] = [run[r] EXCEPT !.at = stage]]
        PROVE  IInv'
    <3> DEFINE new == [run[r] EXCEPT !.at = stage]
    <3>1. /\ DOMAIN new = DOMAIN Idle /\ new.at = stage /\ new.snap = run[r].snap
          /\ new.next = run[r].next /\ new.high = run[r].high /\ new.seen = run[r].seen
      OBVIOUS
    <3>2. run' = [run EXCEPT ![r] = new]
      BY <2>2
    <3> HIDE DEF new
    <3> QED
      BY <1>2, <2>2, <3>1, <3>2, RunStep
  <2> QED
    BY <1>8, <2>1, <2>2 DEF CheckPending, Step, Fail
<1> QED
  BY <1>3, <1>4, <1>5, <1>6, <1>7, <1>8

\* A step of r that changes at most its position, its work list and its
\* target, and neither history nor observations.
LEMMA WorkStep ==
  ASSUME IInv, NEW r \in Reconciler, NEW new,
         run' = [run EXCEPT ![r] = new], UNCHANGED <<history, observed>>,
         scan' \in Marks, RequestShape',
         DOMAIN new = DOMAIN Idle, new.snap = run[r].snap, new.next = run[r].next,
         new.high = run[r].high, new.seen = run[r].seen \/ new.seen = NoGroups,
         new.at = "linked" => \A g \in new.todo : g \in Guid /\ Delivered(g)
  PROVE  IInv'
BY RunFacts, RunStep

(* It is kept when a page of the history is merged into the observations. *)
LEMMA MergeStep ==
  ASSUME IInv, NEW r \in Reconciler, Merge(r)
  PROVE  IInv'
<1> USE RunFacts
<1> DEFINE new == [run[r] EXCEPT !.at = "merged"]
           seen == run[r].seen
           merged == [g \in Guid |-> Merged(observed[g], seen[g], g)]
<1>1. /\ DOMAIN new = DOMAIN Idle /\ new.at = "merged" /\ new.snap = run[r].snap
      /\ new.next = run[r].next /\ new.high = run[r].high /\ new.seen = seen
  OBVIOUS
<1>2. UNCHANGED <<history, scan>> /\ RequestShape'
  BY RequestStep DEF Merge, github
<1>3. \A g \in Guid : merged[g].ok => Delivered(g)
  BY DEF IInv, Truthful, Merged
<1>4. CASE Fail(r) /\ UNCHANGED observed
  BY <1>2, <1>4, FailStep
<1>5. CASE run' = [run EXCEPT ![r] = new] /\ (UNCHANGED observed \/ observed' = merged)
  <2> HIDE DEF new, merged
  <2> QED
    BY <1>1, <1>2, <1>3, <1>5, RunStep
<1> QED
  BY <1>4, <1>5 DEF Merge, Step

(* It is kept when the observations of a receipt are linked to it. *)
LEMMA LinkStep ==
  ASSUME IInv, NEW r \in Reconciler, Link(r)
  PROVE  IInv'
<1> USE RunFacts
<1> DEFINE seen == run[r].seen
           todo == {g \in Guid : seen[g].id # 0 /\ seen[g].ok /\ g \notin run[r].due}
           new == [run[r] EXCEPT !.at = "linked", !.todo = todo]
<1>1. /\ DOMAIN new = DOMAIN Idle /\ new.at = "linked" /\ new.snap = run[r].snap
      /\ new.next = run[r].next /\ new.high = run[r].high /\ new.seen = seen /\ new.todo = todo
  OBVIOUS
<1>2. \A g \in todo : g \in Guid /\ Delivered(g)
  BY DEF Truthful
<1>3. /\ UNCHANGED <<history, scan, observed, requests>> /\ RequestShape'
      /\ run' = [run EXCEPT ![r] = new]
  BY DEF Link, Step, github, RequestShape
<1> HIDE DEF new, todo
<1> QED
  BY <1>1, <1>2, <1>3, WorkStep

(* It is kept by the steps on the redelivery requests. *)
LEMMA QueueSteps ==
  ASSUME IInv, NEW r \in Reconciler,
         \/ CompleteRedelivery(r) \/ QueueRedeliveries(r) \/ ClaimRequest(r) \/ MissRequest(r)
         \/ Post(r) \/ Mark(r) \/ Recover(r) \/ ExhaustExpiredRequests(r)
  PROVE  IInv'
<1> USE RunFacts
<1>1. UNCHANGED <<history, scan, observed>>
  BY DEF CompleteRedelivery, QueueRedeliveries, ClaimRequest, MissRequest, Post, Mark, Recover,
         ExhaustExpiredRequests, github, tables
<1>0. RequestShape'
  <2>1. CASE CompleteRedelivery(r)
    BY <2>1 DEF CompleteRedelivery, RequestShape, NoRequest, Columns
  <2>2. CASE Post(r)
    BY <2>2 DEF Post, tables, RequestShape
  <2> QED
    BY <2>1, <2>2, RequestStep
<1>2. CASE Fail(r)
  BY <1>0, <1>1, <1>2, FailStep
<1>3. CASE CompleteRedelivery(r)
  <2>1. PICK g \in run[r].todo :
          run[r].at = "linked" /\ run' = [run EXCEPT ![r] = [run[r] EXCEPT !.todo = run[r].todo \ {g}]]
    BY <1>3 DEF CompleteRedelivery, Step
  <2> DEFINE new == [run[r] EXCEPT !.todo = run[r].todo \ {g}]
  <2>2. /\ DOMAIN new = DOMAIN Idle /\ new.snap = run[r].snap /\ new.next = run[r].next
        /\ new.high = run[r].high /\ new.seen = run[r].seen /\ new.todo = run[r].todo \ {g}
    OBVIOUS
  <2>3. \A h \in new.todo : h \in Guid /\ Delivered(h)
    BY <2>1, <2>2
  <2>4. run' = [run EXCEPT ![r] = new]
    BY <2>1
  <2> HIDE DEF new
  <2> QED
    BY <1>1, <2>2, <2>3, <2>4, <1>0, WorkStep
<1>4. CASE QueueRedeliveries(r)
  <2> DEFINE new == [run[r] EXCEPT !.at = "queued", !.seen = NoGroups, !.due = {}, !.ids = NoIds]
  <2>1. /\ DOMAIN new = DOMAIN Idle /\ new.at = "queued" /\ new.snap = run[r].snap
        /\ new.next = run[r].next /\ new.high = run[r].high /\ new.seen = NoGroups
    OBVIOUS
  <2>2. run' = [run EXCEPT ![r] = new]
    BY <1>4 DEF QueueRedeliveries, Step
  <2> HIDE DEF new
  <2> QED
    BY <1>1, <2>1, <2>2, <1>0, WorkStep
<1>5. ASSUME NEW stage \in {"posting", "missed"}, NEW g \in run[r].todo,
             run' = [run EXCEPT ![r] = [run[r] EXCEPT !.at = stage, !.target = g, !.todo = run[r].todo \ {g}]]
      PROVE  IInv'
  <2> DEFINE new == [run[r] EXCEPT !.at = stage, !.target = g, !.todo = run[r].todo \ {g}]
  <2>1. /\ DOMAIN new = DOMAIN Idle /\ new.at = stage /\ new.snap = run[r].snap
        /\ new.next = run[r].next /\ new.high = run[r].high /\ new.seen = run[r].seen
    OBVIOUS
  <2>2. run' = [run EXCEPT ![r] = new]
    BY <1>5
  <2> HIDE DEF new
  <2> QED
    BY <1>1, <1>5, <2>1, <2>2, <1>0, WorkStep
<1>6. CASE ClaimRequest(r)
  BY <1>5, <1>6 DEF ClaimRequest, Step
<1>7. ASSUME NEW stage \in {"requesting", "marking", "recovering"}, NEW target, NEW result,
             run' = [run EXCEPT ![r] = [run[r] EXCEPT !.at = stage, !.target = target, !.result = result]]
      PROVE  IInv'
  <2> DEFINE new == [run[r] EXCEPT !.at = stage, !.target = target, !.result = result]
  <2>1. /\ DOMAIN new = DOMAIN Idle /\ new.at = stage /\ new.snap = run[r].snap
        /\ new.next = run[r].next /\ new.high = run[r].high /\ new.seen = run[r].seen
    OBVIOUS
  <2>2. run' = [run EXCEPT ![r] = new]
    BY <1>7
  <2> HIDE DEF new
  <2> QED
    BY <1>1, <1>7, <2>1, <2>2, <1>0, WorkStep
<1>8. CASE MissRequest(r) \/ Post(r) \/ Mark(r) \/ Recover(r)
  <2>1. CASE MissRequest(r)
    <3>1. run' = [run EXCEPT ![r] = [run[r] EXCEPT !.at = "requesting", !.target = NoGuid]] \/ Fail(r)
      BY <2>1 DEF MissRequest, Step
    <3>2. [run[r] EXCEPT !.at = "requesting", !.target = NoGuid]
            = [run[r] EXCEPT !.at = "requesting", !.target = NoGuid, !.result = run[r].result]
      OBVIOUS
    <3>3. CASE run' = [run EXCEPT ![r] = [run[r] EXCEPT !.at = "requesting", !.target = NoGuid]]
      <4>1. run' = [run EXCEPT ![r] = [run[r] EXCEPT !.at = "requesting", !.target = NoGuid, !.result = run[r].result]]
        BY <3>2, <3>3
      <4> QED
        BY <1>7, <4>1
    <3> QED
      BY <1>2, <3>1, <3>3
  <2>2. CASE Post(r)
    <3>1. PICK v : run' = [run EXCEPT ![r] = [run[r] EXCEPT !.at = "marking", !.result = v]]
      BY <2>2 DEF Post, Step
    <3>2. [run[r] EXCEPT !.at = "marking", !.result = v]
            = [run[r] EXCEPT !.at = "marking", !.target = run[r].target, !.result = v]
      OBVIOUS
    <3>3. run' = [run EXCEPT ![r] = [run[r] EXCEPT !.at = "marking", !.target = run[r].target, !.result = v]]
      BY <3>1, <3>2
    <3> QED
      BY <1>7, <3>3
  <2>3. CASE Mark(r)
    <3>1. \/ run' = [run EXCEPT ![r] = [run[r] EXCEPT !.at = "recovering"]]
          \/ run' = [run EXCEPT ![r] = [run[r] EXCEPT !.at = "requesting", !.target = NoGuid, !.result = "none"]]
          \/ Fail(r)
      BY <2>3 DEF Mark, Step
    <3>2. [run[r] EXCEPT !.at = "recovering"]
            = [run[r] EXCEPT !.at = "recovering", !.target = run[r].target, !.result = run[r].result]
      OBVIOUS
    <3>3. CASE run' = [run EXCEPT ![r] = [run[r] EXCEPT !.at = "recovering"]]
      <4>1. run' = [run EXCEPT ![r] = [run[r] EXCEPT !.at = "recovering", !.target = run[r].target,
                                                     !.result = run[r].result]]
        BY <3>2, <3>3
      <4> QED
        BY <1>7, <4>1
    <3>4. CASE run' = [run EXCEPT ![r] = [run[r] EXCEPT !.at = "requesting", !.target = NoGuid, !.result = "none"]]
      BY <1>7, <3>4
    <3> QED
      BY <1>2, <3>1, <3>3, <3>4
  <2>4. CASE Recover(r)
    BY <1>2, <2>4 DEF Recover
  <2> QED
    BY <1>8, <2>1, <2>2, <2>3, <2>4
<1>9. CASE ExhaustExpiredRequests(r)
  <2> DEFINE new == [run[r] EXCEPT !.at = "exhausted", !.ids = NoIds]
  <2>1. /\ DOMAIN new = DOMAIN Idle /\ new.at = "exhausted" /\ new.snap = run[r].snap
        /\ new.next = run[r].next /\ new.high = run[r].high /\ new.seen = run[r].seen
    OBVIOUS
  <2>2. run' = [run EXCEPT ![r] = new]
    BY <1>9 DEF ExhaustExpiredRequests, Step
  <2> HIDE DEF new
  <2> QED
    BY <1>1, <2>1, <2>2, <1>0, WorkStep
<1> QED
  BY <1>3, <1>4, <1>6, <1>8, <1>9

(* It is kept when a run ends with a saved cursor or an advanced checkpoint, and neither moves back. *)
LEMMA SaveStep ==
  ASSUME IInv, NEW r \in Reconciler, SaveScan(r) \/ AdvanceCheckpoint(r)
  PROVE  IInv' /\ scan'.checkpoint \in Nat /\ scan.checkpoint \in Nat
               /\ scan'.checkpoint >= scan.checkpoint
<1> USE RunFacts
<1>1. UNCHANGED history /\ RequestShape' /\ Fail(r) /\ (UNCHANGED observed \/ observed' = NoGroups)
  BY DEF SaveScan, AdvanceCheckpoint, Step, Fail, github, RequestShape
<1>2. \/ scan' = scan
      \/ scan' = [scan EXCEPT !.cursor = run[r].next, !.high = run[r].high]
      \/ scan' = [NoScan EXCEPT !.checkpoint =
                    IF scan.checkpoint <= run[r].high THEN run[r].high ELSE scan.checkpoint]
  BY DEF SaveScan, AdvanceCheckpoint
<1>3. scan.checkpoint \in Nat /\ NoScan = [checkpoint |-> 0, cursor |-> 0, high |-> 0]
  BY DEF Marks, NoScan
<1>4. CASE scan' = scan \/ scan' = [scan EXCEPT !.cursor = run[r].next, !.high = run[r].high]
  <2>1. scan' \in Marks /\ scan'.checkpoint = scan.checkpoint
    BY <1>4 DEF Marks
  <2> QED
    BY <1>1, <1>3, <2>1, FailStep
<1>5. CASE scan' = [NoScan EXCEPT !.checkpoint =
                      IF scan.checkpoint <= run[r].high THEN run[r].high ELSE scan.checkpoint]
  <2> DEFINE c == IF scan.checkpoint <= run[r].high THEN run[r].high ELSE scan.checkpoint
  <2>1. c \in Nat /\ c >= scan.checkpoint
    BY <1>3
  <2> HIDE DEF c
  <2>2. scan' = [checkpoint |-> c, cursor |-> 0, high |-> 0]
    BY <1>3, <1>5 DEF c
  <2>3. scan' \in Marks /\ scan'.checkpoint = c
    BY <2>1, <2>2 DEF Marks
  <2> QED
    BY <1>1, <1>3, <2>1, <2>3, FailStep
<1> QED
  BY <1>2, <1>4, <1>5

(* It is kept when a reconciler stops. *)
LEMMA CrashStep == ASSUME IInv, NEW r \in Reconciler, Crash(r) PROVE IInv'
BY RunFacts, FailStep DEF Crash, github, tables, RequestShape

(* It is kept by a stuttering step. *)
LEMMA StutterStep == ASSUME IInv, UNCHANGED vars PROVE IInv'
BY DEF vars, IInv, Shape, RequestShape, RunShape, Truthful, Evidence, Delivered, AttemptsOf

(* The invariant holds in every reachable state. *)
LEMMA Invariance == Spec => []IInv
<1>1. ASSUME IInv, [Next]_vars PROVE IInv'
  <2>1. ASSUME NEW r \in Reconciler, Advance(r) PROVE IInv'
    BY <1>1, <2>1, ReadingStep, MergeStep, LinkStep, QueueSteps, SaveStep DEF Advance
  <2> QED
    BY <1>1, <2>1, EnvironmentStep, CrashStep, StutterStep DEF Next
<1> QED
  BY <1>1, InitInvariant, PTL DEF Spec

-----------------------------------------------------------------------------
\* However many runs overlap, crash or fail, no step moves the checkpoint of
\* the history scan back.
THEOREM CheckpointNeverReopened == Spec => CheckpointMonotone
<1>1. ASSUME IInv, [Next]_vars PROVE [scan'.checkpoint >= scan.checkpoint]_vars
  <2>1. scan.checkpoint \in Nat
    BY <1>1 DEF IInv, Shape, Marks
  <2>2. CASE UNCHANGED scan
    BY <2>1, <2>2
  <2>3. ASSUME NEW r \in Reconciler, SaveScan(r) \/ AdvanceCheckpoint(r)
        PROVE  scan'.checkpoint >= scan.checkpoint
    BY <1>1, <2>3, SaveStep
  <2>4. \/ UNCHANGED scan
        \/ \E r \in Reconciler : SaveScan(r) \/ AdvanceCheckpoint(r)
    <3>1. ASSUME NEW r \in Reconciler, Advance(r), ~SaveScan(r), ~AdvanceCheckpoint(r)
          PROVE  UNCHANGED scan
      BY <3>1 DEF Advance, ReadState, Collect, Merge, ReadObservations, ReadDueReceipts, Link,
           CompleteRedelivery, QueueRedeliveries, ReadDueRequests, ClaimRequest, MissRequest,
           Post, Mark, Recover, ExhaustExpiredRequests, CheckPending, tables
    <3>2. ASSUME NEW g \in Guid, Deliver(g) \/ Redeliver(g) \/ ControllerSettles(g) \/ CoolDown(g)
          PROVE  UNCHANGED scan
      BY <3>2 DEF Deliver, Redeliver, Attempt, ControllerSettles, CoolDown
    <3>3. ASSUME NEW r \in Reconciler, Crash(r) PROVE UNCHANGED scan
      BY <3>3 DEF Crash, tables
    <3> QED
      BY <1>1, <3>1, <3>2, <3>3 DEF Next, vars
  <2> QED
    BY <2>2, <2>3, <2>4
<1> QED
  BY <1>1, Invariance, PTL DEF Spec, CheckpointMonotone

\* However many runs overlap, crash or fail, and however stale what they read,
\* a request is only removed for a delivery whose success GitHub recorded.
THEOREM RequestsKept == Spec => RequestKept
<1> DEFINE Kept == \A g \in Guid :
             requests[g].status # "absent" /\ requests'[g].status = "absent" => Delivered(g)
<1>1. ASSUME IInv, [Next]_vars PROVE [Kept]_vars
  <2>1. CASE UNCHANGED requests
    BY <2>1
  <2>2. ASSUME NEW r \in Reconciler, CompleteRedelivery(r) PROVE Kept
    <3>1. PICK g \in run[r].todo : run[r].at = "linked" /\ requests' = [requests EXCEPT ![g] = NoRequest]
      BY <2>2 DEF CompleteRedelivery, Step
    <3>2. Delivered(g)
      BY <1>1, <3>1, RunFacts
    <3> QED
      BY <3>1, <3>2
  <2>3. ASSUME NEW r \in Reconciler,
               \/ Merge(r) \/ QueueRedeliveries(r) \/ ClaimRequest(r) \/ MissRequest(r)
               \/ Mark(r) \/ Recover(r) \/ ExhaustExpiredRequests(r)
        PROVE  \A g \in Guid : requests[g].status # "absent" => requests'[g].status # "absent"
    BY <1>1, <2>3, RequestStep DEF IInv, Shape
  <2>4. ASSUME NEW g \in Guid, CoolDown(g)
        PROVE  \A h \in Guid : requests[h].status # "absent" => requests'[h].status # "absent"
    BY <1>1, <2>4 DEF CoolDown, IInv, Shape, RequestShape, Columns
  <2>5. \/ UNCHANGED requests
        \/ \E g \in Guid : CoolDown(g)
        \/ \E r \in Reconciler :
             \/ Merge(r) \/ QueueRedeliveries(r) \/ ClaimRequest(r) \/ MissRequest(r)
             \/ Mark(r) \/ Recover(r) \/ ExhaustExpiredRequests(r) \/ CompleteRedelivery(r)
    <3>1. ASSUME NEW r \in Reconciler,
                 \/ ReadState(r) \/ Collect(r) \/ ReadObservations(r) \/ ReadDueReceipts(r) \/ Link(r)
                 \/ ReadDueRequests(r) \/ Post(r) \/ CheckPending(r) \/ SaveScan(r)
                 \/ AdvanceCheckpoint(r) \/ Crash(r)
          PROVE  UNCHANGED requests
      BY <3>1 DEF ReadState, Collect, ReadObservations, ReadDueReceipts, Link, ReadDueRequests,
           Post, CheckPending, SaveScan, AdvanceCheckpoint, Crash, tables
    <3>2. ASSUME NEW g \in Guid, Deliver(g) \/ Redeliver(g) \/ ControllerSettles(g)
          PROVE  UNCHANGED requests
      BY <3>2 DEF Deliver, Redeliver, Attempt, ControllerSettles
    <3> QED
      BY <1>1, <3>1, <3>2 DEF Next, Advance, vars
  <2> QED
    BY <2>1, <2>2, <2>3, <2>4, <2>5
<1> QED
  BY <1>1, Invariance, PTL DEF Spec, RequestKept
-----------------------------------------------------------------------------
(***************************************************************************)
(* The types of the tables and of what a run carries, for the theorem on   *)
(* TypeOK and as the ground of the account of open positions below.        *)
(***************************************************************************)
Stage == {"idle", "began", "collected", "merged", "grouped", "due", "linked", "queued",
          "requesting", "posting", "missed", "marking", "recovering", "exhausted", "saving",
          "advancing"}

RunType == [at: Stage, snap: ScanType, next: Id, high: Id, seen: [Guid -> Group],
            due: SUBSET Guid, ids: [Guid -> Id], todo: SUBSET Guid,
            target: Guid \union {NoGuid},
            result: {"none", "accepted", "rejected", "limited", "unknown"}]
RequestType == [status: {"absent", "queued", "requesting", "accepted", "exhausted"},
                id: Id, attempts: 0..MaxRequests, cooled: BOOLEAN]
ReceiptType == [stage: {"absent", "open", "settled"}, link: Id]

\* A cursor comes with its high-water mark, in the table and in a run.
Paired(s) == s.cursor = 0 <=> s.high = 0

HistoryTyped == history \in Attempts /\ Len(history) <= MaxHistory /\ asked \in [Guid -> 0..MaxAsked]
\* A request that is not there has spent nothing.
RequestsTyped ==
  /\ requests \in [Guid -> RequestType]
  /\ \A g \in Guid : requests[g].status = "absent" => requests[g].attempts = 0
TablesTyped ==
  /\ scan \in ScanType /\ Paired(scan) /\ observed \in [Guid -> Group]
  /\ RequestsTyped /\ receipt \in [Guid -> ReceiptType]

RunMarks(new) ==
  /\ Paired(new.snap) /\ (new.next # 0 => new.high # 0)
  /\ new.at = "saving" => new.next # 0
  /\ new.at = "advancing" => new.next = 0
RunsTyped ==
  /\ run \in [Reconciler -> RunType]
  /\ \A r \in Reconciler : RunMarks(run[r])

Typed == HistoryTyped /\ TablesTyped /\ RunsTyped

(* The bounds as numbers. *)
LEMMA Numbers ==
  /\ Id \subseteq Nat /\ 0 \in Id
  /\ MaxHistory \in Nat /\ MaxAsked \in Nat /\ MaxRequests \in Nat /\ MaxRequests > 0
  /\ PageSize \in Nat /\ PageSize > 0 /\ MaxPages \in Nat /\ MaxPages > 0 /\ Overlap \in Nat
  /\ NoGuid \notin Guid
BY ScanAssumption DEF Id

\* A set of positions that is not empty has a newest one.  (The induction is
\* that of the well-founded order of the naturals.)
LEMMA NewestIn ==
  ASSUME NEW n \in Nat, NEW S \in SUBSET (1..n), S # {}
  PROVE  Newest(S) \in S /\ \A j \in S : j <= Newest(S)
<1> DEFINE R == {ss \in Nat \X Nat : ss[1] < ss[2]}
           T == {n - i : i \in S}
<1>1. T \subseteq Nat /\ T # {}
  <2>1. \A i \in S : n - i \in Nat
    OBVIOUS
  <2>2. PICK i \in S : TRUE
    OBVIOUS
  <2> QED
    BY <2>1, <2>2
<1>2. PICK x \in T : \A y \in T : ~(<<y, x>> \in R)
  <2>1. IsWellFoundedOn(R, Nat)
    BY NatLessThanWellFounded, Zenon DEF OpToRel
  <2> HIDE DEF R, T
  <2> QED
    BY <1>1, <2>1, WFMin
<1>3. PICK i \in S : x = n - i
  OBVIOUS
<1>4. \A j \in S : j <= i
  <2> TAKE j \in S
  <2>1. n - j \in T /\ n - j \in Nat /\ n - i \in Nat
    BY <1>1
  <2>2. ~(<<n - j, n - i>> \in R)
    BY <1>2, <1>3, <2>1
  <2>3. ~(n - j < n - i)
    BY <2>1, <2>2
  <2> QED
    BY <2>3
<1> QED
  BY <1>4 DEF Newest

\* The groups made of positions name attempts, and none that was made is left out.
LEMMA GroupsTyped ==
  ASSUME HistoryTyped, NEW S
  PROVE  /\ Groups(S) \in [Guid -> Group]
         /\ \A i \in S \intersect (1..Len(history)) : Groups(S)[history[i].guid].id # 0
<1>1. Len(history) \in Nat /\ history \in Attempts /\ Len(history) <= MaxHistory
  BY DEF HistoryTyped, Attempts
<1>2. ASSUME NEW g \in Guid, S \cap AttemptsOf(g) # {}
      PROVE  Newest(S \cap AttemptsOf(g)) \in 1..Len(history)
  <2>1. S \cap AttemptsOf(g) \in SUBSET (1..Len(history))
    BY DEF AttemptsOf
  <2> QED
    BY <1>1, <1>2, <2>1, NewestIn
<1>3. ASSUME NEW g \in Guid
      PROVE  Groups(S)[g] \in Group /\ (S \cap AttemptsOf(g) # {} => Groups(S)[g].id # 0)
  <2> DEFINE mine == S \cap AttemptsOf(g)
  <2>1. CASE mine = {}
    <3>1. Groups(S)[g] = NoGroup
      BY <2>1 DEF Groups
    <3> QED
      BY <2>1, <3>1, Numbers DEF NoGroup, Group
  <2>2. CASE mine # {}
    <3>1. Groups(S)[g] = [id |-> Newest(mine), ok |-> \E i \in mine : history[i].ok]
      BY <2>2 DEF Groups
    <3>2. Newest(mine) \in 1..Len(history)
      BY <1>2, <2>2
    <3>3. Newest(mine) \in Id /\ Newest(mine) # 0
      BY <1>1, <3>2, Numbers DEF Id
    <3> HIDE DEF mine
    <3>4. (\E i \in mine : history[i].ok) \in BOOLEAN
      OBVIOUS
    <3> QED
      BY <3>1, <3>3, <3>4 DEF Group
  <2> QED
    BY <2>1, <2>2
<1>4. Groups(S) \in [Guid -> Group]
  BY <1>3 DEF Groups
<1>5. ASSUME NEW i \in S \intersect (1..Len(history)) PROVE Groups(S)[history[i].guid].id # 0
  <2>1. history[i].guid \in Guid
    <3>1. history[i] \in [guid: Guid, at: Nat, ok: BOOLEAN]
      BY <1>1, ElementIn DEF Attempts
    <3> QED
      BY <3>1
  <2>2. i \in S \cap AttemptsOf(history[i].guid)
    BY DEF AttemptsOf
  <2> QED
    BY <1>3, <2>1, <2>2
<1> QED
  BY <1>4, <1>5

\* Where a run reads from and where it leaves the cursor are positions.
LEMMA MarksTyped ==
  ASSUME HistoryTyped, NEW s \in ScanType, Paired(s)
  PROVE  /\ First(s) \in Id /\ NextCursor(s) \in Id
         /\ NextCursor(s) # 0 => First(s) # 0
         /\ NextCursor(s) <= First(s)
<1>1. MaxPages * PageSize \in Nat
  BY Numbers, SMT
<1>2. First(s) \in Id
  BY Numbers DEF First, HistoryTyped, Attempts, ScanType, Id
<1> DEFINE beyond == First(s) - MaxPages * PageSize
<1>3. First(s) \in 0..MaxHistory
  BY <1>2 DEF Id
<1>4. beyond >= 1 => beyond \in Id /\ First(s) # 0 /\ beyond <= First(s)
  BY <1>1, <1>3, Numbers DEF Id
<1> QED
  BY <1>2, <1>3, <1>4, Numbers DEF NextCursor

\* What the statements make of a request.
LEMMA RequestTyped ==
  ASSUME RequestsTyped, NEW g \in Guid, NEW id \in Id
  PROVE  /\ Queued(g, id) \in RequestType /\ Queued(g, id).status # "absent"
         /\ Requeued(requests[g], id) \in RequestType /\ Requeued(requests[g], id).status # "absent"
         /\ Takeable(g) =>
              Requesting(g, id) \in RequestType /\ Requesting(g, id).status # "absent"
         /\ \A result : Settled(requests[g], result, id) \in RequestType
                          /\ Settled(requests[g], result, id).status # "absent"
<1>1. requests[g] \in RequestType
  BY DEF RequestsTyped
<1>2. /\ Requeued(requests[g], id) \in RequestType
      /\ Requeued(requests[g], id).status = "queued"
  BY <1>1 DEF Requeued, RequestType
<1>3. Queued(g, id) \in RequestType /\ Queued(g, id).status # "absent"
  <2>1. [status |-> "queued", id |-> id, attempts |-> 0, cooled |-> TRUE] \in RequestType
    BY Numbers DEF RequestType
  <2>2. requests[g].status = "queued" =>
          /\ [requests[g] EXCEPT !.id = id] \in RequestType
          /\ [requests[g] EXCEPT !.id = id].status = "queued"
    BY <1>1 DEF RequestType
  <2> QED
    BY <1>1, <1>2, <2>1, <2>2 DEF Queued
<1>4. ASSUME Takeable(g) PROVE Requesting(g, id) \in RequestType /\ Requesting(g, id).status # "absent"
  <2>1. requests[g].attempts \in 0..MaxRequests /\ requests[g].attempts < MaxRequests
    BY <1>1, <1>4, Numbers DEF Takeable, RequestsTyped, RequestType
  <2>2. requests[g].attempts + 1 \in 0..MaxRequests
    BY <2>1, Numbers
  <2> QED
    BY <2>2 DEF Requesting, RequestType
<1>5. ASSUME NEW result
      PROVE  Settled(requests[g], result, id) \in RequestType
               /\ Settled(requests[g], result, id).status # "absent"
  <2> DEFINE q == requests[g]
  <2>1. CASE result = "accepted"
    BY <1>1, <2>1 DEF Settled, Accepted, RequestType
  <2>2. CASE result = "rejected"
    BY <1>1, <2>2 DEF Settled, RequestType
  <2>3. CASE result # "accepted" /\ result # "rejected"
    BY <1>1, <2>3 DEF Settled, RequestType
  <2> QED
    BY <2>1, <2>2, <2>3
<1> QED
  BY <1>2, <1>3, <1>4, <1>5

\* A request statement on one row keeps the table typed.
LEMMA RowTyped ==
  ASSUME RequestsTyped, NEW g, NEW q, g \in Guid => q \in RequestType /\ q.status # "absent",
         requests' = [requests EXCEPT ![g] = q]
  PROVE  RequestsTyped'
BY DEF RequestsTyped

\* A run that moves keeps the runs typed.
LEMMA MoveTyped ==
  ASSUME RunsTyped, NEW r \in Reconciler, NEW new \in RunType, RunMarks(new),
         run' = [run EXCEPT ![r] = new]
  PROVE  RunsTyped'
<1>1. run' \in [Reconciler -> RunType]
  BY DEF RunsTyped
<1>2. ASSUME NEW q \in Reconciler PROVE RunMarks(run'[q])
  <2>1. run'[q] = new \/ run'[q] = run[q]
    BY DEF RunsTyped
  <2> QED
    BY <2>1 DEF RunsTyped
<1> QED
  BY <1>1, <1>2 DEF RunsTyped, RunMarks

\* The idle run, and the groups, ids and rows that stand for nothing.
LEMMA NothingTyped ==
  /\ NoScan \in ScanType /\ Paired(NoScan) /\ NoGroups \in [Guid -> Group] /\ NoIds \in [Guid -> Id]
  /\ NoRequest \in RequestType /\ NoRequest.status = "absent" /\ NoRequest.attempts = 0
  /\ Idle \in RunType /\ RunMarks(Idle) /\ Idle.at = "idle"
<1>1. NoScan \in ScanType /\ Paired(NoScan) /\ NoIds \in [Guid -> Id]
  BY Numbers DEF NoScan, ScanType, Paired, NoIds
<1>2. NoGroups \in [Guid -> Group]
  BY Numbers DEF NoGroups, NoGroup, Group
<1>3. NoRequest \in RequestType /\ NoRequest.status = "absent" /\ NoRequest.attempts = 0
  BY Numbers DEF NoRequest, RequestType
<1>4. Idle \in RunType /\ Idle.snap = NoScan /\ Idle.next = 0 /\ Idle.at = "idle"
  BY <1>1, <1>2, Numbers DEF Idle, RunType, Stage
<1> QED
  BY <1>1, <1>2, <1>3, <1>4 DEF RunMarks

(* GitHub, the controller and time keep the types. *)
LEMMA EnvironmentTyped ==
  ASSUME IInv', Typed, NEW g \in Guid,
         Deliver(g) \/ Redeliver(g) \/ ControllerSettles(g) \/ CoolDown(g)
  PROVE  Typed'
<1> USE DEF Typed
<1>1. history' \in Attempts /\ Len(history') <= MaxHistory
  <2>1. history' \in Attempts
    BY DEF IInv, Shape
  <2>2. CASE Attempt(g)
    <3>1. history \in Attempts /\ Len(history) < MaxHistory /\ Len(history) \in Nat
      BY <2>2 DEF Attempt, HistoryTyped, Attempts
    <3>2. PICK e : history' = Append(history, e)
      BY <2>2 DEF Attempt
    <3>3. Len(history') = Len(history) + 1
      BY <3>1, <3>2 DEF Attempts
    <3> QED
      BY <2>1, <3>1, <3>3, Numbers
  <2>3. CASE UNCHANGED history
    BY <2>3 DEF HistoryTyped
  <2> QED
    BY <2>2, <2>3 DEF Deliver, Redeliver, ControllerSettles, CoolDown, github
<1>2. asked' \in [Guid -> 0..MaxAsked]
  <2>1. CASE Redeliver(g)
    <3>1. asked[g] - 1 \in 0..MaxAsked
      BY <2>1, Numbers DEF Redeliver, HistoryTyped
    <3> QED
      BY <2>1, <3>1 DEF Redeliver, HistoryTyped
  <2>2. CASE UNCHANGED asked
    BY <2>2 DEF HistoryTyped
  <2> QED
    BY <2>1, <2>2 DEF Deliver, ControllerSettles, CoolDown, github
<1>3. receipt' \in [Guid -> ReceiptType]
  <2>1. \/ UNCHANGED receipt
        \/ \E stage \in {"open", "settled"} : receipt' = [receipt EXCEPT ![g].stage = stage]
    BY DEF Deliver, Redeliver, Attempt, ControllerSettles, CoolDown
  <2>2. receipt \in [Guid -> ReceiptType]
    BY DEF TablesTyped
  <2> QED
    BY <2>1, <2>2 DEF ReceiptType
<1>4. RequestsTyped'
  <2>1. CASE CoolDown(g)
    <3>1. requests' = [requests EXCEPT ![g] = [requests[g] EXCEPT !.cooled = TRUE]]
      BY <2>1 DEF CoolDown
    <3>2. requests[g] \in RequestType /\ requests[g].status # "absent"
      BY <2>1 DEF CoolDown, TablesTyped, RequestsTyped
    <3>3. LET q == [requests[g] EXCEPT !.cooled = TRUE] IN q \in RequestType /\ q.status # "absent"
      BY <3>2 DEF RequestType
    <3> QED
      BY <3>1, <3>3, RowTyped DEF TablesTyped
  <2>2. CASE UNCHANGED requests
    BY <2>2 DEF TablesTyped, RequestsTyped
  <2> QED
    BY <2>1, <2>2 DEF Deliver, Redeliver, Attempt, ControllerSettles
<1>5. UNCHANGED <<scan, observed, run>>
  BY DEF Deliver, Redeliver, Attempt, ControllerSettles, CoolDown
<1>6. TablesTyped'
  BY <1>3, <1>4, <1>5 DEF TablesTyped
<1>7. RunsTyped'
  BY <1>5 DEF RunsTyped
<1>8. HistoryTyped'
  BY <1>1, <1>2 DEF HistoryTyped
<1> QED
  BY <1>6, <1>7, <1>8

\* What a typed run carries.
LEMMA CarriesTyped ==
  ASSUME Typed, NEW r \in Reconciler
  PROVE  /\ run[r] \in RunType /\ RunMarks(run[r])
         /\ run[r].snap \in ScanType /\ Paired(run[r].snap)
         /\ run[r].next \in Id /\ run[r].high \in Id
         /\ run[r].seen \in [Guid -> Group] /\ run[r].ids \in [Guid -> Id]
         /\ run[r].todo \subseteq Guid
         /\ scan \in ScanType /\ Paired(scan) /\ observed \in [Guid -> Group]
         /\ requests \in [Guid -> RequestType] /\ RequestsTyped
         /\ receipt \in [Guid -> ReceiptType]
         /\ HistoryTyped /\ TablesTyped /\ RunsTyped
BY DEF Typed, RunsTyped, RunMarks, RunType, TablesTyped, RequestsTyped

\* A run that fails, starts or ends is idle.
LEMMA IdleTyped ==
  ASSUME Typed, NEW r \in Reconciler, Fail(r)
  PROVE  RunsTyped'
BY NothingTyped, MoveTyped DEF Typed, Fail

\* A step that moves a run on without touching what it knows of the scan.
LEMMA OnwardTyped ==
  ASSUME Typed, NEW r \in Reconciler, NEW new \in RunType,
         new.snap = run[r].snap, new.next = run[r].next, new.high = run[r].high,
         new.at \notin {"saving", "advancing"},
         run' = [run EXCEPT ![r] = new]
  PROVE  RunsTyped'
<1>1. RunMarks(new)
  BY CarriesTyped DEF RunMarks
<1> QED
  BY <1>1, MoveTyped DEF Typed

(* The steps that only read keep the runs typed. *)
LEMMA ReadingTyped ==
  ASSUME Typed, NEW r \in Reconciler,
         \/ ReadState(r) \/ Collect(r) \/ ReadObservations(r) \/ ReadDueReceipts(r)
         \/ ReadDueRequests(r) \/ CheckPending(r)
  PROVE  RunsTyped'
<1> USE CarriesTyped
<1>1. CASE ReadState(r)
  <2> DEFINE new == [Idle EXCEPT !.at = "began", !.snap = scan]
  <2>1. new \in RunType
    BY NothingTyped DEF RunType, Stage
  <2>2. new.at = "began" /\ new.snap = scan /\ new.next = 0
    BY DEF Idle
  <2>3. run' = [run EXCEPT ![r] = new]
    BY <1>1 DEF ReadState, Step
  <2> HIDE DEF new
  <2>4. RunMarks(new)
    BY <2>2 DEF RunMarks
  <2> QED
    BY <2>1, <2>3, <2>4, MoveTyped
<1>2. CASE Collect(r)
  <2> DEFINE s == run[r].snap
             high == IF s.cursor # 0 THEN s.high ELSE First(s)
             seen == Groups(Segment(s))
             next == NextCursor(s)
             new == [run[r] EXCEPT !.at = "collected", !.seen = seen, !.next = next, !.high = high]
  <2>1. high \in Id /\ next \in Id /\ (next # 0 => high # 0)
    BY MarksTyped DEF ScanType, Paired, First
  <2>2. seen \in [Guid -> Group]
    BY GroupsTyped
  <2>3. run' = [run EXCEPT ![r] = new]
    BY <1>2 DEF Collect, Step
  <2> HIDE DEF high, seen, next
  <2>4. new \in RunType
    BY <2>1, <2>2 DEF RunType, Stage
  <2>5. new.at = "collected" /\ new.snap = s /\ new.next = next /\ new.high = high
    BY DEF RunType
  <2> HIDE DEF new
  <2>6. RunMarks(new)
    BY <2>1, <2>5 DEF RunMarks
  <2> QED
    BY <2>3, <2>4, <2>6, MoveTyped
<1>3. CASE ReadObservations(r)
  <2> DEFINE seen == IF run[r].next # 0 THEN NoGroups ELSE observed
             new == [run[r] EXCEPT !.at = "grouped", !.seen = seen]
  <2>1. seen \in [Guid -> Group]
    BY NothingTyped
  <2>2. run' = [run EXCEPT ![r] = new]
    BY <1>3 DEF ReadObservations, Step
  <2> HIDE DEF seen
  <2>3. new \in RunType /\ new.at = "grouped"
        /\ new.snap = run[r].snap /\ new.next = run[r].next /\ new.high = run[r].high
    BY <2>1 DEF RunType, Stage
  <2> HIDE DEF new
  <2> QED
    BY <2>2, <2>3, OnwardTyped
<1>4. CASE ReadDueReceipts(r)
  <2>1. PICK due \in SUBSET Guid : run' = [run EXCEPT ![r] = [run[r] EXCEPT !.at = "due", !.due = due,
              !.ids = [g \in Guid |-> IF g \in due THEN receipt[g].link ELSE 0]]]
    BY <1>4 DEF ReadDueReceipts, Step
  <2> DEFINE ids == [g \in Guid |-> IF g \in due THEN receipt[g].link ELSE 0]
             new == [run[r] EXCEPT !.at = "due", !.due = due, !.ids = ids]
  <2>2. ids \in [Guid -> Id]
    BY Numbers DEF ReceiptType
  <2>3. run' = [run EXCEPT ![r] = new]
    BY <2>1
  <2> HIDE DEF ids
  <2>4. new \in RunType /\ new.at = "due"
        /\ new.snap = run[r].snap /\ new.next = run[r].next /\ new.high = run[r].high
    BY <2>2 DEF RunType, Stage
  <2> HIDE DEF new
  <2> QED
    BY <2>3, <2>4, OnwardTyped
<1>5. CASE ReadDueRequests(r)
  <2> DEFINE due == Due(run[r].next = 0)
             ids == [g \in Guid |-> IF g \in due THEN requests[g].id ELSE 0]
             new == [run[r] EXCEPT !.at = "requesting", !.todo = due, !.ids = ids]
  <2>1. ids \in [Guid -> Id] /\ due \in SUBSET Guid
    BY Numbers DEF RequestType, Due
  <2>2. run' = [run EXCEPT ![r] = new]
    BY <1>5 DEF ReadDueRequests, Step
  <2> HIDE DEF ids, due
  <2>3. new \in RunType /\ new.at = "requesting"
        /\ new.snap = run[r].snap /\ new.next = run[r].next /\ new.high = run[r].high
    BY <2>1 DEF RunType, Stage
  <2> HIDE DEF new
  <2> QED
    BY <2>2, <2>3, OnwardTyped
<1>6. CASE CheckPending(r)
  <2>1. CASE Fail(r)
    BY <2>1, IdleTyped
  <2>2. ASSUME NEW stage \in {"saving", "advancing"},
               stage = "saving" => run[r].next # 0, stage = "advancing" => run[r].next = 0,
               run' = [run EXCEPT ![r] = [run[r] EXCEPT !.at = stage]]
        PROVE  RunsTyped'
    <3> DEFINE new == [run[r] EXCEPT !.at = stage]
    <3>1. new \in RunType /\ new.at = stage
          /\ new.snap = run[r].snap /\ new.next = run[r].next /\ new.high = run[r].high
      BY DEF RunType, Stage
    <3> HIDE DEF new
    <3>2. RunMarks(new)
      BY <2>2, <3>1 DEF RunMarks
    <3> QED
      BY <2>2, <3>1, <3>2, MoveTyped DEF new
  <2> QED
    BY <1>6, <2>1, <2>2 DEF CheckPending, Step, Fail
<1> QED
  BY <1>1, <1>2, <1>3, <1>4, <1>5, <1>6

(* Merging keeps the observations, the requests and the runs typed. *)
LEMMA MergeTyped ==
  ASSUME Typed, NEW r \in Reconciler, Merge(r)
  PROVE  RunsTyped' /\ observed' \in [Guid -> Group] /\ RequestsTyped'
<1> USE CarriesTyped
<1> DEFINE seen == run[r].seen
           merged == [g \in Guid |-> Merged(observed[g], seen[g], g)]
           new == [run[r] EXCEPT !.at = "merged"]
<1>1. merged \in [Guid -> Group]
  <2>1. ASSUME NEW g \in Guid PROVE Merged(observed[g], seen[g], g) \in Group
    <3>1. observed[g] \in Group /\ seen[g] \in Group
      OBVIOUS
    <3> DEFINE ok == observed[g].ok \/ seen[g].ok
    <3>2. ok \in BOOLEAN
      BY <3>1 DEF Group
    <3> HIDE DEF ok, seen
    <3> QED
      BY <3>1, <3>2 DEF Merged, Group, ok
  <2> QED
    BY <2>1
<1>2. run' = [run EXCEPT ![r] = new] \/ Fail(r)
  BY DEF Merge, Step
<1>3. RunsTyped'
  <2>1. new \in RunType /\ new.at = "merged"
        /\ new.snap = run[r].snap /\ new.next = run[r].next /\ new.high = run[r].high
    BY DEF RunType, Stage
  <2> HIDE DEF new
  <2> QED
    BY <1>2, <2>1, OnwardTyped, IdleTyped
<1>4. CASE UNCHANGED <<observed, requests>>
  BY <1>3, <1>4 DEF RequestsTyped
<1>5. CASE /\ observed' = merged
           /\ requests' = [g \in Guid |->
                IF seen[g].id # 0 /\ merged[g].id = seen[g].id /\ Repairable(g, merged[g].id)
                THEN Requeued(requests[g], merged[g].id) ELSE requests[g]]
  <2>1. \A g \in Guid : merged[g].id \in Id
    BY <1>1 DEF Group
  <2> HIDE DEF merged, seen
  <2>2. ASSUME NEW g \in Guid
        PROVE  /\ requests'[g] \in RequestType
               /\ requests'[g].status = "absent" => requests'[g].attempts = 0
    BY <1>5, <2>1, RequestTyped DEF RequestsTyped
  <2>3. requests' = [g \in Guid |-> requests'[g]]
    BY <1>5
  <2>4. requests' \in [Guid -> RequestType]
    BY <2>2, <2>3
  <2> QED
    BY <1>1, <1>3, <1>5, <2>2, <2>4 DEF RequestsTyped
<1> QED
  BY <1>4, <1>5 DEF Merge

(* Linking keeps the receipts and the runs typed. *)
LEMMA LinkTyped ==
  ASSUME Typed, NEW r \in Reconciler, Link(r)
  PROVE  RunsTyped' /\ receipt' \in [Guid -> ReceiptType]
<1> USE CarriesTyped
<1> DEFINE seen == run[r].seen
           todo == {g \in Guid : seen[g].id # 0 /\ seen[g].ok /\ g \notin run[r].due}
           new == [run[r] EXCEPT !.at = "linked", !.todo = todo]
<1>1. run' = [run EXCEPT ![r] = new]
  BY DEF Link, Step
<1>2. todo \in SUBSET Guid
  OBVIOUS
<1>3. receipt' \in [Guid -> ReceiptType]
  <2>1. receipt' = [g \in Guid |-> IF seen[g].id # 0 /\ receipt[g].stage = "open"
                                    THEN [receipt[g] EXCEPT !.link = seen[g].id] ELSE receipt[g]]
    BY DEF Link
  <2>2. \A g \in Guid : seen[g].id \in Id
    BY DEF Group
  <2> HIDE DEF seen
  <2>3. \A g \in Guid : [receipt[g] EXCEPT !.link = seen[g].id] \in ReceiptType
    BY <2>2 DEF ReceiptType
  <2> QED
    BY <2>1, <2>3
<1> HIDE DEF todo
<1>4. new \in RunType /\ new.at = "linked"
      /\ new.snap = run[r].snap /\ new.next = run[r].next /\ new.high = run[r].high
  BY <1>2 DEF RunType, Stage
<1> HIDE DEF new
<1> QED
  BY <1>1, <1>3, <1>4, OnwardTyped

(* So do the steps on the redelivery requests. *)
LEMMA QueueTyped ==
  ASSUME Typed, NEW r \in Reconciler,
         \/ CompleteRedelivery(r) \/ QueueRedeliveries(r) \/ ClaimRequest(r) \/ MissRequest(r)
         \/ Post(r) \/ Mark(r) \/ Recover(r) \/ ExhaustExpiredRequests(r)
  PROVE  RunsTyped' /\ RequestsTyped'
<1> USE CarriesTyped
<1>0. UNCHANGED requests => RequestsTyped'
  BY DEF RequestsTyped
<1>1. CASE CompleteRedelivery(r)
  <2>1. PICK g \in run[r].todo :
          /\ run[r].at = "linked"
          /\ run' = [run EXCEPT ![r] = [run[r] EXCEPT !.todo = run[r].todo \ {g}]]
          /\ requests' = [requests EXCEPT ![g] = NoRequest]
    BY <1>1 DEF CompleteRedelivery, Step
  <2> DEFINE new == [run[r] EXCEPT !.todo = run[r].todo \ {g}]
  <2>2. new \in RunType /\ new.at = "linked"
        /\ new.snap = run[r].snap /\ new.next = run[r].next /\ new.high = run[r].high
    BY <2>1 DEF RunType, Stage
  <2>3. RequestsTyped'
    BY <2>1, NothingTyped DEF RequestsTyped
  <2> HIDE DEF new
  <2> QED
    BY <2>1, <2>2, <2>3, OnwardTyped DEF new
<1>2. CASE QueueRedeliveries(r)
  <2> DEFINE id(g) == IF run[r].seen[g].id # 0 /\ (~run[r].seen[g].ok \/ g \in run[r].due)
                      THEN run[r].seen[g].id ELSE run[r].ids[g]
             new == [run[r] EXCEPT !.at = "queued", !.seen = NoGroups, !.due = {}, !.ids = NoIds]
  <2>1. /\ requests' = [g \in Guid |-> IF id(g) # 0 THEN Queued(g, id(g)) ELSE requests[g]]
        /\ run' = [run EXCEPT ![r] = new]
    BY <1>2 DEF QueueRedeliveries, Step
  <2>2. \A g \in Guid : id(g) \in Id
    BY DEF Group
  <2> HIDE DEF id
  <2>3. ASSUME NEW g \in Guid
        PROVE  /\ requests'[g] \in RequestType
               /\ requests'[g].status = "absent" => requests'[g].attempts = 0
    BY <2>1, <2>2, RequestTyped DEF RequestsTyped
  <2>4. requests' = [g \in Guid |-> requests'[g]]
    BY <2>1
  <2>5. requests' \in [Guid -> RequestType]
    BY <2>3, <2>4
  <2>6. RequestsTyped'
    BY <2>3, <2>5 DEF RequestsTyped
  <2>7. new \in RunType /\ new.at = "queued"
        /\ new.snap = run[r].snap /\ new.next = run[r].next /\ new.high = run[r].high
    BY NothingTyped DEF RunType, Stage
  <2> HIDE DEF new
  <2> QED
    BY <2>1, <2>6, <2>7, OnwardTyped
<1>3. CASE ClaimRequest(r)
  <2>1. PICK g \in run[r].todo, stage \in {"posting", "missed"} :
          /\ run' = [run EXCEPT ![r] = [run[r] EXCEPT !.at = stage, !.target = g, !.todo = run[r].todo \ {g}]]
          /\ \/ Takeable(g) /\ requests' = [requests EXCEPT ![g] = Requesting(g, run[r].ids[g])]
             \/ UNCHANGED requests
    BY <1>3 DEF ClaimRequest, Step
  <2> DEFINE new == [run[r] EXCEPT !.at = stage, !.target = g, !.todo = run[r].todo \ {g}]
  <2>2. new \in RunType /\ new.at = stage
        /\ new.snap = run[r].snap /\ new.next = run[r].next /\ new.high = run[r].high
    BY <2>1 DEF RunType, Stage
  <2>3. run[r].ids[g] \in Id /\ g \in Guid
    OBVIOUS
  <2>4. RequestsTyped'
    BY <1>0, <2>1, <2>3, RequestTyped, RowTyped
  <2> HIDE DEF new
  <2> QED
    BY <2>1, <2>2, <2>4, OnwardTyped DEF new
<1>4. ASSUME NEW stage \in {"requesting", "marking", "recovering"},
             NEW target \in Guid \union {NoGuid},
             NEW result \in {"none", "accepted", "rejected", "limited", "unknown"},
             run' = [run EXCEPT ![r] = [run[r] EXCEPT !.at = stage, !.target = target, !.result = result]]
      PROVE  RunsTyped'
  <2> DEFINE new == [run[r] EXCEPT !.at = stage, !.target = target, !.result = result]
  <2>1. new \in RunType /\ new.at = stage
        /\ new.snap = run[r].snap /\ new.next = run[r].next /\ new.high = run[r].high
    BY DEF RunType, Stage
  <2> HIDE DEF new
  <2> QED
    BY <1>4, <2>1, OnwardTyped DEF new
<1>5. /\ run[r].target \in Guid \union {NoGuid}
      /\ run[r].result \in {"none", "accepted", "rejected", "limited", "unknown"}
  BY DEF RunType
<1>6. ASSUME NEW g, NEW result, requests' = [requests EXCEPT ![g] = Settled(requests[g], result, run[r].ids[g])]
      PROVE  RequestsTyped'
  <2>1. g \in Guid => run[r].ids[g] \in Id
    OBVIOUS
  <2> QED
    BY <1>6, <2>1, RequestTyped, RowTyped
<1>7. CASE MissRequest(r)
  <2> DEFINE g == run[r].target
  <2>1. \/ run' = [run EXCEPT ![r] = [run[r] EXCEPT !.at = "requesting", !.target = NoGuid]]
        \/ Fail(r)
    BY <1>7 DEF MissRequest, Step
  <2>2. [run[r] EXCEPT !.at = "requesting", !.target = NoGuid]
          = [run[r] EXCEPT !.at = "requesting", !.target = NoGuid, !.result = run[r].result]
    BY DEF RunType
  <2>3. RunsTyped'
    <3>1. CASE run' = [run EXCEPT ![r] = [run[r] EXCEPT !.at = "requesting", !.target = NoGuid]]
      <4>1. run' = [run EXCEPT ![r] = [run[r] EXCEPT !.at = "requesting", !.target = NoGuid, !.result = run[r].result]]
        BY <2>2, <3>1
      <4> QED
        BY <1>4, <1>5, <4>1
    <3> QED
      BY <2>1, <3>1, IdleTyped
  <2>4. CASE requests' = [requests EXCEPT ![g].status = "exhausted"]
    <3>1. requests' = [requests EXCEPT ![g] = [requests[g] EXCEPT !.status = "exhausted"]]
      BY <2>4
    <3>2. g \in Guid => [requests[g] EXCEPT !.status = "exhausted"] \in RequestType
                        /\ [requests[g] EXCEPT !.status = "exhausted"].status # "absent"
      BY DEF RequestType
    <3> HIDE DEF g
    <3> QED
      BY <2>3, <3>1, <3>2, RowTyped
  <2> QED
    BY <1>0, <1>7, <2>3, <2>4 DEF MissRequest
<1>8. CASE Post(r)
  <2>1. PICK v \in {"accepted", "rejected", "limited", "unknown"} :
          run' = [run EXCEPT ![r] = [run[r] EXCEPT !.at = "marking", !.result = v]]
    BY <1>8 DEF Post, Step
  <2>2. [run[r] EXCEPT !.at = "marking", !.result = v]
          = [run[r] EXCEPT !.at = "marking", !.target = run[r].target, !.result = v]
    BY DEF RunType
  <2>3. UNCHANGED requests
    BY <1>8 DEF Post, tables
  <2> QED
    BY <1>0, <1>4, <1>5, <2>1, <2>2, <2>3
<1>9. CASE Mark(r)
  <2>1. \/ run' = [run EXCEPT ![r] = [run[r] EXCEPT !.at = "recovering"]]
        \/ run' = [run EXCEPT ![r] = [run[r] EXCEPT !.at = "requesting", !.target = NoGuid, !.result = "none"]]
        \/ Fail(r)
    BY <1>9 DEF Mark, Step
  <2>2. [run[r] EXCEPT !.at = "recovering"]
          = [run[r] EXCEPT !.at = "recovering", !.target = run[r].target, !.result = run[r].result]
    BY DEF RunType
  <2>3. RunsTyped'
    <3>1. CASE run' = [run EXCEPT ![r] = [run[r] EXCEPT !.at = "recovering"]]
      <4>1. run' = [run EXCEPT ![r] = [run[r] EXCEPT !.at = "recovering", !.target = run[r].target,
                                                     !.result = run[r].result]]
        BY <2>2, <3>1
      <4> QED
        BY <1>4, <1>5, <4>1
    <3>2. CASE run' = [run EXCEPT ![r] = [run[r] EXCEPT !.at = "requesting", !.target = NoGuid, !.result = "none"]]
      BY <1>4, <3>2
    <3> QED
      BY <2>1, <3>1, <3>2, IdleTyped
  <2>4. \/ UNCHANGED requests
        \/ \E g, result : requests' = [requests EXCEPT ![g] = Settled(requests[g], result, run[r].ids[g])]
    BY <1>9 DEF Mark
  <2> QED
    BY <1>0, <1>6, <2>3, <2>4
<1>10. CASE Recover(r)
  <2>1. \/ UNCHANGED requests
        \/ \E g, result : requests' = [requests EXCEPT ![g] = Settled(requests[g], result, run[r].ids[g])]
    BY <1>10 DEF Recover
  <2>2. Fail(r)
    BY <1>10 DEF Recover
  <2> QED
    BY <1>0, <1>6, <2>1, <2>2, IdleTyped
<1>11. CASE ExhaustExpiredRequests(r)
  <2> DEFINE new == [run[r] EXCEPT !.at = "exhausted", !.ids = NoIds]
  <2>1. /\ requests' = [g \in Guid |-> IF Spent(requests[g])
                                 THEN [requests[g] EXCEPT !.status = "exhausted"] ELSE requests[g]]
        /\ run' = [run EXCEPT ![r] = new]
    BY <1>11 DEF ExhaustExpiredRequests, Step
  <2>2. \A g \in Guid : [requests[g] EXCEPT !.status = "exhausted"] \in RequestType
                        /\ [requests[g] EXCEPT !.status = "exhausted"].status # "absent"
    BY DEF RequestType
  <2>3. RequestsTyped'
    BY <2>1, <2>2 DEF RequestsTyped
  <2>4. new \in RunType /\ new.at = "exhausted"
        /\ new.snap = run[r].snap /\ new.next = run[r].next /\ new.high = run[r].high
    BY NothingTyped DEF RunType, Stage
  <2> HIDE DEF new
  <2> QED
    BY <2>1, <2>3, <2>4, OnwardTyped
<1> QED
  BY <1>1, <1>2, <1>3, <1>7, <1>8, <1>9, <1>10, <1>11

(* So do the steps that write the reconciler's state. *)
LEMMA SaveTyped ==
  ASSUME Typed, NEW r \in Reconciler, SaveScan(r) \/ AdvanceCheckpoint(r)
  PROVE  RunsTyped' /\ TablesTyped'
<1> USE CarriesTyped
<1>1. RunsTyped'
  BY IdleTyped DEF SaveScan, AdvanceCheckpoint, Step, Fail
<1>2. scan' \in ScanType /\ Paired(scan')
  <2>1. CASE scan' = scan
    BY <2>1
  <2>2. CASE scan' = [scan EXCEPT !.cursor = run[r].next, !.high = run[r].high] /\ run[r].at = "saving"
    <3>1. run[r].next # 0 /\ run[r].high # 0
      BY <2>2 DEF RunMarks
    <3> QED
      BY <2>2, <3>1 DEF ScanType, Paired
  <2>3. CASE scan' = [NoScan EXCEPT !.checkpoint =
                        IF scan.checkpoint <= run[r].high THEN run[r].high ELSE scan.checkpoint]
    BY <2>3, Numbers DEF NoScan, ScanType, Paired
  <2> QED
    BY <2>1, <2>2, <2>3 DEF SaveScan, AdvanceCheckpoint, Step
<1>3. observed' = observed \/ observed' = NoGroups
  BY DEF SaveScan, AdvanceCheckpoint
<1>4. UNCHANGED <<requests, receipt>>
  BY DEF SaveScan, AdvanceCheckpoint
<1> QED
  BY <1>1, <1>2, <1>3, <1>4, NothingTyped DEF TablesTyped, RequestsTyped

\* Every step keeps the types.
LEMMA TypedStep == IInv' /\ Typed /\ [Next]_vars => Typed'
<1> SUFFICES ASSUME IInv', Typed, [Next]_vars PROVE Typed'
  OBVIOUS
<1>t. TablesTyped /\ HistoryTyped /\ RequestsTyped
  BY DEF Typed, TablesTyped
<1>1. CASE UNCHANGED vars
  BY <1>1 DEF vars, Typed, HistoryTyped, TablesTyped, RequestsTyped, RunsTyped
<1>2. ASSUME NEW g \in Guid, Deliver(g) \/ Redeliver(g) \/ ControllerSettles(g) \/ CoolDown(g)
      PROVE  Typed'
  BY <1>2, EnvironmentTyped
<1>3. ASSUME UNCHANGED <<history, asked>> PROVE HistoryTyped'
  BY <1>3, <1>t DEF HistoryTyped
<1>4. ASSUME NEW r \in Reconciler,
             \/ ReadState(r) \/ Collect(r) \/ ReadObservations(r) \/ ReadDueReceipts(r)
             \/ ReadDueRequests(r) \/ CheckPending(r)
      PROVE  Typed'
  <2>1. UNCHANGED <<github, tables>>
    BY <1>4 DEF ReadState, Collect, ReadObservations, ReadDueReceipts, ReadDueRequests, CheckPending
  <2> QED
    BY <1>t, <1>3, <1>4, <2>1, ReadingTyped DEF github, tables, Typed, TablesTyped, RequestsTyped
<1>5. ASSUME NEW r \in Reconciler, Merge(r) PROVE Typed'
  <2>1. UNCHANGED <<history, asked, scan, receipt>>
    BY <1>5 DEF Merge, github
  <2> QED
    BY <1>t, <1>3, <1>5, <2>1, MergeTyped DEF Typed, TablesTyped
<1>6. ASSUME NEW r \in Reconciler, Link(r) PROVE Typed'
  <2>1. UNCHANGED <<history, asked, scan, observed, requests>>
    BY <1>6 DEF Link, github
  <2> QED
    BY <1>t, <1>3, <1>6, <2>1, LinkTyped DEF Typed, TablesTyped, RequestsTyped
<1>7. ASSUME NEW r \in Reconciler, Post(r) PROVE Typed'
  <2>1. UNCHANGED <<history, tables>>
    BY <1>7 DEF Post
  <2>2. asked' \in [Guid -> 0..MaxAsked]
    <3> DEFINE g == run[r].target
    <3>1. \/ UNCHANGED asked
          \/ asked[g] < MaxAsked /\ asked' = [asked EXCEPT ![g] = asked[g] + 1]
      BY <1>7 DEF Post
    <3>2. g \in Guid /\ asked[g] < MaxAsked => asked[g] + 1 \in 0..MaxAsked
      BY <1>t, Numbers DEF HistoryTyped
    <3> HIDE DEF g
    <3> QED
      BY <1>t, <3>1, <3>2 DEF HistoryTyped
  <2>3. HistoryTyped'
    BY <1>t, <2>1, <2>2 DEF HistoryTyped
  <2> QED
    BY <1>t, <1>7, <2>1, <2>3, QueueTyped DEF tables, Typed, TablesTyped
<1>8. ASSUME NEW r \in Reconciler,
             \/ CompleteRedelivery(r) \/ QueueRedeliveries(r) \/ ClaimRequest(r) \/ MissRequest(r)
             \/ Mark(r) \/ Recover(r) \/ ExhaustExpiredRequests(r)
      PROVE  Typed'
  <2>1. UNCHANGED <<history, asked, scan, observed, receipt>>
    BY <1>8 DEF CompleteRedelivery, QueueRedeliveries, ClaimRequest, MissRequest, Mark, Recover,
           ExhaustExpiredRequests, github
  <2> QED
    BY <1>t, <1>3, <1>8, <2>1, QueueTyped DEF Typed, TablesTyped
<1>9. ASSUME NEW r \in Reconciler, SaveScan(r) \/ AdvanceCheckpoint(r) PROVE Typed'
  <2>1. UNCHANGED <<history, asked>>
    BY <1>9 DEF SaveScan, AdvanceCheckpoint, github
  <2> QED
    BY <1>3, <1>9, <2>1, SaveTyped DEF Typed
<1>10. ASSUME NEW r \in Reconciler, Crash(r) PROVE Typed'
  <2>1. UNCHANGED <<github, tables>> /\ Fail(r)
    BY <1>10 DEF Crash
  <2> QED
    BY <1>t, <1>3, <2>1, IdleTyped DEF github, tables, Typed, TablesTyped, RequestsTyped
<1> QED
  BY <1>1, <1>2, <1>4, <1>5, <1>6, <1>7, <1>8, <1>9, <1>10 DEF Next, Advance

(* The types hold initially. *)
LEMMA InitTyped == Init => Typed
<1> SUFFICES ASSUME Init PROVE Typed
  OBVIOUS
<1>1. HistoryTyped
  BY PastAssumption, Numbers DEF Init, HistoryTyped, Attempts, NoIds
<1>2. scan \in ScanType /\ Paired(scan)
  BY PastAssumption, Numbers DEF Init, NoScan, ScanType, Paired, Id
<1>3. RequestsTyped
  BY NothingTyped DEF Init, RequestsTyped
<1>4. receipt \in [Guid -> ReceiptType]
  BY Numbers DEF Init, ReceiptType
<1>5. RunsTyped
  BY NothingTyped DEF Init, RunsTyped
<1> QED
  BY <1>1, <1>2, <1>3, <1>4, <1>5, NothingTyped DEF Init, Typed, TablesTyped

(* They hold in every reachable state. *)
LEMMA TypedAlways == Spec => [](IInv /\ Typed)
<1>1. IInv /\ IInv' /\ Typed /\ [Next]_vars => Typed'
  BY TypedStep
<1> QED
  BY <1>1, InitTyped, Invariance, PTL DEF Spec

\* Every reachable state has its types: a stored cursor comes with its
\* high-water mark, and every id names an attempt GitHub can have made.
THEOREM TypeCorrect == Spec => []TypeOK
<1>1. Typed => TypeOK
  BY DEF Typed, HistoryTyped, TablesTyped, RequestsTyped, RunsTyped, RunMarks, RunType,
         RequestType, ReceiptType, Paired, Attempts, TypeOK
<1> QED
  BY <1>1, TypedAlways, PTL

-----------------------------------------------------------------------------
(***************************************************************************)
(* Nothing is forgotten while the runs do not overlap.  A position is open *)
(* when the checkpoint leaves it to the scans.  The invariant is the       *)
(* account a scan gives of the open positions up to its high-water mark:   *)
(* segment by segment in the observations, then in what the last segment's *)
(* run reads of them, then in the redelivery queue and the receipts, until *)
(* the checkpoint closes them.                                             *)
(***************************************************************************)
Serial == \A r, q \in Reconciler : r = q

Observing == Stage \ {"idle", "began", "collected"}
Reviewing == {"grouped", "due", "linked"}
Queueing  == Observing \ (Reviewing \union {"merged"})

Open(lo, hi) == {i \in 1..Len(history) : lo < i /\ i <= hi /\ Within(i, scan.checkpoint)}
Known(groups, lo, hi) == \A i \in Open(lo, hi) : groups[history[i].guid].id # 0
Resolved(g) == Delivered(g) \/ requests[g].status # "absent"
Unlinked(g) == receipt[g].stage = "open" /\ receipt[g].link = 0

Ordered == \A i, j \in 1..Len(history) : i <= j => history[i].at <= history[j].at
Bounded == scan.checkpoint <= Len(history) /\ scan.cursor <= Len(history) /\ scan.high <= Len(history)

\* What earlier segments have seen is still observed.
ScanKnown == scan.cursor # 0 => Known(observed, scan.cursor, scan.high)

\* A run works on the state it read, which nobody else has written.
Aligned(r) ==
  /\ run[r].next <= Len(history) /\ run[r].high <= Len(history)
  /\ run[r].at # "idle" => run[r].snap = scan
\* Its own segment is in its hands ...
Collected(r) ==
  run[r].at = "collected" =>
    /\ scan.cursor # 0 => run[r].high = scan.high
    /\ Known(run[r].seen, run[r].next, IF scan.cursor # 0 THEN scan.cursor ELSE run[r].high)
\* ... and then, with the earlier ones, in the observations.
Observes(r) == run[r].at \in Observing => Known(observed, run[r].next, run[r].high)
\* The last segment's run holds all of them,
Reviews(r) ==
  run[r].at \in Reviewing /\ run[r].next = 0 => Known(run[r].seen, 0, run[r].high)
\* queues what was not delivered,
Queues(r) ==
  run[r].at \in Queueing /\ run[r].next = 0 =>
    \A i \in Open(0, run[r].high) : Resolved(history[i].guid)
\* and links the open receipts, but for those opened by a later attempt.
Links(r) ==
  run[r].at \in Queueing \union {"linked"} /\ run[r].next = 0 =>
    \A i \in Open(0, run[r].high) :
      Unlinked(history[i].guid) => \E j \in AttemptsOf(history[i].guid) : j > run[r].high

Account(r) ==
  Aligned(r) /\ Collected(r) /\ Observes(r) /\ Reviews(r) /\ Queues(r) /\ Links(r)

Accounted ==
  /\ Ordered /\ Bounded /\ ScanKnown
  /\ \A r \in Reconciler : Account(r)
  /\ NoDeliveryForgotten /\ OpenReceiptReachable

(* The history and the marks as sequences and numbers. *)
LEMMA Positions ==
  ASSUME Typed
  PROVE  /\ history \in Attempts /\ Len(history) \in Nat
         /\ \A i \in 1..Len(history) :
              history[i].guid \in Guid /\ history[i].at \in Nat /\ i \in Nat
         /\ scan \in ScanType /\ scan.checkpoint \in Nat /\ scan.cursor \in Nat /\ scan.high \in Nat
         /\ \A r \in Reconciler : run[r].next \in Nat /\ run[r].high \in Nat
<1>1. history \in Attempts /\ Len(history) \in Nat
  BY DEF Typed, HistoryTyped, Attempts
<1>2. ASSUME NEW i \in 1..Len(history)
      PROVE  history[i].guid \in Guid /\ history[i].at \in Nat /\ i \in Nat
  <2>1. history[i] \in [guid: Guid, at: Nat, ok: BOOLEAN]
    BY <1>1, ElementIn DEF Attempts
  <2> QED
    BY <2>1
<1>3. scan \in ScanType
  BY DEF Typed, TablesTyped
<1>4. scan.checkpoint \in Nat /\ scan.cursor \in Nat /\ scan.high \in Nat
  BY <1>3, Numbers DEF ScanType
<1>5. ASSUME NEW r \in Reconciler PROVE run[r].next \in Nat /\ run[r].high \in Nat
  BY CarriesTyped, Numbers
<1> QED
  BY <1>1, <1>2, <1>3, <1>4, <1>5

\* What is behind the checkpoint stays behind it further down.
LEMMA WithinUp ==
  ASSUME Typed, Ordered, Bounded, NEW i \in 1..Len(history), NEW k \in 1..Len(history), i <= k,
         Within(i, scan.checkpoint)
  PROVE  Within(k, scan.checkpoint)
<1> DEFINE c == scan.checkpoint
<1>1. c \in Nat /\ i \in Nat /\ k \in Nat /\ Overlap \in Nat /\ Len(history) \in Nat
  BY Positions, Numbers
<1>2. history[i].at \in Nat /\ history[k].at \in Nat /\ history[i].at <= history[k].at
  BY Positions DEF Ordered
<1>3. At(i) = history[i].at /\ At(k) = history[k].at
  BY <1>1 DEF At
<1>4. CASE c = 0 \/ i > c
  BY <1>1, <1>4 DEF Within
<1>5. CASE c # 0 /\ At(i) >= At(c) - Overlap
  <2>1. At(c) \in Nat
    BY <1>1, <1>5, Positions DEF At, Bounded
  <2> QED
    BY <1>1, <1>2, <1>3, <1>5, <2>1 DEF Within
<1> QED
  BY <1>4, <1>5 DEF Within

\* A run collects every open position between the cursor it leaves and where it started.
LEMMA SegmentComplete ==
  ASSUME Typed, Ordered, Bounded
  PROVE  \A i \in Open(NextCursor(scan), First(scan)) : i \in Segment(scan)
<1> DEFINE first == First(scan)
           step == MaxPages * PageSize
           beyond == first - step
<1> SUFFICES ASSUME NEW i \in Open(NextCursor(scan), first) PROVE i \in Segment(scan)
  OBVIOUS
<1>1. /\ i \in 1..Len(history) /\ NextCursor(scan) < i /\ i <= first
      /\ Within(i, scan.checkpoint)
  BY DEF Open
<1>2. PageSize \in Nat /\ PageSize > 0 /\ MaxPages \in Nat /\ MaxPages > 0
  BY Numbers
<1>3. step \in Nat /\ PageSize <= step
  BY <1>2, SMT
<1>4. first \in Nat /\ first <= Len(history) /\ Len(history) \in Nat /\ i \in Nat
  BY <1>1, Positions DEF First, Bounded
<1>5. NextCursor(scan) = IF beyond >= 1 /\ Within(beyond + PageSize, scan.checkpoint)
                         THEN beyond ELSE 0
  BY DEF NextCursor
<1> HIDE DEF first, step
<1>6. i > beyond
  <2>1. CASE ~(beyond >= 1)
    BY <1>3, <1>4, <1>1, <2>1
  <2>2. CASE beyond >= 1 /\ Within(beyond + PageSize, scan.checkpoint)
    BY <1>1, <1>5, <2>2
  <2>3. CASE beyond >= 1 /\ ~Within(beyond + PageSize, scan.checkpoint)
    <3>1. SUFFICES ASSUME ~(i > beyond) PROVE FALSE
      OBVIOUS
    <3>2. beyond + PageSize \in 1..Len(history) /\ i <= beyond + PageSize
      BY <1>2, <1>3, <1>4, <2>3, <3>1
    <3> QED
      BY <1>1, <2>3, <3>2, WithinUp
  <2> QED
    BY <2>1, <2>2, <2>3
<1>7. i \in 1..first
  BY <1>1, <1>4
<1> QED
  BY <1>1, <1>6, <1>7 DEF Segment, first, step

-----------------------------------------------------------------------------
\* What the account asks of the tables while history and scan state stay: ids are not
\* forgotten, requests leave for a success only, receipts are not unlinked.
IdsKept == \A g \in Guid : observed[g].id # 0 => observed'[g].id # 0
QueueKept == \A g \in Guid : Resolved(g) => Resolved(g)'
LinksKept == \A g \in Guid : Unlinked(g)' => Unlinked(g)

\* The same positions are open, and the same deliveries attempted and successful.
LEMMA SameHistory ==
  ASSUME UNCHANGED <<history, scan>>
  PROVE  /\ \A lo, hi : Open(lo, hi)' = Open(lo, hi)
         /\ \A g : AttemptsOf(g)' = AttemptsOf(g) /\ (Delivered(g)' <=> Delivered(g))
                   /\ (OutOfReach(g)' <=> OutOfReach(g))
BY DEF Open, Within, At, AttemptsOf, Delivered, OutOfReach

\* Then the account of the tables holds on.
LEMMA TablesAccount ==
  ASSUME Typed, Accounted, UNCHANGED <<history, scan>>, IdsKept, QueueKept, LinksKept
  PROVE  Ordered' /\ Bounded' /\ ScanKnown' /\ NoDeliveryForgotten' /\ OpenReceiptReachable'
<1>1. Ordered' /\ Bounded'
  BY DEF Accounted, Ordered, Bounded
<1>2. ScanKnown'
  <2>1. ASSUME scan.cursor # 0, NEW i \in Open(scan.cursor, scan.high)
        PROVE  observed'[history[i].guid].id # 0
    <3>1. observed[history[i].guid].id # 0 /\ history[i].guid \in Guid
      BY <2>1, Positions DEF Accounted, ScanKnown, Known, Open
    <3> QED
      BY <3>1 DEF IdsKept
  <2> QED
    BY <2>1, SameHistory DEF ScanKnown, Known
<1>3. NoDeliveryForgotten'
  <2>1. ASSUME NEW g \in Guid, OutOfReach(g)', ~Delivered(g)' PROVE requests'[g].status # "absent"
    <3>1. OutOfReach(g) /\ ~Delivered(g)
      BY <2>1, SameHistory
    <3>2. Resolved(g)
      BY <3>1 DEF Accounted, NoDeliveryForgotten, Resolved
    <3> QED
      BY <2>1, <3>2 DEF QueueKept, Resolved
  <2> QED
    BY <2>1 DEF NoDeliveryForgotten
<1>4. OpenReceiptReachable'
  <2>1. ASSUME NEW g \in Guid, OutOfReach(g)' PROVE ~Unlinked(g)'
    <3>1. OutOfReach(g)
      BY <2>1, SameHistory
    <3>2. ~Unlinked(g)
      BY <3>1 DEF Accounted, OpenReceiptReachable, Unlinked
    <3> QED
      BY <3>2 DEF LinksKept
  <2> QED
    BY <2>1 DEF OpenReceiptReachable, Unlinked
<1> QED
  BY <1>1, <1>2, <1>3, <1>4

\* A run that only moves on keeps its account.
LEMMA OnwardAccount ==
  ASSUME Typed, Accounted, NEW r \in Reconciler, UNCHANGED <<history, scan>>,
         IdsKept, QueueKept, LinksKept,
         run'[r].snap = run[r].snap, run'[r].next = run[r].next, run'[r].high = run[r].high,
         run[r].at \in Observing, run'[r].at \in Observing,
         run'[r].at \in Reviewing => run[r].at \in Reviewing /\ run'[r].seen = run[r].seen,
         run'[r].at \in Queueing => run[r].at \in Queueing,
         run'[r].at = "linked" => run[r].at = "linked"
  PROVE  Account(r)'
<1> USE SameHistory
<1>0. Account(r) /\ \A i \in 1..Len(history) : history[i].guid \in Guid
  BY Positions DEF Accounted
<1>1. Aligned(r)' /\ Collected(r)'
  BY <1>0 DEF Account, Aligned, Collected, Observing
<1>2. Observes(r)'
  BY <1>0 DEF Account, Observes, Known, IdsKept, Open
<1>3. Reviews(r)'
  BY <1>0 DEF Account, Reviews, Known
<1>4. Queues(r)'
  BY <1>0 DEF Account, Queues, QueueKept, Open
<1>5. Links(r)'
  <2>1. ASSUME run'[r].at \in Queueing \union {"linked"}, run[r].next = 0,
               NEW i \in Open(0, run[r].high), Unlinked(history[i].guid)'
        PROVE  \E j \in AttemptsOf(history[i].guid) : j > run[r].high
    <3>1. history[i].guid \in Guid
      BY <1>0 DEF Open
    <3>2. Unlinked(history[i].guid)
      BY <2>1, <3>1 DEF LinksKept
    <3> QED
      BY <1>0, <2>1, <3>2 DEF Account, Links
  <2>2. ASSUME NEW g PROVE Unlinked(g)' <=> receipt'[g].stage = "open" /\ receipt'[g].link = 0
    BY DEF Unlinked
  <2> QED
    BY <2>1, <2>2 DEF Links
<1> QED
  BY <1>1, <1>2, <1>3, <1>4, <1>5 DEF Account

\* An idle run has nothing to account for.
LEMMA IdleAccount ==
  ASSUME Typed, NEW r \in Reconciler, Fail(r), UNCHANGED history PROVE Account(r)'
<1>1. run'[r] = Idle
  BY DEF Fail, Typed, RunsTyped
<1>2. Idle.at = "idle" /\ Idle.next = 0 /\ Idle.high = 0
  BY DEF Idle
<1>3. 0 <= Len(history')
  BY Positions
<1> QED
  BY <1>1, <1>2, <1>3 DEF Account, Aligned, Collected, Observes, Reviews, Queues, Links, Observing,
     Reviewing, Queueing

\* When runs do not overlap, one run's account is everybody's.
LEMMA SerialAccount ==
  ASSUME Serial, NEW r \in Reconciler, Account(r)',
         Ordered' /\ Bounded' /\ ScanKnown' /\ NoDeliveryForgotten' /\ OpenReceiptReachable'
  PROVE  Accounted'
<1>1. \A q \in Reconciler : q = r
  BY DEF Serial
<1>2. \A q \in Reconciler : Account(q)'
  BY <1>1
<1> QED
  BY <1>2 DEF Accounted

\* Steps that leave history, scan state, observations, requests and receipts alone.
LEMMA QuietTables ==
  ASSUME UNCHANGED <<history, tables>>
  PROVE  IdsKept /\ QueueKept /\ LinksKept /\ UNCHANGED <<history, scan>>
<1>1. UNCHANGED <<history, scan, observed, requests, receipt>>
  BY DEF tables
<1>2. \A g : Delivered(g)' <=> Delivered(g)
  BY <1>1, SameHistory
<1> QED
  BY <1>1, <1>2 DEF IdsKept, QueueKept, LinksKept, Resolved, Unlinked

(* A run starts from the state it reads. *)
LEMMA ReadStateAccount ==
  ASSUME Typed, Accounted, NEW r \in Reconciler, ReadState(r)
  PROVE  Account(r)'
<1>1. run'[r] = [Idle EXCEPT !.at = "began", !.snap = scan]
  BY DEF ReadState, Step, Typed, RunsTyped
<1>2. run'[r].at = "began" /\ run'[r].snap = scan /\ run'[r].next = 0 /\ run'[r].high = 0
  BY <1>1 DEF Idle
<1>3. UNCHANGED <<history, scan>> /\ 0 <= Len(history)
  BY Positions DEF ReadState, github, tables
<1> QED
  BY <1>2, <1>3 DEF Account, Aligned, Collected, Observes, Reviews, Queues, Links, Observing,
     Reviewing, Queueing

\* Every open position between the new cursor and the old one is in the groups.
LEMMA CollectAccount ==
  ASSUME Typed, Accounted, NEW r \in Reconciler, Collect(r)
  PROVE  Account(r)'
<1> DEFINE high == IF scan.cursor # 0 THEN scan.high ELSE First(scan)
           seen == Groups(Segment(scan))
           next == NextCursor(scan)
<1>1. Account(r) /\ Ordered /\ Bounded
  BY DEF Accounted
<1>2. run[r].at = "began" /\ run[r].snap = scan
  BY <1>1 DEF Collect, Step, Account, Aligned
<1>3. run'[r] = [run[r] EXCEPT !.at = "collected", !.seen = seen, !.next = next, !.high = high]
  BY <1>2 DEF Collect, Step, Typed, RunsTyped
<1>4. run[r] \in RunType
  BY CarriesTyped
<1> HIDE DEF high, seen, next
<1>5. /\ run'[r].at = "collected" /\ run'[r].seen = seen /\ run'[r].next = next
      /\ run'[r].high = high /\ run'[r].snap = scan
  BY <1>2, <1>3, <1>4 DEF RunType
<1>6. UNCHANGED <<history, scan>>
  BY DEF Collect, github, tables
<1>7. /\ First(scan) = IF scan.cursor # 0 THEN scan.cursor ELSE Len(history)
      /\ First(scan) <= Len(history)
  BY <1>1, Positions DEF First, Bounded
<1>8. next <= Len(history) /\ high <= Len(history)
  <2>1. NextCursor(scan) \in Id /\ First(scan) \in Id /\ NextCursor(scan) <= First(scan)
    BY MarksTyped DEF Typed, TablesTyped
  <2>2. NextCursor(scan) \in Nat /\ First(scan) \in Nat /\ Len(history) \in Nat
    BY <2>1, Positions, Numbers
  <2>3. next <= Len(history)
    BY <1>7, <2>1, <2>2 DEF next
  <2>4. high <= Len(history)
    BY <1>1, <1>7 DEF Bounded, high
  <2> QED
    BY <2>3, <2>4
<1>9. Known(seen, next, First(scan))
  <2>1. \A i \in Open(next, First(scan)) : i \in Segment(scan) \intersect (1..Len(history))
    BY <1>1, SegmentComplete DEF next, Open
  <2> QED
    BY <2>1, GroupsTyped DEF Known, seen, Typed
<1>10. Collected(r)'
  <2>1. (IF scan.cursor # 0 THEN scan.cursor ELSE high) = First(scan)
    BY <1>7 DEF high
  <2>2. scan.cursor # 0 => high = scan.high
    BY DEF high
  <2>3. \A lo, hi : Open(lo, hi)' = Open(lo, hi)
    BY <1>6, SameHistory
  <2> QED
    BY <1>5, <1>6, <1>9, <2>1, <2>2, <2>3 DEF Collected, Known
<1>11. Aligned(r)'
  BY <1>5, <1>6, <1>8 DEF Aligned
<1> QED
  BY <1>5, <1>10, <1>11 DEF Account, Observes, Reviews, Queues, Links, Observing, Reviewing, Queueing

\* Merging adds the run's segment to those already observed.
LEMMA MergeAccount ==
  ASSUME IInv, Typed, Accounted, NEW r \in Reconciler, Merge(r)
  PROVE  Account(r)' /\ IdsKept /\ QueueKept /\ LinksKept /\ UNCHANGED <<history, scan>>
<1> DEFINE seen == run[r].seen
           merged == [g \in Guid |-> Merged(observed[g], seen[g], g)]
<1>1. UNCHANGED <<history, scan, receipt>>
  BY DEF Merge, github
<1>2. ASSUME NEW g \in Guid, observed[g].id # 0 \/ seen[g].id # 0
      PROVE  merged[g].id # 0
  BY <1>2 DEF Merged
<1>3. \/ Fail(r) /\ UNCHANGED observed
      \/ /\ run[r].at = "collected" /\ run' = [run EXCEPT ![r] = [run[r] EXCEPT !.at = "merged"]]
         /\ (seen = NoGroups /\ UNCHANGED observed) \/ observed' = merged
  BY DEF Merge, Step
<1>4. LinksKept
  BY <1>1 DEF LinksKept, Unlinked
<1>5. QueueKept
  <2>1. \A g \in Guid : requests[g].status # "absent" => requests'[g].status # "absent"
    BY RequestStep DEF IInv, Shape
  <2> QED
    BY <1>1, <2>1, SameHistory DEF QueueKept, Resolved
<1>6. \A g \in Guid : NoGroups[g].id = 0
  BY DEF NoGroups, NoGroup
<1> HIDE DEF merged
<1>7. IdsKept
  BY <1>2, <1>3 DEF IdsKept
<1>8. CASE Fail(r)
  BY <1>1, <1>4, <1>5, <1>7, <1>8, IdleAccount
<1>9. CASE /\ run[r].at = "collected"
           /\ run' = [run EXCEPT ![r] = [run[r] EXCEPT !.at = "merged"]]
           /\ (seen = NoGroups /\ UNCHANGED observed) \/ observed' = merged
  <2>1. run'[r] = [run[r] EXCEPT !.at = "merged"] /\ run[r] \in RunType
    BY <1>9 DEF Typed, RunsTyped
  <2>2. /\ run'[r].at = "merged" /\ run'[r].snap = run[r].snap
        /\ run'[r].next = run[r].next /\ run'[r].high = run[r].high
    BY <2>1 DEF RunType
  <2>3. Account(r) /\ ScanKnown
    BY DEF Accounted
  <2>4. ASSUME NEW i \in Open(run[r].next, run[r].high) PROVE observed'[history[i].guid].id # 0
    <3>1. i \in 1..Len(history) /\ history[i].guid \in Guid
      BY Positions DEF Open
    <3>2. observed[history[i].guid].id # 0 \/ seen[history[i].guid].id # 0
      <4>1. CASE i \in Open(run[r].next, IF scan.cursor # 0 THEN scan.cursor ELSE run[r].high)
        BY <1>9, <2>3, <4>1 DEF Account, Collected, Known
      <4>2. CASE i \notin Open(run[r].next, IF scan.cursor # 0 THEN scan.cursor ELSE run[r].high)
        <5>1. scan.cursor # 0 /\ run[r].high = scan.high
          BY <1>9, <2>3, <4>2 DEF Account, Collected
        <5>2. i > scan.cursor
          BY <3>1, <4>2, <5>1, Positions DEF Open
        <5>3. i \in Open(scan.cursor, scan.high)
          BY <5>1, <5>2 DEF Open
        <5> QED
          BY <2>3, <5>1, <5>3 DEF ScanKnown, Known
      <4> QED
        BY <4>1, <4>2
    <3> QED
      BY <1>2, <1>6, <1>9, <3>1, <3>2
  <2>5. \A lo, hi : Open(lo, hi)' = Open(lo, hi)
    BY <1>1, SameHistory
  <2>6. Observes(r)'
    BY <1>1, <2>2, <2>4, <2>5 DEF Observes, Known
  <2>7. Aligned(r)'
    BY <1>1, <1>9, <2>2, <2>3 DEF Account, Aligned
  <2>8. Account(r)'
    BY <2>2, <2>6, <2>7 DEF Account, Collected, Reviews, Queues, Links, Reviewing, Queueing
  <2> QED
    BY <1>1, <1>4, <1>5, <1>7, <2>8
<1> QED
  BY <1>3, <1>8, <1>9

\* The last segment's run reads all that was observed.
LEMMA ReadObservationsAccount ==
  ASSUME Typed, Accounted, NEW r \in Reconciler, ReadObservations(r)
  PROVE  Account(r)'
<1> DEFINE seen == IF run[r].next # 0 THEN NoGroups ELSE observed
<1>1. /\ run[r].at = "merged" /\ run[r] \in RunType
      /\ run'[r] = [run[r] EXCEPT !.at = "grouped", !.seen = seen]
  BY CarriesTyped DEF ReadObservations, Step, Typed, RunsTyped
<1>2. /\ run'[r].at = "grouped" /\ run'[r].snap = run[r].snap /\ run'[r].seen = seen
      /\ run'[r].next = run[r].next /\ run'[r].high = run[r].high
  BY <1>1 DEF RunType
<1>3. UNCHANGED <<history, scan, observed>>
  BY DEF ReadObservations, github, tables
<1>4. Account(r)
  BY DEF Accounted
<1>5. \A lo, hi : Open(lo, hi)' = Open(lo, hi)
  BY <1>3, SameHistory
<1>6. Known(observed, run[r].next, run[r].high)
  BY <1>1, <1>4 DEF Account, Observes, Observing, Stage
<1>7. Observes(r)'
  BY <1>2, <1>3, <1>5, <1>6 DEF Observes, Known
<1>8. Reviews(r)'
  BY <1>2, <1>3, <1>5, <1>6 DEF Reviews, Known
<1>9. Aligned(r)'
  BY <1>1, <1>2, <1>3, <1>4 DEF Account, Aligned
<1> QED
  BY <1>2, <1>7, <1>8, <1>9 DEF Account, Collected, Queues, Links, Queueing, Reviewing

\* Linking leaves no open receipt of an open position without its delivery id.
LEMMA LinkAccount ==
  ASSUME Typed, Accounted, NEW r \in Reconciler, Link(r)
  PROVE  Account(r)' /\ IdsKept /\ QueueKept /\ LinksKept /\ UNCHANGED <<history, scan>>
<1> DEFINE seen == run[r].seen
           todo == {g \in Guid : seen[g].id # 0 /\ seen[g].ok /\ g \notin run[r].due}
<1>1. /\ run[r].at = "due" /\ run[r] \in RunType
      /\ run'[r] = [run[r] EXCEPT !.at = "linked", !.todo = todo]
  BY CarriesTyped DEF Link, Step, Typed, RunsTyped
<1> HIDE DEF todo
<1>2. /\ run'[r].at = "linked" /\ run'[r].snap = run[r].snap /\ run'[r].seen = seen
      /\ run'[r].next = run[r].next /\ run'[r].high = run[r].high
  BY <1>1 DEF RunType
<1>3. UNCHANGED <<history, scan, observed, requests>>
  BY DEF Link, github
<1>4. receipt' = [g \in Guid |-> IF seen[g].id # 0 /\ receipt[g].stage = "open"
                                 THEN [receipt[g] EXCEPT !.link = seen[g].id] ELSE receipt[g]]
  BY DEF Link
<1>5. ASSUME NEW g \in Guid, Unlinked(g)' PROVE Unlinked(g) /\ seen[g].id = 0
  <2>1. receipt[g] \in ReceiptType /\ receipt'[g].stage = "open" /\ receipt'[g].link = 0
    BY <1>5, CarriesTyped DEF Unlinked
  <2>2. CASE seen[g].id # 0 /\ receipt[g].stage = "open"
    <3>1. receipt'[g] = [receipt[g] EXCEPT !.link = seen[g].id]
      BY <1>4, <2>2
    <3> QED
      BY <2>1, <2>2, <3>1 DEF ReceiptType
  <2>3. CASE ~(seen[g].id # 0 /\ receipt[g].stage = "open")
    <3>1. receipt'[g] = receipt[g]
      BY <1>4, <2>3
    <3> QED
      BY <2>1, <2>3, <3>1 DEF Unlinked
  <2> QED
    BY <2>2, <2>3
<1>6. IdsKept /\ QueueKept /\ LinksKept
  BY <1>3, <1>5, SameHistory DEF IdsKept, QueueKept, LinksKept, Resolved
<1>7. Account(r)
  BY DEF Accounted
<1>8. \A lo, hi : Open(lo, hi)' = Open(lo, hi)
  BY <1>3, SameHistory
<1>9. Observes(r)'
  BY <1>1, <1>2, <1>3, <1>7, <1>8 DEF Account, Observes, Known, Observing, Stage
<1>10. Reviews(r)'
  BY <1>1, <1>2, <1>3, <1>7, <1>8 DEF Account, Reviews, Known, Reviewing
<1>11. Links(r)'
  <2>1. ASSUME run[r].next = 0, NEW i \in Open(0, run[r].high) PROVE ~Unlinked(history[i].guid)'
    <3>1. PICK g \in Guid : g = history[i].guid
      BY Positions DEF Open
    <3>2. seen[g].id # 0
      BY <1>1, <1>7, <2>1, <3>1 DEF Account, Reviews, Known, Reviewing
    <3>3. ~Unlinked(g)'
      BY <1>5, <3>2
    <3>4. history' = history
      BY <1>3
    <3> QED
      BY <3>1, <3>3, <3>4 DEF Unlinked
  <2> QED
    BY <1>2, <1>3, <1>8, <2>1 DEF Links, Unlinked
<1>12. Aligned(r)'
  BY <1>1, <1>2, <1>3, <1>7 DEF Account, Aligned
<1>13. Account(r)'
  BY <1>2, <1>9, <1>10, <1>11, <1>12 DEF Account, Collected, Queues, Queueing, Reviewing
<1> QED
  BY <1>3, <1>6, <1>13

\* The other steps of a run move it on, or end it.
LEMMA Moves ==
  ASSUME Typed, NEW r \in Reconciler,
         \/ ReadDueReceipts(r) \/ CompleteRedelivery(r) \/ ReadDueRequests(r) \/ ClaimRequest(r)
         \/ MissRequest(r) \/ Post(r) \/ Mark(r) \/ Recover(r) \/ ExhaustExpiredRequests(r)
         \/ CheckPending(r)
  PROVE  \/ Fail(r)
         \/ /\ run'[r].snap = run[r].snap /\ run'[r].next = run[r].next /\ run'[r].high = run[r].high
            /\ \/ /\ <<run[r].at, run'[r].at>> \in {<<"grouped", "due">>, <<"linked", "linked">>}
                  /\ run'[r].seen = run[r].seen
               \/ run[r].at \in Queueing /\ run'[r].at \in Queueing
<1>0. run[r] \in RunType /\ \A new : run' = [run EXCEPT ![r] = new] => run'[r] = new
  BY CarriesTyped DEF RunsTyped
<1> USE DEF RunType, Queueing, Reviewing, Observing, Stage
<1>1. CASE ReadDueReceipts(r)
  <2>1. PICK due : Step(r, "grouped", [run[r] EXCEPT !.at = "due", !.due = due,
                          !.ids = [g \in Guid |-> IF g \in due THEN receipt[g].link ELSE 0]])
    BY <1>1 DEF ReadDueReceipts
  <2> DEFINE ids == [g \in Guid |-> IF g \in due THEN receipt[g].link ELSE 0]
  <2> HIDE DEF ids
  <2>2. run[r].at = "grouped" /\ run'[r] = [run[r] EXCEPT !.at = "due", !.due = due, !.ids = ids]
    BY <1>0, <2>1 DEF Step, ids
  <2>3. /\ run'[r].at = "due" /\ run'[r].snap = run[r].snap /\ run'[r].seen = run[r].seen
        /\ run'[r].next = run[r].next /\ run'[r].high = run[r].high
    BY <1>0, <2>2
  <2> QED
    BY <2>2, <2>3
<1>2. CASE CompleteRedelivery(r)
  <2>1. PICK todo : run[r].at = "linked" /\ run'[r] = [run[r] EXCEPT !.todo = todo]
    BY <1>0, <1>2 DEF CompleteRedelivery, Step
  <2> QED
    BY <1>0, <2>1
<1>3. CASE ReadDueRequests(r)
  <2> DEFINE todo == Due(run[r].next = 0)
             ids == [g \in Guid |-> IF g \in todo THEN requests[g].id ELSE 0]
  <2>1. run[r].at = "queued" /\ run'[r] = [run[r] EXCEPT !.at = "requesting", !.todo = todo, !.ids = ids]
    BY <1>0, <1>3 DEF ReadDueRequests, Step
  <2> HIDE DEF todo, ids
  <2> QED
    BY <1>0, <2>1
<1>4. CASE ClaimRequest(r)
  <2>1. PICK stage \in {"posting", "missed"}, g \in run[r].todo :
          /\ run[r].at = "requesting"
          /\ run'[r] = [run[r] EXCEPT !.at = stage, !.target = g, !.todo = run[r].todo \ {g}]
    BY <1>0, <1>4 DEF ClaimRequest, Step
  <2> QED
    BY <1>0, <2>1
<1>5. CASE MissRequest(r)
  <2>1. \/ Fail(r)
        \/ run[r].at = "missed" /\ run'[r] = [run[r] EXCEPT !.at = "requesting", !.target = NoGuid]
    BY <1>0, <1>5 DEF MissRequest, Step
  <2> QED
    BY <1>0, <2>1
<1>6. CASE Post(r)
  <2>1. PICK result : run[r].at = "posting" /\ run'[r] = [run[r] EXCEPT !.at = "marking", !.result = result]
    BY <1>0, <1>6 DEF Post, Step
  <2> QED
    BY <1>0, <2>1
<1>7. CASE Mark(r)
  <2>1. \/ Fail(r)
        \/ run[r].at = "marking" /\ run'[r] = [run[r] EXCEPT !.at = "recovering"]
        \/ /\ run[r].at = "marking"
           /\ run'[r] = [run[r] EXCEPT !.at = "requesting", !.target = NoGuid, !.result = "none"]
    BY <1>0, <1>7 DEF Mark, Step
  <2> QED
    BY <1>0, <2>1
<1>8. CASE Recover(r)
  BY <1>8 DEF Recover
<1>9. CASE ExhaustExpiredRequests(r)
  <2>1. run[r].at = "requesting" /\ run'[r] = [run[r] EXCEPT !.at = "exhausted", !.ids = NoIds]
    BY <1>0, <1>9 DEF ExhaustExpiredRequests, Step
  <2> QED
    BY <1>0, <2>1
<1>10. CASE CheckPending(r)
  <2>1. \/ Fail(r)
        \/ \E stage \in {"saving", "advancing"} :
              run[r].at = "exhausted" /\ run'[r] = [run[r] EXCEPT !.at = stage]
    BY <1>0, <1>10 DEF CheckPending, Step, Fail
  <2> QED
    BY <1>0, <2>1
<1> QED
  BY <1>1, <1>2, <1>3, <1>4, <1>5, <1>6, <1>7, <1>8, <1>9, <1>10

\* They keep the account: what leaves the queue is delivered.
LEMMA MovesAccount ==
  ASSUME IInv, Typed, Accounted, NEW r \in Reconciler,
         \/ ReadDueReceipts(r) \/ CompleteRedelivery(r) \/ ReadDueRequests(r) \/ ClaimRequest(r)
         \/ MissRequest(r) \/ Post(r) \/ Mark(r) \/ Recover(r) \/ ExhaustExpiredRequests(r)
         \/ CheckPending(r)
  PROVE  Account(r)' /\ IdsKept /\ QueueKept /\ LinksKept /\ UNCHANGED <<history, scan>>
<1>1. UNCHANGED <<history, scan, observed, receipt>>
  BY DEF ReadDueReceipts, CompleteRedelivery, ReadDueRequests, ClaimRequest, MissRequest, Post, Mark,
         Recover, ExhaustExpiredRequests, CheckPending, github, tables
<1>2. IdsKept /\ LinksKept
  BY <1>1 DEF IdsKept, LinksKept, Unlinked
<1>3. QueueKept
  <2>1. CASE CompleteRedelivery(r)
    <3>1. PICK g \in run[r].todo : run[r].at = "linked" /\ requests' = [requests EXCEPT ![g] = NoRequest]
      BY <2>1 DEF CompleteRedelivery, Step
    <3>2. Delivered(g)
      BY <3>1, RunFacts
    <3> QED
      BY <1>1, <3>1, <3>2, SameHistory, CarriesTyped DEF QueueKept, Resolved
  <2>2. CASE ReadDueReceipts(r) \/ ReadDueRequests(r) \/ Post(r) \/ CheckPending(r)
    <3>1. UNCHANGED <<history, tables>>
      BY <2>2 DEF ReadDueReceipts, ReadDueRequests, Post, CheckPending, github
    <3> QED
      BY <3>1, QuietTables
  <2>3. CASE ClaimRequest(r) \/ MissRequest(r) \/ Mark(r) \/ Recover(r) \/ ExhaustExpiredRequests(r)
    <3>1. \A g \in Guid : requests[g].status # "absent" => requests'[g].status # "absent"
      BY <2>3, RequestStep DEF IInv, Shape
    <3> QED
      BY <1>1, <3>1, SameHistory DEF QueueKept, Resolved
  <2> QED
    BY <2>1, <2>2, <2>3
<1>4. CASE Fail(r)
  <2>1. Account(r)'
    BY <1>1, <1>4, IdleAccount
  <2> QED
    BY <1>1, <1>2, <1>3, <2>1
<1>5. CASE ~Fail(r)
  <2>1. /\ run'[r].snap = run[r].snap /\ run'[r].next = run[r].next /\ run'[r].high = run[r].high
        /\ \/ /\ <<run[r].at, run'[r].at>> \in {<<"grouped", "due">>, <<"linked", "linked">>}
              /\ run'[r].seen = run[r].seen
           \/ run[r].at \in Queueing /\ run'[r].at \in Queueing
    BY <1>5, Moves
  <2>2. /\ run[r].at \in Observing /\ run'[r].at \in Observing
        /\ run'[r].at \in Reviewing => run[r].at \in Reviewing /\ run'[r].seen = run[r].seen
        /\ run'[r].at \in Queueing => run[r].at \in Queueing
        /\ run'[r].at = "linked" => run[r].at = "linked"
    BY <2>1 DEF Queueing, Reviewing, Observing, Stage
  <2>3. Account(r)'
    BY <1>1, <1>2, <1>3, <2>1, <2>2, OnwardAccount
  <2> QED
    BY <1>1, <1>2, <1>3, <2>3
<1> QED
  BY <1>1, <1>2, <1>3, <1>4, <1>5

\* Queueing leaves no open position unresolved.
LEMMA QueueAccount ==
  ASSUME IInv, Typed, Accounted, NEW r \in Reconciler, QueueRedeliveries(r)
  PROVE  Account(r)' /\ IdsKept /\ QueueKept /\ LinksKept /\ UNCHANGED <<history, scan>>
<1> DEFINE seen == run[r].seen
           id(g) == IF seen[g].id # 0 /\ (~seen[g].ok \/ g \in run[r].due)
                    THEN seen[g].id ELSE run[r].ids[g]
<1>1. /\ run[r].at = "linked" /\ run[r] \in RunType
      /\ run'[r] = [run[r] EXCEPT !.at = "queued", !.seen = NoGroups, !.due = {}, !.ids = NoIds]
  BY CarriesTyped DEF QueueRedeliveries, Step, Typed, RunsTyped
<1>2. /\ run'[r].at = "queued" /\ run'[r].snap = run[r].snap
      /\ run'[r].next = run[r].next /\ run'[r].high = run[r].high
  BY <1>1 DEF RunType
<1>3. UNCHANGED <<history, scan, observed, receipt>>
  BY DEF QueueRedeliveries, github
<1>4. requests' = [g \in Guid |-> IF id(g) # 0 THEN Queued(g, id(g)) ELSE requests[g]]
  BY DEF QueueRedeliveries
<1>5. ASSUME NEW g \in Guid, seen[g].id # 0, ~Delivered(g) PROVE requests'[g].status # "absent"
  <2>1. ~seen[g].ok
    BY <1>5, RunFacts DEF Truthful
  <2>2. id(g) = seen[g].id /\ id(g) # 0 /\ id(g) \in Id
    BY <1>5, <2>1, CarriesTyped DEF Group
  <2> HIDE DEF id
  <2>3. Queued(g, id(g)).status # "absent"
    BY <2>2, RequestTyped, CarriesTyped
  <2> QED
    BY <1>4, <2>2, <2>3
<1>6. IdsKept /\ QueueKept /\ LinksKept
  <2>1. \A g \in Guid : requests[g].status # "absent" => requests'[g].status # "absent"
    BY RequestStep DEF IInv, Shape
  <2> QED
    BY <1>3, <2>1, SameHistory DEF IdsKept, QueueKept, LinksKept, Resolved, Unlinked
<1>7. Account(r)
  BY DEF Accounted
<1>8. \A lo, hi : Open(lo, hi)' = Open(lo, hi)
  BY <1>3, SameHistory
<1>9. Observes(r)'
  BY <1>1, <1>2, <1>3, <1>7, <1>8 DEF Account, Observes, Known, Observing, Stage
<1>10. Queues(r)'
  <2>1. ASSUME run[r].next = 0, NEW i \in Open(0, run[r].high) PROVE Resolved(history[i].guid)'
    <3>1. PICK g \in Guid : g = history[i].guid
      BY Positions DEF Open
    <3>2. seen[g].id # 0
      BY <1>1, <1>7, <2>1, <3>1 DEF Account, Reviews, Known, Reviewing
    <3>3. Resolved(g)'
      BY <1>3, <1>5, <3>2, SameHistory DEF Resolved
    <3>4. history' = history
      BY <1>3
    <3> QED
      BY <3>1, <3>3, <3>4
  <2> QED
    BY <1>2, <1>3, <1>8, <2>1 DEF Queues
<1>11. Links(r)'
  <2>1. \A i \in Open(0, run[r].high) : run[r].next = 0 /\ Unlinked(history[i].guid) =>
          \E j \in AttemptsOf(history[i].guid) : j > run[r].high
    BY <1>1, <1>7 DEF Account, Links
  <2> QED
    BY <1>2, <1>3, <1>8, <2>1 DEF Links, Unlinked, AttemptsOf
<1>12. Aligned(r)'
  BY <1>1, <1>2, <1>3, <1>7 DEF Account, Aligned
<1>13. Account(r)'
  BY <1>2, <1>9, <1>10, <1>11, <1>12 DEF Account, Collected, Reviews, Reviewing
<1> QED
  BY <1>3, <1>6, <1>13

\* A finished scan closes its positions: whatever it leaves out of reach was out of reach
\* before, or is accounted for.
LEMMA AdvanceAccount ==
  ASSUME Typed, Accounted, NEW r \in Reconciler, AdvanceCheckpoint(r)
  PROVE  Account(r)' /\ Ordered' /\ Bounded' /\ ScanKnown' /\ NoDeliveryForgotten' /\ OpenReceiptReachable'
<1> DEFINE c == scan.checkpoint
           n == Len(history)
           high == run[r].high
<1>1. /\ run[r].at = "advancing" /\ Fail(r) /\ UNCHANGED <<history, requests, receipt>>
      /\ Account(r) /\ Ordered /\ Bounded /\ NoDeliveryForgotten /\ OpenReceiptReachable
  BY DEF AdvanceCheckpoint, Step, Fail, github, Accounted
<1>2. run[r].next = 0
  BY <1>1, CarriesTyped DEF RunMarks
<1>3. run[r].snap = scan /\ high <= n
  BY <1>1 DEF Account, Aligned
<1>4. scan' = [NoScan EXCEPT !.checkpoint = IF c <= high THEN high ELSE c]
  BY <1>3 DEF AdvanceCheckpoint, Current
<1>5. scan'.cursor = 0 /\ scan'.high = 0 /\ scan'.checkpoint = IF c <= high THEN high ELSE c
  BY <1>4 DEF NoScan
<1>6. c \in Nat /\ high \in Nat /\ n \in Nat /\ c <= n
  BY <1>1, Positions DEF Bounded
<1>7. Ordered' /\ Bounded' /\ ScanKnown' /\ Account(r)'
  BY <1>1, <1>3, <1>5, <1>6, IdleAccount DEF Ordered, Bounded, ScanKnown
<1>8. ASSUME NEW g \in Guid, OutOfReach(g)'
      PROVE  \/ OutOfReach(g)
             \/ Resolved(g) /\ ~Unlinked(g)
  <2>1. /\ AttemptsOf(g) # {} /\ AttemptsOf(g)' = AttemptsOf(g)
        /\ \A i \in AttemptsOf(g) : ~Within(i, scan.checkpoint)'
    BY <1>1, <1>8 DEF OutOfReach, AttemptsOf
  <2>2. \A i : At(i)' = At(i)
    BY <1>1 DEF At
  <2>3. ASSUME NEW i \in AttemptsOf(g) PROVE ~Within(i, scan'.checkpoint)
    BY <2>1, <2>2 DEF Within
  <2>4. CASE scan'.checkpoint = c
    BY <2>1, <2>3, <2>4 DEF OutOfReach
  <2>5. CASE scan'.checkpoint = high
    <3>1. \A i \in AttemptsOf(g) : i \in 1..n /\ history[i].guid = g /\ i <= high
      BY <1>6, <2>3, <2>5 DEF AttemptsOf, Within
    <3>2. CASE \E i \in AttemptsOf(g) : Within(i, c)
      <4>1. PICK i \in Open(0, high) : history[i].guid = g
        BY <1>6, <3>1, <3>2 DEF Open
      <4>2. Resolved(g)
        BY <1>1, <1>2, <4>1 DEF Account, Queues, Queueing, Observing, Reviewing, Stage
      <4>3. Unlinked(g) => \E j \in AttemptsOf(g) : j > high
        BY <1>1, <1>2, <4>1 DEF Account, Links, Queueing, Observing, Reviewing, Stage
      <4>4. ~Unlinked(g)
        BY <1>6, <3>1, <4>3
      <4> QED
        BY <4>2, <4>4
    <3> QED
      BY <2>1, <3>2 DEF OutOfReach
  <2> QED
    BY <1>5, <2>4, <2>5
<1>9. NoDeliveryForgotten'
  <2>1. ASSUME NEW g \in Guid, OutOfReach(g)', ~Delivered(g)' PROVE requests'[g].status # "absent"
    <3>1. ~Delivered(g)
      BY <1>1, <2>1 DEF Delivered, AttemptsOf
    <3> QED
      BY <1>1, <1>8, <2>1, <3>1 DEF NoDeliveryForgotten, Resolved
  <2> QED
    BY <2>1 DEF NoDeliveryForgotten
<1>10. OpenReceiptReachable'
  <2>1. ASSUME NEW g \in Guid, OutOfReach(g)', receipt'[g].stage = "open" PROVE receipt'[g].link # 0
    BY <1>1, <1>8, <2>1 DEF OpenReceiptReachable, Unlinked
  <2> QED
    BY <2>1 DEF OpenReceiptReachable
<1> QED
  BY <1>7, <1>9, <1>10

\* A saved scan knows what its run observed.
LEMMA SaveAccount ==
  ASSUME Typed, Accounted, NEW r \in Reconciler, SaveScan(r)
  PROVE  Account(r)' /\ Ordered' /\ Bounded' /\ ScanKnown' /\ NoDeliveryForgotten' /\ OpenReceiptReachable'
<1>1. /\ run[r].at = "saving" /\ Fail(r) /\ UNCHANGED <<history, observed, requests, receipt>>
      /\ Account(r) /\ Ordered /\ Bounded /\ NoDeliveryForgotten /\ OpenReceiptReachable
  BY DEF SaveScan, Step, Fail, github, Accounted
<1>2. run[r].snap = scan /\ run[r].next <= Len(history) /\ run[r].high <= Len(history)
  BY <1>1 DEF Account, Aligned
<1>3. scan' = [scan EXCEPT !.cursor = run[r].next, !.high = run[r].high]
  BY <1>2 DEF SaveScan, Current
<1>4. scan'.checkpoint = scan.checkpoint /\ scan'.cursor = run[r].next /\ scan'.high = run[r].high
  BY <1>3, Positions DEF ScanType
<1>5. /\ \A lo, hi : Open(lo, hi)' = Open(lo, hi)
      /\ \A g : (Delivered(g)' <=> Delivered(g)) /\ (OutOfReach(g)' <=> OutOfReach(g))
  BY <1>1, <1>4 DEF Open, Within, At, AttemptsOf, Delivered, OutOfReach
<1>6. Known(observed, run[r].next, run[r].high)
  BY <1>1 DEF Account, Observes, Observing, Stage
<1>7. ScanKnown'
  BY <1>1, <1>4, <1>5, <1>6 DEF ScanKnown, Known
<1>8. Ordered' /\ Bounded'
  BY <1>1, <1>2, <1>4 DEF Ordered, Bounded
<1>9. NoDeliveryForgotten' /\ OpenReceiptReachable'
  BY <1>1, <1>5 DEF NoDeliveryForgotten, OpenReceiptReachable
<1>10. Account(r)'
  BY <1>1, IdleAccount
<1> QED
  BY <1>7, <1>8, <1>9, <1>10

\* The account does not depend on who moves the tables, while no run moves.
LEMMA StandingAccount ==
  ASSUME Typed, Accounted, UNCHANGED <<history, scan, run, observed>>, QueueKept, LinksKept
  PROVE  Accounted'
<1> USE SameHistory
<1>1. IdsKept /\ \A i \in 1..Len(history) : history[i].guid \in Guid
  BY Positions DEF IdsKept
<1>2. ASSUME NEW r \in Reconciler PROVE Account(r)'
  <2>1. Account(r)
    BY DEF Accounted
  <2>2. Aligned(r)' /\ Collected(r)' /\ Observes(r)' /\ Reviews(r)'
    BY <2>1 DEF Account, Aligned, Collected, Observes, Reviews, Known
  <2>3. Queues(r)'
    BY <1>1, <2>1 DEF Account, Queues, QueueKept, Open
  <2>4. ASSUME NEW i \in Open(0, run[r].high), Unlinked(history[i].guid)'
        PROVE  Unlinked(history[i].guid)
    <3>1. PICK g \in Guid : g = history[i].guid
      BY <1>1 DEF Open
    <3> QED
      BY <2>4, <3>1 DEF LinksKept, Unlinked
  <2>5. Links(r)'
    BY <2>1, <2>4 DEF Account, Links
  <2> QED
    BY <2>2, <2>3, <2>5 DEF Account
<1> QED
  BY <1>1, <1>2, TablesAccount DEF Accounted

\* What an attempt at a delivery changes: the history by one position, at most its own
\* receipt, and nothing that the reconciler keeps.
LEMMA AttemptEffect ==
  ASSUME Typed, Ordered, Bounded, NEW g \in Guid, Attempt(g)
  PROVE  /\ UNCHANGED <<scan, observed, requests, run>>
         /\ Len(history') = Len(history) + 1 /\ history'[Len(history) + 1].guid = g
         /\ \A i \in 1..Len(history) : history'[i] = history[i]
         /\ Ordered'
         /\ \A h \in Guid : h # g => receipt'[h] = receipt[h]
<1> DEFINE n == Len(history)
<1>1. PICK ok \in BOOLEAN, gap \in Gaps :
        history' = Append(history, [guid |-> g, at |-> At(n) + gap, ok |-> ok])
  BY DEF Attempt
<1>2. history \in Attempts /\ n \in Nat /\ gap \in Nat
  BY Positions, ScanAssumption
<1>3. /\ Len(history') = n + 1
      /\ history'[n + 1] = [guid |-> g, at |-> At(n) + gap, ok |-> ok]
      /\ \A i \in 1..n : history'[i] = history[i]
  BY <1>1, <1>2 DEF Attempts
<1>4. Ordered'
  <2>1. \A i \in 1..n : history[i].at \in Nat /\ history[i].at <= At(n)
    BY <1>2, Positions DEF Ordered, At
  <2>2. At(n) \in Nat
    BY <1>2, Positions DEF At
  <2>3. ASSUME NEW i \in 1..Len(history'), NEW j \in 1..Len(history'), i <= j
        PROVE  history'[i].at <= history'[j].at
    <3>1. CASE j \in 1..n
      <4>1. i \in 1..n
        BY <1>2, <1>3, <2>3, <3>1
      <4> QED
        BY <1>3, <2>3, <3>1, <4>1 DEF Ordered
    <3>2. CASE j = n + 1 /\ i \in 1..n
      BY <1>2, <1>3, <2>1, <2>2, <3>2
    <3>3. CASE j = n + 1 /\ i = n + 1
      BY <1>2, <1>3, <2>2, <3>3
    <3> QED
      BY <1>2, <1>3, <3>1, <3>2, <3>3
  <2> QED
    BY <2>3 DEF Ordered
<1>5. UNCHANGED <<scan, observed, requests, run>>
  BY DEF Attempt
<1>6. \A h \in Guid : h # g => receipt'[h] = receipt[h]
  BY CarriesTyped DEF Attempt, Typed, TablesTyped
<1> QED
  BY <1>3, <1>4, <1>5, <1>6

\* An attempt is behind every mark of the scans, and no delivery is unmade.
LEMMA AttemptHistory ==
  ASSUME Typed, Ordered, Bounded, NEW g \in Guid, Attempt(g)
  PROVE  /\ \A lo : \A hi \in Nat : hi <= Len(history) => Open(lo, hi)' = Open(lo, hi)
         /\ \A h \in Guid : Delivered(h) => Delivered(h)'
         /\ \A h \in Guid : AttemptsOf(h) \subseteq AttemptsOf(h)'
         /\ Len(history) + 1 \in AttemptsOf(g)'
         /\ \A h \in Guid : OutOfReach(h)' => OutOfReach(h) /\ h # g
<1> DEFINE n == Len(history)
           c == scan.checkpoint
<1>1. /\ UNCHANGED scan /\ Len(history') = n + 1 /\ history'[n + 1].guid = g
      /\ \A i \in 1..n : history'[i] = history[i]
  BY AttemptEffect
<1>2. n \in Nat /\ c \in Nat /\ c <= n /\ scan' = scan
  BY <1>1, Positions DEF Bounded
<1>3. \A i \in 1..n : Within(i, c)' <=> Within(i, c)
  BY <1>1, <1>2 DEF Within, At
<1>4. \A lo : \A hi \in Nat : hi <= n => Open(lo, hi)' = Open(lo, hi)
  <2>1. ASSUME NEW lo, NEW hi \in Nat, hi <= n PROVE Open(lo, hi)' = Open(lo, hi)
    <3>1. \A i \in 1..n : Within(i, scan.checkpoint)' <=> Within(i, scan.checkpoint)
      BY <1>3
    <3>2. \A i \in 1..Len(history') : i <= hi => i \in 1..n
      BY <1>1, <1>2, <2>1
    <3>3. 1..n \subseteq 1..Len(history')
      BY <1>1, <1>2
    <3> QED
      BY <3>1, <3>2, <3>3 DEF Open
  <2> QED
    BY <2>1
<1>5. \A h \in Guid : AttemptsOf(h) \subseteq AttemptsOf(h)' /\ (h # g => AttemptsOf(h)' = AttemptsOf(h))
  BY <1>1, <1>2 DEF AttemptsOf
<1>6. n + 1 \in AttemptsOf(g)'
  BY <1>1, <1>2 DEF AttemptsOf
<1>7. \A h \in Guid : Delivered(h) => Delivered(h)'
  BY <1>1, <1>5 DEF Delivered, AttemptsOf
<1>8. ASSUME NEW h \in Guid, OutOfReach(h)' PROVE OutOfReach(h) /\ h # g
  <2>1. h # g
    <3>1. PICK m \in Nat : m = n + 1 /\ m > scan'.checkpoint
      BY <1>2
    <3>2. Within(m, scan.checkpoint)'
      BY <3>1 DEF Within
    <3> QED
      BY <1>6, <1>8, <3>1, <3>2 DEF OutOfReach
  <2>2. AttemptsOf(h)' = AttemptsOf(h)
    BY <1>5, <2>1
  <2>3. \A i \in AttemptsOf(h) : i \in 1..n
    BY DEF AttemptsOf
  <2> QED
    BY <1>3, <1>8, <2>1, <2>2, <2>3 DEF OutOfReach
<1> QED
  BY <1>4, <1>5, <1>6, <1>7, <1>8

\* So the account outlives it: a receipt it opens was opened behind the scan.
LEMMA AttemptAccount ==
  ASSUME Typed, Accounted, NEW g \in Guid, Attempt(g)
  PROVE  Accounted'
<1> DEFINE n == Len(history)
<1>1. Ordered /\ Bounded /\ ScanKnown /\ NoDeliveryForgotten /\ OpenReceiptReachable
  BY DEF Accounted
<1>2. /\ UNCHANGED <<scan, observed, requests, run>>
      /\ Len(history') = n + 1 /\ Ordered'
      /\ \A i \in 1..n : history'[i] = history[i]
      /\ \A h \in Guid : h # g => receipt'[h] = receipt[h]
  BY <1>1, AttemptEffect
<1>3. n \in Nat /\ \A i \in 1..n : history[i].guid \in Guid
  BY Positions
<1>4. /\ \A lo : \A hi \in Nat : hi <= n => Open(lo, hi)' = Open(lo, hi)
      /\ \A h \in Guid : Delivered(h) => Delivered(h)'
      /\ \A h \in Guid : AttemptsOf(h) \subseteq AttemptsOf(h)'
      /\ n + 1 \in AttemptsOf(g)'
      /\ \A h \in Guid : OutOfReach(h)' => OutOfReach(h) /\ h # g
  BY <1>1, AttemptHistory
<1>5. \A lo, hi : \A i \in Open(lo, hi) : i \in 1..n /\ history'[i] = history[i] /\ history[i].guid \in Guid
  BY <1>2, <1>3 DEF Open
<1>6. Bounded'
  BY <1>1, <1>2, <1>3, Positions DEF Bounded
<1>7. ScanKnown'
  BY <1>1, <1>2, <1>4, <1>5, Positions DEF ScanKnown, Known, Bounded
<1>8. NoDeliveryForgotten'
  BY <1>1, <1>2, <1>4 DEF NoDeliveryForgotten
<1>9. OpenReceiptReachable'
  BY <1>1, <1>2, <1>4 DEF OpenReceiptReachable
<1>10. ASSUME NEW r \in Reconciler PROVE Account(r)'
  <2>1. Account(r) /\ run[r].high \in Nat /\ run[r].high <= n /\ run[r].next \in Nat
    BY Positions DEF Accounted, Account, Aligned
  <2>2. Aligned(r)'
    BY <1>2, <1>3, <2>1 DEF Account, Aligned
  <2>3. scan.cursor \in Nat /\ scan.cursor <= n
    BY <1>1, Positions DEF Bounded
  <2>4. Collected(r)'
    BY <1>2, <1>4, <1>5, <2>1, <2>3 DEF Account, Collected, Known
  <2>5. Observes(r)' /\ Reviews(r)'
    BY <1>2, <1>4, <1>5, <2>1 DEF Account, Observes, Reviews, Known
  <2>6. \A h \in Guid : Resolved(h) => Resolved(h)'
    BY <1>2, <1>4 DEF Resolved
  <2>7. Queues(r)'
    <3>1. ASSUME run[r].at \in Queueing, run[r].next = 0, NEW i \in Open(0, run[r].high)
          PROVE  Resolved(history[i].guid)'
      <4>1. PICK h \in Guid : h = history[i].guid /\ h = history'[i].guid
        BY <1>5
      <4>2. Resolved(h)'
        BY <2>1, <2>6, <3>1, <4>1 DEF Account, Queues
      <4> QED
        BY <4>1, <4>2
    <3> QED
      BY <1>2, <1>4, <2>1, <3>1 DEF Queues
  <2>8. Links(r)'
    <3>1. ASSUME run[r].at \in Queueing \union {"linked"}, run[r].next = 0, NEW i \in Open(0, run[r].high),
                 Unlinked(history[i].guid)'
          PROVE  \E j \in AttemptsOf(history[i].guid)' : j > run[r].high
      <4>1. PICK h \in Guid : h = history[i].guid /\ h = history'[i].guid
        BY <1>5
      <4>2. CASE h = g
        BY <1>3, <1>4, <2>1, <4>1, <4>2 DEF AttemptsOf
      <4>3. CASE h # g
        <5>1. Unlinked(h)
          BY <1>2, <3>1, <4>1, <4>3 DEF Unlinked
        <5>2. \E j \in AttemptsOf(h) : j > run[r].high
          BY <2>1, <3>1, <4>1, <5>1 DEF Account, Links
        <5> QED
          BY <1>4, <4>1, <5>2 DEF AttemptsOf
      <4> QED
        BY <4>2, <4>3
    <3> QED
      BY <1>2, <1>4, <2>1, <3>1 DEF Links
  <2> QED
    BY <2>2, <2>4, <2>5, <2>7, <2>8 DEF Account
<1> QED
  BY <1>1, <1>2, <1>6, <1>7, <1>8, <1>9, <1>10 DEF Accounted

\* The controller opens no receipt and time removes no request.
LEMMA EnvironmentAccount ==
  ASSUME Typed, Accounted, NEW g \in Guid,
         Deliver(g) \/ Redeliver(g) \/ ControllerSettles(g) \/ CoolDown(g)
  PROVE  Accounted'
<1>1. CASE Deliver(g) \/ Redeliver(g)
  BY <1>1, AttemptAccount DEF Deliver, Redeliver
<1>2. CASE ControllerSettles(g)
  <2>1. /\ UNCHANGED <<history, scan, observed, requests, run>>
        /\ receipt' = [receipt EXCEPT ![g].stage = "settled"]
    BY <1>2 DEF ControllerSettles, github
  <2>2. LinksKept
    BY <2>1, CarriesTyped DEF LinksKept, Unlinked, Typed, TablesTyped, ReceiptType
  <2>3. QueueKept
    BY <2>1, SameHistory DEF QueueKept, Resolved
  <2> QED
    BY <2>1, <2>2, <2>3, StandingAccount
<1>3. CASE CoolDown(g)
  <2>1. /\ UNCHANGED <<history, scan, observed, receipt, run>>
        /\ requests' = [requests EXCEPT ![g].cooled = TRUE]
    BY <1>3 DEF CoolDown, github
  <2>2. LinksKept
    BY <2>1 DEF LinksKept, Unlinked
  <2>3. \A h \in Guid : requests'[h].status = requests[h].status
    BY <2>1 DEF Typed, TablesTyped, RequestsTyped, RequestType
  <2>4. QueueKept
    BY <2>1, <2>3, SameHistory DEF QueueKept, Resolved
  <2> QED
    BY <2>1, <2>2, <2>4, StandingAccount
<1> QED
  BY <1>1, <1>2, <1>3

\* A step of the only run keeps the account.
LEMMA RunAccount ==
  ASSUME Serial, IInv, Typed, Accounted, NEW r \in Reconciler, Advance(r) \/ Crash(r)
  PROVE  Accounted'
<1>1. ASSUME Account(r)', IdsKept, QueueKept, LinksKept, UNCHANGED <<history, scan>>
      PROVE  Accounted'
  BY <1>1, TablesAccount, SerialAccount
<1>2. CASE ReadState(r) \/ Collect(r) \/ ReadObservations(r)
  <2>1. UNCHANGED <<history, tables>>
    BY <1>2 DEF ReadState, Collect, ReadObservations, github
  <2>2. Account(r)'
    BY <1>2, ReadStateAccount, CollectAccount, ReadObservationsAccount
  <2> QED
    BY <1>1, <2>1, <2>2, QuietTables
<1>3. CASE Crash(r)
  <2>1. UNCHANGED <<history, tables>> /\ Fail(r)
    BY <1>3 DEF Crash, github
  <2> QED
    BY <1>1, <2>1, QuietTables, IdleAccount
<1>4. CASE Merge(r) \/ Link(r) \/ QueueRedeliveries(r)
  BY <1>1, <1>4, MergeAccount, LinkAccount, QueueAccount
<1>5. CASE \/ ReadDueReceipts(r) \/ CompleteRedelivery(r) \/ ReadDueRequests(r) \/ ClaimRequest(r)
           \/ MissRequest(r) \/ Post(r) \/ Mark(r) \/ Recover(r) \/ ExhaustExpiredRequests(r)
           \/ CheckPending(r)
  BY <1>1, <1>5, MovesAccount
<1>6. CASE SaveScan(r)
  BY <1>6, SaveAccount, SerialAccount
<1>7. CASE AdvanceCheckpoint(r)
  BY <1>7, AdvanceAccount, SerialAccount
<1> QED
  BY <1>2, <1>3, <1>4, <1>5, <1>6, <1>7 DEF Advance

\* Every step keeps the account.
LEMMA AccountStep ==
  ASSUME Serial, IInv, Typed, Accounted, [Next]_vars
  PROVE  Accounted'
<1>1. CASE UNCHANGED vars
  <2>1. UNCHANGED <<history, scan, run, observed>> /\ UNCHANGED <<history, tables>>
    BY <1>1 DEF vars, tables
  <2> QED
    BY <2>1, QuietTables, StandingAccount
<1>2. ASSUME NEW g \in Guid, Deliver(g) \/ Redeliver(g) \/ ControllerSettles(g) \/ CoolDown(g)
      PROVE  Accounted'
  BY <1>2, EnvironmentAccount
<1>3. ASSUME NEW r \in Reconciler, Advance(r) \/ Crash(r) PROVE Accounted'
  BY <1>3, RunAccount
<1> QED
  BY <1>1, <1>2, <1>3 DEF Next

\* Before the first run all that was attempted is behind the checkpoint, and succeeded.
LEMMA InitAccount == Init => Accounted
<1> SUFFICES ASSUME Init PROVE Accounted
  OBVIOUS
<1>1. /\ history = Past /\ observed = NoGroups
      /\ scan.checkpoint = Len(Past) /\ scan.cursor = 0 /\ scan.high = 0
  BY DEF Init, NoScan
<1>2. /\ \A r \in Reconciler : run[r].at = "idle" /\ run[r].next = 0 /\ run[r].high = 0
      /\ \A g \in Guid : receipt[g].stage = "absent"
  BY DEF Init, Idle
<1>3. Len(history) \in Nat /\ \A i \in 1..Len(history) : history[i].ok
  BY <1>1, PastAssumption
<1>4. Ordered /\ Bounded /\ ScanKnown
  BY <1>1, <1>3, PastAssumption DEF Ordered, Bounded, ScanKnown
<1>5. \A r \in Reconciler : Account(r)
  BY <1>2, <1>3 DEF Account, Aligned, Collected, Observes, Reviews, Queues, Links, Observing, Reviewing,
     Queueing
<1>6. NoDeliveryForgotten
  <2>1. ASSUME NEW g \in Guid, OutOfReach(g) PROVE Delivered(g)
    BY <1>3, <2>1 DEF OutOfReach, Delivered, AttemptsOf
  <2> QED
    BY <2>1 DEF NoDeliveryForgotten
<1>7. OpenReceiptReachable
  BY <1>2 DEF OpenReceiptReachable
<1> QED
  BY <1>4, <1>5, <1>6, <1>7 DEF Accounted

\* It holds in every state that runs which do not overlap can reach.
LEMMA AccountAlways == ASSUME Serial PROVE Spec => []Accounted
<1>1. IInv /\ Typed /\ Accounted /\ [Next]_vars => Accounted'
  BY AccountStep
<1> QED
  BY <1>1, InitAccount, TypedAlways, PTL DEF Spec

\* However the scan is cut into segments, whatever arrives meanwhile and wherever a run
\* fails or crashes: as long as runs do not overlap, no delivery that never succeeded is
\* left behind the checkpoint without a request in the redelivery queue.  (When they do
\* overlap this is false.)
THEOREM NothingForgotten == ASSUME Serial PROVE Spec => []NoDeliveryForgotten
<1>1. Accounted => NoDeliveryForgotten
  BY DEF Accounted
<1> QED
  BY <1>1, AccountAlways, PTL

\* Nor is an open receipt left there without the delivery id by which the reconciler
\* finds it due.
THEOREM ReceiptsReachable == ASSUME Serial PROVE Spec => []OpenReceiptReachable
<1>1. Accounted => OpenReceiptReachable
  BY DEF Accounted
<1> QED
  BY <1>1, AccountAlways, PTL

=============================================================================
