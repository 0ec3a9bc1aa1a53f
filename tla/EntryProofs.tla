---------------------------- MODULE EntryProofs ----------------------------
(***************************************************************************)
(* Proofs about the two doors through which work enters.  The gateway's    *)
(* (DispatchClaim), for any number of requests and any window and lease:   *)
(* behind them is Horizon, the instant by which the window of every        *)
(* confirmed dispatch has ended, as far as the row alone can tell.  And    *)
(* the intake's (IssueIntake), for any number of overlapping runs and any  *)
(* part of the catalogue, seen through the instance Intake: behind them is *)
(* what a run knows of the issue while nobody else touched it (Sound).     *)
(***************************************************************************)
EXTENDS DispatchClaim, TLAPS

\* What the row says about windows that have ended: no row says "by now", a
\* row being dispatched "when it was claimed", a dispatched row "when it
\* expires".
Horizon ==
  CASE claim.status = "absent" -> now
    [] claim.status = "dispatching" -> claim.expires - Window
    [] OTHER -> claim.expires

\* A row being dispatched records when its holder was granted it.
RowMatchesGrant ==
  claim.status = "dispatching" =>
    /\ claim.token \in Request
    /\ granted[claim.token] \in 0..now
    /\ claim.expires = granted[claim.token] + Window

\* Every confirmed dispatch lies a whole window behind the horizon.
ConfirmedBehind ==
  \A p \in Request : answer[p] = 202 => granted[p] + Window <= Horizon

\* Only a request that is over has been answered.
AnsweredOver == \A p \in Request : step[p] # "over" => answer[p] = 0

\* What the gateway believes about the dispatch, GitHub did.
Truthful ==
  /\ claim.status = "dispatched" => Dispatched
  /\ receipt = "completed" => Dispatched
  /\ \A p \in Request : step[p] = "accepted" => wire[p] = "accepted"
  /\ \A p \in Request : step[p] \in {"idle", "checked", "missed", "claimed"} => wire[p] = "none"

IInv == TypeOK /\ RowMatchesGrant /\ ConfirmedBehind /\ AnsweredOver /\ Truthful
        /\ SuccessMeansDispatched /\ ConfirmedWindowApart

-----------------------------------------------------------------------------
\* The type of the row.
Row == [status: {"absent", "dispatching", "dispatched"}, token: Request \cup {NoRequest},
        lease: Nat, expires: Nat]

\* The rows the statements write are rows.
LEMMA NoClaimTyped == NoClaim \in Row
BY DEF NoClaim, Row

(* A claimed row is a row. *)
LEMMA ClaimedTyped ==
  ASSUME TypeOK, NEW q \in Request
  PROVE  ClaimedBy(q) \in Row
<1>1. now + Lease \in Nat /\ now + Window \in Nat
  BY TimeAssumption DEF TypeOK
<1>. QED
  BY <1>1 DEF ClaimedBy, Row

(* A dispatched row is a row. *)
LEMMA DispatchedTyped ==
  ASSUME TypeOK
  PROVE  DispatchedRow \in Row
BY DEF DispatchedRow, Row, TypeOK

\* The initial states satisfy the invariant.
LEMMA InitInvariant == Init => IInv
<1>. SUFFICES ASSUME Init PROVE IInv
  OBVIOUS
<1>1. TypeOK
  <2>1. claim \in Row
    BY NoClaimTyped DEF Init
  <2>2. now \in 0..MaxTime
    BY TimeAssumption DEF Init
  <2>3. /\ receipt \in Receipt /\ step \in [Request -> Step] /\ wire \in [Request -> Wire]
        /\ answer \in [Request -> Answer] /\ granted \in [Request -> {-1} \cup 0..MaxTime]
    BY DEF Init, Step, Wire, Answer, Receipt
  <2>. QED
    BY <2>1, <2>2, <2>3 DEF TypeOK, Row
<1>2. \A p \in Request : answer[p] = 0 /\ wire[p] = "none" /\ step[p] = "idle"
  BY DEF Init
<1>3. claim.status = "absent" /\ receipt # "completed"
  BY DEF Init, NoClaim
<1>. QED
  BY <1>1, <1>2, <1>3
  DEF IInv, RowMatchesGrant, ConfirmedBehind, AnsweredOver, Truthful,
      SuccessMeansDispatched, ConfirmedWindowApart

\* Every step preserves the types.
LEMMA TypeStep == TypeOK /\ [Next]_vars => TypeOK'
<1>. SUFFICES ASSUME TypeOK, [Next]_vars PROVE TypeOK'
  OBVIOUS
<1>. USE DEF TypeOK, Step, Wire, Answer, Receipt, Reply, Goto
<1>1. CASE UNCHANGED vars
  BY <1>1 DEF vars
<1>2. ASSUME NEW q \in Request,
             TurnAway(q) \/ Check(q) \/ Miss(q) \/ AnswerMiss(q) \/ LoseAnswer(q) \/ Die(q)
      PROVE TypeOK'
  BY <1>2 DEF TurnAway, AdmissionRefusals, ActorRefusals,
     Check, Miss, AnswerMiss, MissStatus, LoseAnswer, Die
<1>3. ASSUME NEW q \in Request, Send(q) \/ Arrive(q) \/ Hear(q)
      PROVE TypeOK'
  BY <1>3 DEF Send, Arrive, Hear
<1>4. ASSUME NEW q \in Request, Claim(q) PROVE TypeOK'
  BY <1>4, ClaimedTyped, TimeAssumption DEF Claim, Row
<1>5. ASSUME NEW q \in Request, MarkDispatched(q) \/ Release(q) PROVE TypeOK'
  BY <1>5, DispatchedTyped, NoClaimTyped DEF MarkDispatched, Release, Row
<1>6. CASE PurgeExpired \/ ControllerCompletes \/ Tick
  <2>1. CASE PurgeExpired
    BY <2>1, NoClaimTyped DEF PurgeExpired, Row
  <2>2. CASE ControllerCompletes
    BY <2>2 DEF ControllerCompletes
  <2>3. CASE Tick
    BY <2>3, TimeAssumption DEF Tick
  <2>. QED
    BY <1>6, <2>1, <2>2, <2>3
<1>. QED
  BY <1>1, <1>2, <1>3, <1>4, <1>5, <1>6 DEF Next, Gateway

\* What GitHub has accepted it does not take back: only an unsent POST is sent.
LEMMA DispatchedStays ==
  ASSUME IInv, [Next]_vars, Dispatched
  PROVE  Dispatched'
<1>1. PICK q \in Request : wire[q] = "accepted"
  BY DEF Dispatched
<1>2. wire'[q] = "accepted"
  <2>1. ASSUME NEW p \in Request, Send(p) \/ Arrive(p) PROVE wire'[q] = "accepted"
    BY <1>1, <2>1 DEF Send, Arrive, IInv, TypeOK, Truthful
  <2>2. CASE UNCHANGED wire
    BY <1>1, <2>2
  <2>. QED
    BY <2>1, <2>2 DEF Next, Gateway, TurnAway, Check, Claim, Miss, AnswerMiss, Hear, LoseAnswer,
            MarkDispatched, Release, Die, PurgeExpired, ControllerCompletes, Tick, vars
<1>. QED
  BY <1>1, <1>2 DEF Dispatched

\* Every step preserves what ties the gateway's beliefs to GitHub.
LEMMA TruthStep ==
  ASSUME IInv, [Next]_vars
  PROVE  AnsweredOver' /\ Truthful' /\ SuccessMeansDispatched'
<1>. USE DEF IInv, TypeOK, AnsweredOver, Truthful, SuccessMeansDispatched, Reply, Goto
<1>1. CASE UNCHANGED vars
  BY <1>1 DEF vars, Dispatched
<1>2. Dispatched => Dispatched'
  BY DispatchedStays
<1>3. ASSUME NEW q \in Request,
             TurnAway(q) \/ Check(q) \/ Miss(q) \/ AnswerMiss(q) \/ LoseAnswer(q) \/ Die(q)
      PROVE AnsweredOver' /\ Truthful' /\ SuccessMeansDispatched'
  BY <1>2, <1>3 DEF TurnAway, AdmissionRefusals, ActorRefusals,
     Check, Miss, AnswerMiss, MissStatus, LoseAnswer, Die
<1>4. ASSUME NEW q \in Request, Send(q) \/ Hear(q)
      PROVE AnsweredOver' /\ Truthful' /\ SuccessMeansDispatched'
  BY <1>2, <1>4 DEF Send, Hear
<1>5. ASSUME NEW q \in Request, Arrive(q)
      PROVE AnsweredOver' /\ Truthful' /\ SuccessMeansDispatched'
  BY <1>2, <1>5 DEF Arrive
<1>6. ASSUME NEW q \in Request, Claim(q)
      PROVE AnsweredOver' /\ Truthful' /\ SuccessMeansDispatched'
  BY <1>2, <1>6 DEF Claim, ClaimedBy
<1>7. ASSUME NEW q \in Request, MarkDispatched(q)
      PROVE AnsweredOver' /\ Truthful' /\ SuccessMeansDispatched'
  <2>1. Dispatched'
    BY <1>2, <1>7 DEF MarkDispatched, Dispatched
  <2>. QED
    BY <2>1, <1>7 DEF MarkDispatched
<1>8. ASSUME NEW q \in Request, Release(q)
      PROVE AnsweredOver' /\ Truthful' /\ SuccessMeansDispatched'
  BY <1>2, <1>8 DEF Release, NoClaim
<1>9. CASE PurgeExpired \/ ControllerCompletes \/ Tick
  BY <1>2, <1>9 DEF PurgeExpired, ControllerCompletes, Tick, NoClaim
<1>. QED
  BY <1>1, <1>3, <1>4, <1>5, <1>6, <1>7, <1>8, <1>9 DEF Next, Gateway

-----------------------------------------------------------------------------
WindowFacts == RowMatchesGrant /\ ConfirmedBehind /\ ConfirmedWindowApart

\* A step that touches neither the row nor the clock nor the grants, and
\* answers nobody 202, preserves the facts about windows.
LEMMA QuietStep ==
  ASSUME IInv, UNCHANGED <<now, claim, granted>>,
         \A p \in Request : answer'[p] = 202 => answer[p] = 202
  PROVE  WindowFacts'
BY DEF IInv, WindowFacts, RowMatchesGrant, ConfirmedBehind, ConfirmedWindowApart, Horizon

\* The row is claimed only once the windows of all confirmed dispatches have
\* ended.
LEMMA ClaimStep ==
  ASSUME IInv, NEW q \in Request, Claim(q)
  PROVE  WindowFacts'
<1>. USE DEF IInv, TypeOK, Claim, Goto
<1>1. \A p \in Request : answer[p] = 202 => granted[p] + Window <= now
  BY TimeAssumption DEF ConfirmedBehind, Horizon, Claimable, RowMatchesGrant
<1>2. claim' = ClaimedBy(q) /\ answer' = answer /\ now' = now
  OBVIOUS
<1>3. \A p \in Request : answer[p] = 202 => granted'[p] = granted[p]
  BY DEF AnsweredOver
<1>4. granted'[q] = now
  OBVIOUS
<1>5. RowMatchesGrant'
  BY <1>2, <1>4 DEF RowMatchesGrant, ClaimedBy
<1>6. Horizon' = now
  BY <1>2, TimeAssumption DEF Horizon, ClaimedBy
<1>7. ConfirmedBehind'
  BY <1>1, <1>2, <1>3, <1>6 DEF ConfirmedBehind
<1>8. ConfirmedWindowApart'
  BY <1>2, <1>3 DEF ConfirmedWindowApart
<1>. QED
  BY <1>5, <1>7, <1>8 DEF WindowFacts

\* Only the holder of the row confirms, and its grant lies a window behind
\* every earlier confirmation.
LEMMA MarkStep ==
  ASSUME IInv, NEW q \in Request, MarkDispatched(q)
  PROVE  WindowFacts'
<1>. USE DEF IInv, TypeOK, Reply
<1>1. CASE ~HeldBy(q)
  BY <1>1, QuietStep DEF MarkDispatched
<1>2. CASE HeldBy(q)
  <2>1. /\ claim' = DispatchedRow /\ UNCHANGED <<now, granted>>
        /\ \A p \in Request \ {q} : answer'[p] = answer[p]
    BY <1>2 DEF MarkDispatched
  <2>2. claim.expires = granted[q] + Window
    BY <1>2 DEF HeldBy, RowMatchesGrant
  <2>3. \A p \in Request \ {q} : answer'[p] = 202 => granted[p] + Window <= granted[q]
    BY <1>2, <2>1, <2>2, TimeAssumption DEF ConfirmedBehind, Horizon, HeldBy
  <2>4. claim'.status = "dispatched" /\ Horizon' = granted[q] + Window
    BY <2>1, <2>2 DEF DispatchedRow, Horizon
  <2>5. ConfirmedBehind'
    BY <2>1, <2>3, <2>4, TimeAssumption DEF ConfirmedBehind
  <2>6. ConfirmedWindowApart'
    BY <2>1, <2>3 DEF ConfirmedWindowApart
  <2>. QED
    BY <2>4, <2>5, <2>6 DEF WindowFacts, RowMatchesGrant
<1>. QED
  BY <1>1, <1>2

\* A row that is released or purged leaves a horizon that the clock has passed.
LEMMA VanishStep ==
  ASSUME IInv, claim' = NoClaim, UNCHANGED <<now, granted>>,
         claim.status = "dispatching" \/ claim.expires <= now,
         \A p \in Request : answer'[p] = 202 => answer[p] = 202
  PROVE  WindowFacts'
<1>. USE DEF IInv, TypeOK
<1>1. \A p \in Request : answer[p] = 202 => granted[p] + Window <= now
  BY TimeAssumption DEF ConfirmedBehind, Horizon, RowMatchesGrant
<1>. QED
  BY <1>1 DEF WindowFacts, RowMatchesGrant, ConfirmedBehind, ConfirmedWindowApart, Horizon, NoClaim

\* Time passes.
LEMMA TickStep == IInv /\ Tick => WindowFacts'
BY TimeAssumption DEF IInv, TypeOK, Tick, WindowFacts, RowMatchesGrant, ConfirmedBehind,
   ConfirmedWindowApart, Horizon

\* Every step preserves the facts about windows.
LEMMA WindowStep ==
  ASSUME IInv, [Next]_vars
  PROVE  WindowFacts'
<1>. USE DEF IInv, TypeOK, Reply, Goto
<1>1. CASE UNCHANGED vars
  BY <1>1, QuietStep DEF vars
<1>2. ASSUME NEW q \in Request,
             TurnAway(q) \/ Check(q) \/ Miss(q) \/ AnswerMiss(q) \/ LoseAnswer(q) \/ Die(q)
      PROVE WindowFacts'
  BY <1>2, QuietStep DEF TurnAway, AdmissionRefusals, ActorRefusals,
     Check, Miss, AnswerMiss, MissStatus, LoseAnswer, Die
<1>3. ASSUME NEW q \in Request, Send(q) \/ Arrive(q) \/ Hear(q)
      PROVE WindowFacts'
  BY <1>3, QuietStep DEF Send, Arrive, Hear
<1>4. ASSUME NEW q \in Request, Release(q) PROVE WindowFacts'
  <2>1. \A p \in Request : answer'[p] = 202 => answer[p] = 202
    BY <1>4 DEF Release
  <2>2. CASE HeldBy(q)
    BY <1>4, <2>1, <2>2, VanishStep DEF Release, HeldBy
  <2>3. CASE ~HeldBy(q)
    BY <1>4, <2>1, <2>3, QuietStep DEF Release
  <2>. QED
    BY <2>2, <2>3
<1>5. CASE PurgeExpired
  BY <1>5, VanishStep DEF PurgeExpired
<1>6. CASE ControllerCompletes
  BY <1>6, QuietStep DEF ControllerCompletes
<1>. QED
  BY <1>1, <1>2, <1>3, <1>4, <1>5, <1>6, ClaimStep, MarkStep, TickStep DEF Next, Gateway

-----------------------------------------------------------------------------
\* The invariant holds in every reachable state.
THEOREM Invariance == Spec => []IInv
<1>1. IInv /\ [Next]_vars => IInv'
  BY TypeStep, TruthStep, WindowStep DEF IInv, WindowFacts
<1>. QED
  BY InitInvariant, <1>1, PTL DEF Spec

\* Every variable keeps its type (handleWebhook and the statements it runs).
THEOREM TypeCorrect == Spec => []TypeOK
BY Invariance, PTL DEF IInv

\* A success is answered only when GitHub has accepted a dispatch of the event
\* (the 202 and the duplicate 200 of handleWebhook).
THEOREM SuccessTruthful == Spec => []SuccessMeansDispatched
BY Invariance, PTL DEF IInv

\* Confirmed dispatches lie a replay window apart (CLAIM_SQL with
\* MARK_DISPATCHED_SQL and releaseClaim).
THEOREM ConfirmedOncePerWindow == Spec => []ConfirmedWindowApart
BY Invariance, PTL DEF IInv

\* While the lease of a live row runs, only its holder changes it.
THEOREM ClaimFenced == Spec => LiveClaimFenced
<1>. DEFINE Live == claim.status = "dispatching" /\ claim.expires > now /\ claim.lease > now
<1>1. ASSUME IInv, [Next]_vars, Live, claim' # claim
      PROVE  \E q \in Request : claim.token = q /\ step[q] # step'[q]
  <2>1. PICK q \in Request : MarkDispatched(q) \/ Release(q)
    <3>1. ASSUME NEW q \in Request, Claim(q) PROVE FALSE
      BY <1>1, <3>1 DEF Claim, Claimable, IInv, TypeOK
    <3>2. CASE PurgeExpired
      BY <1>1, <3>2 DEF PurgeExpired, IInv, TypeOK
    <3>. QED
      BY <1>1, <3>1, <3>2 DEF Next, Gateway, TurnAway, Check, Miss, AnswerMiss, Send, Arrive, Hear,
                  LoseAnswer, Die, ControllerCompletes, Tick, vars
  <2>2. claim.token = q
    BY <1>1, <2>1 DEF MarkDispatched, Release, HeldBy
  <2>3. step'[q] = "over" /\ step[q] # "over"
    BY <1>1, <2>1 DEF MarkDispatched, Release, Reply, IInv, TypeOK
  <2>. QED
    BY <2>2, <2>3
<1>2. IInv /\ [Next]_vars =>
        [(Live /\ claim' # claim) => \E q \in Request : claim.token = q /\ step[q] # step'[q]]_vars
  BY <1>1
<1>. QED
  BY Invariance, <1>2, PTL DEF Spec, LiveClaimFenced
-----------------------------------------------------------------------------
\* The intake: the state of IssueIntake, where item is its issue and stored its saved.
CONSTANTS Slots, Types, Stages, Readiness, MaxIncidents
VARIABLES item, parent, stored, runs, echoes, work, provisioned, incidents

Intake == INSTANCE IssueIntake WITH issue <- item, saved <- stored

Saved == {"none", "paused", "planning", "planned", "valid", "stale"}
\* The steps between the reading of a run and its last write.
Deciding == {"reason", "type", "fields"}
Readings ==
  [open : BOOLEAN, type : Intake!Optional(Types), stage : Intake!Optional(Stages),
   ready : Intake!Optional(Readiness), adr : BOOLEAN, form : BOOLEAN,
   saved : Saved]
Decisions ==
  [route : Intake!Routes \union {"parent"}, type : Intake!Optional(Types),
   stage : Intake!Optional(Stages), ready : Intake!Optional(Readiness), refused : BOOLEAN]
Runs ==
  [at : {"idle", "read", "deliver"} \union Deciding, who : {"nobody", "writer", "app"},
   on : {"none", "issue", "comment", "manual", "forced"}, quiet : BOOLEAN, late : BOOLEAN,
   seen : Readings, decided : Decisions, moved : BOOLEAN]

\* A run that decides is a writer's.  While nobody else touched the issue it is as the run
\* read it, but for the type once the run wrote it, and the stage it goes to is the old one
\* or follows it in the lifecycle.
Sound(run, issue) ==
  /\ run.at \in Deciding => run.who = "writer"
  /\ run.at \in Deciding /\ ~run.moved => issue.stage = run.seen.stage /\ issue.ready = run.seen.ready
  /\ run.at \in {"reason", "type"} /\ ~run.moved => issue.type = run.seen.type
  /\ run.at = "fields" /\ ~run.moved /\ ~run.quiet => issue.type = run.decided.type
  /\ run.at \in {"type", "fields"} /\ ~run.quiet /\ run.seen.stage \notin {"none", run.decided.stage} =>
       run.decided.stage \in Intake!Transitions[run.seen.stage]
  /\ run.at = "reason" => run.seen.open
  /\ run.at = "deliver" => run.decided.route # "hold"

IssueTyped ==
  /\ item \in Intake!Issue /\ parent \in {"none", "elsewhere", "acceptance"}
  /\ stored \in Saved
  /\ echoes \in Nat /\ work \in Intake!Work /\ (work.at = "moving" => work.to # "none")
  /\ provisioned \in BOOLEAN /\ incidents \in 0..MaxIncidents

IntakeInv ==
  /\ IssueTyped /\ runs \in [Slots -> Runs]
  /\ \A r \in Slots : Sound(runs[r], item)

\* The idle run and what it stands for.
LEMMA IdleSound == Intake!Idle \in Runs /\ Intake!Held \in Decisions /\ Intake!Unread \in Readings
                   /\ Intake!Idle.at = "idle"
BY DEF Intake!Idle, Intake!Held, Intake!Unread, Runs, Readings, Saved, Decisions, Deciding, Intake!Optional,
       Intake!Routes

\* When the issue changes under them, runs notice.
LEMMA Stirred ==
  ASSUME IntakeInv, NEW s \in Slots, NEW issue
  PROVE  /\ [runs[s] EXCEPT !.moved = Intake!Working(s)] \in Runs
         /\ Sound([runs[s] EXCEPT !.moved = Intake!Working(s)], issue)
<1> DEFINE new == [runs[s] EXCEPT !.moved = Intake!Working(s)]
<1>1. runs[s] \in Runs /\ Sound(runs[s], item) /\ Intake!Working(s) \in BOOLEAN
      /\ (Intake!Working(s) <=> runs[s].at # "idle")
  BY DEF IntakeInv, Intake!Working
<1>2. /\ new \in Runs /\ new.moved = Intake!Working(s)
      /\ new.at = runs[s].at /\ new.who = runs[s].who /\ new.quiet = runs[s].quiet
      /\ new.seen = runs[s].seen /\ new.decided = runs[s].decided
  BY <1>1 DEF Runs
<1> HIDE DEF new
<1> QED
  BY <1>1, <1>2 DEF Sound, Deciding, new

\* A step of one run, which touches the issue or not, keeps the others sound.
LEMMA OneRunMoves ==
  ASSUME IntakeInv, NEW r \in Slots, NEW new \in Runs, Sound(new, item'),
         \/ Intake!Step(r, new) /\ item' = item
         \/ runs' = Intake!Others(r, new)
  PROVE  runs' \in [Slots -> Runs] /\ \A s \in Slots : Sound(runs'[s], item')
<1>1. CASE Intake!Step(r, new) /\ item' = item
  BY <1>1 DEF Intake!Step, IntakeInv
<1>2. CASE runs' = Intake!Others(r, new)
  <2>1. runs' = [s \in Slots |-> IF s = r THEN new ELSE [runs[s] EXCEPT !.moved = Intake!Working(s)]]
    BY <1>2 DEF Intake!Others
  <2>2. \A s \in Slots : runs'[s] = new \/ runs'[s] = [runs[s] EXCEPT !.moved = Intake!Working(s)]
    BY <2>1
  <2>3. \A s \in Slots : runs'[s] \in Runs /\ Sound(runs'[s], item')
    BY <2>2, Stirred
  <2>4. runs' = [s \in Slots |-> runs'[s]]
    BY <2>1
  <2> QED
    BY <2>3, <2>4
<1> QED
  BY <1>1, <1>2

\* So does a change by people or by the delivery.
LEMMA AllRunsMoved ==
  ASSUME IntakeInv, runs' = [s \in Slots |-> [runs[s] EXCEPT !.moved = Intake!Working(s)]]
  PROVE  runs' \in [Slots -> Runs] /\ \A s \in Slots : Sound(runs'[s], item')
<1>1. \A s \in Slots : runs'[s] \in Runs /\ Sound(runs'[s], item')
  BY Stirred
<1>2. runs' = [s \in Slots |-> runs'[s]]
  OBVIOUS
<1> QED
  BY <1>1, <1>2

\* A proposal of values in the catalogue, along the lifecycle, is decided soundly.
LEMMA DecideSound ==
  ASSUME NEW run \in Runs, NEW issue, NEW p, run.who = "writer",
         p.route \in Intake!Routes, p.type \in Intake!Optional(Types),
         p.stage \in Intake!Optional(Stages), p.ready \in Intake!Optional(Readiness), p.adr \in BOOLEAN,
         run.seen.stage \notin {"none", p.stage} => p.stage \in Intake!Transitions[run.seen.stage],
         run.seen.type # "none" => p.type = run.seen.type,
         ~run.moved => /\ issue.type = run.seen.type /\ issue.stage = run.seen.stage
                       /\ issue.ready = run.seen.ready
  PROVE  Intake!Decide(run, p) \in Runs /\ Sound(Intake!Decide(run, p), issue)
<1> DEFINE refused == p.stage # run.seen.stage /\ Intake!Gated(p.type, p.stage, p.adr)
           plain == [route |-> p.route, type |-> p.type, stage |-> p.stage, ready |-> p.ready,
                     refused |-> refused]
           decided == IF run.quiet THEN Intake!Held ELSE plain
           at == IF Intake!NeedsType(run, p) THEN "type" ELSE "fields"
           basis == Intake!Basis(run.seen)
           new == [run EXCEPT !.at = at, !.seen = basis, !.decided = decided]
<1>1. refused \in BOOLEAN
  BY DEF Intake!Gated
<1> HIDE DEF refused
<1>2. /\ decided \in Decisions
      /\ ~run.quiet => /\ decided.route = p.route /\ decided.type = p.type
                       /\ decided.stage = p.stage /\ decided.ready = p.ready
  BY <1>1, IdleSound DEF Decisions
<1>3. /\ basis \in Readings /\ basis.type = run.seen.type /\ basis.stage = run.seen.stage
      /\ basis.ready = run.seen.ready
  BY DEF Intake!Basis, Intake!Unread, Runs, Readings, Saved, Intake!Optional
<1>4. at \in {"type", "fields"} /\ (at = "fields" => ~Intake!NeedsType(run, p))
  OBVIOUS
<1>5. Intake!Decide(run, p) = new
  BY DEF Intake!Decide, refused
<1> HIDE DEF decided, at, basis
<1>6. /\ new \in Runs /\ new.at = at /\ new.seen = basis /\ new.decided = decided
      /\ new.who = run.who /\ new.moved = run.moved /\ new.quiet = run.quiet
  BY <1>2, <1>3, <1>4 DEF Runs, Deciding
<1> HIDE DEF new
<1> QED
  BY <1>2, <1>3, <1>4, <1>5, <1>6 DEF Sound, Deciding, Intake!NeedsType

\* What a run reads is typed, and so is what a recovery makes of it.
LEMMA ReadingTyped ==
  ASSUME Intake!CatalogueAssumption, IssueTyped
  PROVE  /\ Intake!Seen \in Readings
         /\ Intake!Seen.type = item.type /\ Intake!Seen.stage = item.stage /\ Intake!Seen.ready = item.ready
         /\ Intake!Seen.open = item.open
         /\ LET p == Intake!Recovery(Intake!Seen)
            IN  /\ p.route \in Intake!Routes /\ p.type = item.type /\ p.adr \in BOOLEAN
                /\ p.stage \in Intake!Optional(Stages) /\ p.ready \in Intake!Optional(Readiness)
                /\ item.stage # "none" => p.stage = item.stage
<1> DEFINE seen == Intake!Seen
           first == IF seen.type = "none" THEN [stage |-> "intake", ready |-> "not-ready"]
                    ELSE Intake!Initial(seen.type)
           ready == IF seen.ready = "none" THEN first.ready ELSE seen.ready
           p == Intake!Recovery(seen)
<1>1. /\ seen \in Readings /\ seen.type = item.type /\ seen.stage = item.stage
      /\ seen.ready = item.ready /\ seen.open = item.open
  BY DEF Intake!Seen, IssueTyped, Intake!Issue, Readings
<1> HIDE DEF seen
<1>2. first.stage \in Stages /\ first.ready \in Readiness /\ "needs-info" \in Readiness
  <2>1. CASE seen.type = "none"
    BY <2>1 DEF Intake!CatalogueAssumption
  <2>2. CASE seen.type # "none"
    <3>1. seen.type \in Types
      BY <1>1, <2>2 DEF Readings, Intake!Optional
    <3> QED
      BY <2>2, <3>1 DEF Intake!CatalogueAssumption
  <2> QED
    BY <2>1, <2>2
<1> HIDE DEF first
<1>3. ready \in Intake!Optional(Readiness)
  BY <1>1, <1>2 DEF Readings, Intake!Optional
<1>4. p = [route |-> "resume", type |-> seen.type, adr |-> seen.adr,
           stage |-> IF seen.stage = "none" THEN first.stage ELSE seen.stage,
           ready |-> IF Intake!Incomplete(seen.type, seen.form) /\ ready \in {"not-ready", "ready"}
                     THEN "needs-info" ELSE ready]
  BY DEF Intake!Recovery, first
<1> HIDE DEF ready, p
<1>5. "resume" \in Intake!Routes
  BY DEF Intake!Routes, Intake!RoutePattern
<1>6. /\ p.route \in Intake!Routes /\ p.type = item.type /\ p.adr \in BOOLEAN
      /\ p.stage \in Intake!Optional(Stages) /\ p.ready \in Intake!Optional(Readiness)
      /\ item.stage # "none" => p.stage = item.stage
  BY <1>1, <1>2, <1>3, <1>4, <1>5 DEF Readings, Intake!Optional
<1> QED
  BY <1>1, <1>6 DEF seen, p

\* A reading starts a decision of a writer only, and from the issue as it is.
LEMMA ReadSound ==
  ASSUME Intake!CatalogueAssumption, IntakeInv, NEW r \in Slots, Intake!Read(r)
  PROVE  IntakeInv'
<1> DEFINE run == runs[r]
           read == [run EXCEPT !.seen = Intake!Seen, !.moved = FALSE, !.late = FALSE]
<1>1. UNCHANGED <<item, parent, stored, echoes, work, incidents, provisioned>>
  BY DEF Intake!Read
<1>2. IssueTyped /\ IssueTyped'
  BY <1>1 DEF IntakeInv, IssueTyped
<1>3. run \in Runs /\ run.at = "read"
  BY DEF IntakeInv, Intake!Read
<1>4. /\ read \in Runs /\ read.seen = Intake!Seen /\ ~read.moved /\ read.who = run.who
      /\ read.at = run.at
  BY <1>2, <1>3, ReadingTyped DEF Runs
<1>5. \/ Intake!Step(r, [run EXCEPT !.at = "deliver", !.decided = [Intake!Held EXCEPT !.route = "parent"]])
      \/ Intake!Step(r, Intake!Decide(read, Intake!Recovery(Intake!Seen))) /\ run.who = "writer"
      \/ Intake!Step(r, [read EXCEPT !.at = "reason"]) /\ run.who = "writer" /\ item.open
      \/ Intake!Step(r, Intake!Idle)
  BY DEF Intake!Read, Intake!Routable, Intake!Permitted
<1>6. ASSUME NEW new \in Runs, Sound(new, item), Intake!Step(r, new) PROVE IntakeInv'
  <2>1. Sound(new, item')
    BY <1>1, <1>6
  <2> QED
    BY <1>1, <1>2, <1>6, <2>1, OneRunMoves DEF IntakeInv
<1>7. CASE Intake!Step(r, [run EXCEPT !.at = "deliver", !.decided = [Intake!Held EXCEPT !.route = "parent"]])
  <2> DEFINE parentDecided == [Intake!Held EXCEPT !.route = "parent"]
             new == [run EXCEPT !.at = "deliver", !.decided = parentDecided]
  <2>1. parentDecided \in Decisions /\ parentDecided.route = "parent"
    BY IdleSound DEF Decisions
  <2> HIDE DEF parentDecided
  <2>2. new \in Runs /\ new.at = "deliver" /\ new.decided = parentDecided
    BY <1>3, <2>1 DEF Runs
  <2>3. Sound(new, item)
    BY <2>1, <2>2 DEF Sound, Deciding
  <2> HIDE DEF new
  <2> QED
    BY <1>6, <1>7, <2>2, <2>3 DEF new, parentDecided
<1>8. CASE /\ Intake!Step(r, Intake!Decide(read, Intake!Recovery(Intake!Seen))) /\ run.who = "writer"
  <2> DEFINE p == Intake!Recovery(Intake!Seen)
  <2>1. /\ p.route \in Intake!Routes /\ p.type = item.type /\ p.adr \in BOOLEAN
        /\ p.stage \in Intake!Optional(Stages) /\ p.ready \in Intake!Optional(Readiness)
        /\ item.stage # "none" => p.stage = item.stage
        /\ Intake!Seen.type = item.type /\ Intake!Seen.stage = item.stage /\ Intake!Seen.ready = item.ready
        /\ item.type \in Intake!Optional(Types)
    BY <1>2, ReadingTyped DEF IssueTyped, Intake!Issue
  <2> HIDE DEF p, read
  <2>2. Intake!Decide(read, p) \in Runs /\ Sound(Intake!Decide(read, p), item)
    BY <1>4, <1>8, <2>1, DecideSound
  <2> QED
    BY <1>6, <1>8, <2>2 DEF p
<1>9. CASE /\ Intake!Step(r, [read EXCEPT !.at = "reason"]) /\ run.who = "writer" /\ item.open
  <2> DEFINE new == [read EXCEPT !.at = "reason"]
  <2> HIDE DEF read
  <2>1. /\ new \in Runs /\ new.at = "reason" /\ new.who = "writer" /\ new.seen = Intake!Seen
    BY <1>4, <1>9 DEF Runs, Deciding
  <2>2. Sound(new, item)
    BY <1>2, <1>9, <2>1, ReadingTyped DEF Sound
  <2> HIDE DEF new
  <2> QED
    BY <1>6, <1>9, <2>1, <2>2 DEF new
<1>10. CASE Intake!Step(r, Intake!Idle)
  BY <1>6, <1>10, IdleSound DEF Sound, Deciding
<1> QED
  BY <1>5, <1>7, <1>8, <1>9, <1>10

\* What the validation accepts of a proposal follows the lifecycle.
LEMMA ReasonSound ==
  ASSUME IntakeInv, NEW r \in Slots, Intake!Reason(r)
  PROVE  IntakeInv'
<1>1. UNCHANGED <<item, parent, stored, echoes, work, incidents, provisioned>> /\ runs[r].at = "reason"
  BY DEF Intake!Reason
<1>2. IssueTyped' /\ runs[r] \in Runs /\ Sound(runs[r], item)
  BY <1>1 DEF IntakeInv, IssueTyped
<1>3. PICK p \in Intake!Proposals :
        /\ Intake!Accepted(p, runs[r].seen, Intake!Trigger(runs[r].on))
        /\ Intake!Step(r, Intake!Decide(runs[r], p))
  BY DEF Intake!Reason
<1>4. /\ p.route \in Intake!Routes /\ p.type \in Intake!Optional(Types) /\ p.adr \in BOOLEAN
      /\ p.stage \in Intake!Optional(Stages) /\ p.ready \in Intake!Optional(Readiness)
  BY <1>3 DEF Intake!Proposals, Intake!Optional
<1>5. /\ runs[r].seen.type # "none" => p.type = runs[r].seen.type
      /\ runs[r].seen.stage \notin {"none", p.stage} => p.stage \in Intake!Transitions[runs[r].seen.stage]
  BY <1>3 DEF Intake!Accepted, Intake!Legal
<1>6. Intake!Decide(runs[r], p) \in Runs /\ Sound(Intake!Decide(runs[r], p), item)
  BY <1>1, <1>2, <1>4, <1>5, DecideSound DEF Sound, Deciding
<1>7. Sound(Intake!Decide(runs[r], p), item')
  BY <1>1, <1>6
<1> QED
  BY <1>1, <1>2, <1>3, <1>6, <1>7, OneRunMoves DEF IntakeInv
\* What happens is counted up to the bound.
LEMMA Counted ==
  ASSUME Intake!CatalogueAssumption, IssueTyped, Intake!Happens
  PROVE  incidents' \in 0..MaxIncidents
BY DEF Intake!CatalogueAssumption, IssueTyped, Intake!Happens

Changes ==
  /\ "state" \notin work'.changed => item'.open = item.open /\ "state" \notin work.changed
  /\ "fields" \notin work'.changed => provisioned' = provisioned /\ "fields" \notin work.changed
  /\ "metadata" \notin work'.changed =>
       /\ item'.type = item.type /\ item'.stage = item.stage /\ item'.ready = item.ready
       /\ item'.adr = item.adr /\ item'.form = item.form /\ "metadata" \notin work.changed

\* What others change is marked on a delivery that works, and nothing else of it changes.
LEMMA Marked ==
  ASSUME IssueTyped, Intake!Unnoticed
  PROVE  /\ work' \in Intake!Work /\ work'.at = work.at /\ work'.phase = work.phase
         /\ work'.to = work.to /\ work'.target = work.target
         /\ work.at # "none" => Changes
<1> DEFINE facets == {"state", "fields", "metadata"}
           diff == {f \in DOMAIN Intake!View : Intake!View[f]' # Intake!View[f]}
           seen == <<item.type, item.stage, item.ready, item.adr, item.form>>
<1>1. /\ DOMAIN Intake!View = facets /\ Intake!View["state"] = item.open
      /\ Intake!View["fields"] = provisioned /\ Intake!View["metadata"] = seen
  BY DEF Intake!View
<1>2. /\ Intake!View["state"]' = item'.open /\ Intake!View["fields"]' = provisioned'
      /\ Intake!View["metadata"]' = seen'
  BY DEF Intake!View
<1>3. /\ diff \in SUBSET facets /\ ("state" \notin diff => item'.open = item.open)
      /\ ("fields" \notin diff => provisioned' = provisioned) /\ ("metadata" \notin diff => seen' = seen)
  BY <1>1, <1>2
<1>4. seen' = seen => /\ item'.type = item.type /\ item'.stage = item.stage /\ item'.ready = item.ready
                      /\ item'.adr = item.adr /\ item'.form = item.form
  OBVIOUS
<1>5. work' = IF work.at = "none" THEN work ELSE [work EXCEPT !.changed = @ \union diff]
  BY DEF Intake!Unnoticed
<1> HIDE DEF diff, seen
<1>6. work \in Intake!Work
  BY DEF IssueTyped
<1>7. CASE work.at = "none"
  BY <1>5, <1>6, <1>7
<1>8. CASE work.at # "none"
  <2>1. work' = [work EXCEPT !.changed = work.changed \union diff]
    BY <1>5, <1>8
  <2>2. /\ work' \in Intake!Work /\ work'.at = work.at /\ work'.phase = work.phase
        /\ work'.to = work.to /\ work'.target = work.target /\ work'.changed = work.changed \union diff
    BY <1>3, <1>6, <2>1 DEF Intake!Work
  <2>3. "state" \notin work'.changed => item'.open = item.open /\ "state" \notin work.changed
    BY <1>3, <2>2
  <2>4. "fields" \notin work'.changed => provisioned' = provisioned /\ "fields" \notin work.changed
    BY <1>3, <2>2
  <2> QED
    BY <1>3, <1>4, <2>2, <2>3, <2>4 DEF Changes
<1> QED
  BY <1>7, <1>8

\* A run that starts or ends has decided nothing that could be unsound.
LEMMA RestingSound ==
  ASSUME NEW run, run.at \notin Deciding, run.at # "deliver", NEW issue
  PROVE  Sound(run, issue)
BY DEF Sound, Deciding

\* The writes are of the decision; another run that works notices.
LEMMA WriteSound ==
  ASSUME IntakeInv, NEW r \in Slots, Intake!WriteType(r) \/ Intake!WriteFields(r)
  PROVE  IntakeInv'
<1> DEFINE run == runs[r]
<1>1. /\ run \in Runs /\ Sound(run, item) /\ run.decided \in Decisions /\ item \in Intake!Issue
      /\ UNCHANGED <<parent, stored, incidents, provisioned>> /\ Intake!Unnoticed
  BY DEF IntakeInv, IssueTyped, Runs, Intake!WriteType, Intake!WriteFields
<1>2. CASE Intake!WriteType(r)
  <2> DEFINE new == [run EXCEPT !.at = "fields"]
  <2>1. /\ run.at = "type" /\ item' = [item EXCEPT !.type = run.decided.type]
        /\ \/ Intake!Step(r, new) /\ item' = item /\ UNCHANGED echoes
           \/ runs' = Intake!Others(r, new) /\ echoes' = echoes + 1
    BY <1>2 DEF Intake!WriteType
  <2>2. /\ item' \in Intake!Issue /\ item'.type = run.decided.type
        /\ item'.stage = item.stage /\ item'.ready = item.ready
    BY <1>1, <2>1 DEF Intake!Issue, Decisions
  <2>3. /\ new \in Runs /\ new.at = "fields" /\ new.who = run.who /\ new.moved = run.moved
        /\ new.seen = run.seen /\ new.decided = run.decided
    BY <1>1 DEF Runs, Deciding
  <2>4. Sound(new, item')
    BY <1>1, <2>1, <2>2, <2>3 DEF Sound, Deciding
  <2> HIDE DEF new
  <2>5. runs' \in [Slots -> Runs] /\ \A s \in Slots : Sound(runs'[s], item')
    BY <2>1, <2>3, <2>4, OneRunMoves
  <2>6. echoes' \in Nat
    BY <2>1 DEF IntakeInv, IssueTyped
  <2> QED
    BY <1>1, <2>2, <2>5, <2>6, Marked DEF IntakeInv, IssueTyped
<1>3. CASE Intake!WriteFields(r)
  <2> DEFINE goes == run.decided.route # "hold" /\ ~(run.quiet \/ run.decided.refused)
             decided == [Intake!Held EXCEPT !.route = run.decided.route]
             new == IF goes THEN [run EXCEPT !.at = "deliver", !.seen = Intake!Unread, !.moved = FALSE,
                                             !.decided = decided] ELSE Intake!Idle
  <2>1. /\ UNCHANGED echoes
        /\ \/ item' = item
           \/ \E stage \in {item.stage, run.decided.stage}, ready \in {item.ready, run.decided.ready} :
                item' = [item EXCEPT !.stage = stage, !.ready = ready]
    BY <1>3 DEF Intake!WriteFields, Intake!Reconciled
  <2>2. \/ Intake!Step(r, new) /\ item' = item
        \/ runs' = Intake!Others(r, new)
    BY <1>3 DEF Intake!WriteFields, Intake!Step
  <2>3. item' \in Intake!Issue
    BY <1>1, <2>1 DEF Intake!Issue, Decisions
  <2>4. decided \in Decisions /\ decided.route = run.decided.route
    BY <1>1, IdleSound DEF Decisions
  <2> HIDE DEF decided
  <2>5. new \in Runs /\ Sound(new, item')
    <3>1. CASE goes
      <4>1. new \in Runs /\ new.at = "deliver" /\ new.decided = decided
        BY <1>1, <2>4, <3>1, IdleSound DEF Runs
      <4> QED
        BY <2>4, <3>1, <4>1 DEF Sound, Deciding
    <3>2. CASE ~goes
      BY <3>2, IdleSound, RestingSound DEF Deciding
    <3> QED
      BY <3>1, <3>2
  <2> HIDE DEF new
  <2>6. runs' \in [Slots -> Runs] /\ \A s \in Slots : Sound(runs'[s], item')
    BY <2>2, <2>5, OneRunMoves
  <2> QED
    BY <1>1, <2>1, <2>3, <2>6, Marked DEF IntakeInv, IssueTyped
<1> QED
  BY <1>2, <1>3

\* A person who asks changes type, form or state of the issue; the App's echo nothing.
LEMMA StartSound ==
  ASSUME Intake!CatalogueAssumption, IntakeInv, NEW r \in Slots, Intake!Ask(r) \/ Intake!Echo(r)
  PROVE  IntakeInv'
<1>1. CASE Intake!Ask(r)
  <2>1. UNCHANGED <<parent, stored, echoes, provisioned>> /\ Intake!Happens /\ Intake!Unnoticed
    BY <1>1 DEF Intake!Ask
  <2>2. PICK on \in {"issue", "comment", "manual", "forced"}, shadow, asked \in BOOLEAN :
          LET new == [Intake!Idle EXCEPT !.at = "read", !.who = "writer", !.on = on,
                                         !.quiet = Intake!ReadOnly(on, shadow, asked)]
          IN  \/ item' = item /\ Intake!Step(r, new)
              \/ /\ \/ \E b \in BOOLEAN : item' = [item EXCEPT !.open = b]
                    \/ \E b \in BOOLEAN : item' = [item EXCEPT !.form = b]
                    \/ \E t \in Intake!Optional(Types) : item' = [item EXCEPT !.type = t]
                 /\ on = "issue" /\ item' # item /\ runs' = Intake!Others(r, new)
    BY <1>1 DEF Intake!Ask
  <2> DEFINE quiet == Intake!ReadOnly(on, shadow, asked)
             new == [Intake!Idle EXCEPT !.at = "read", !.who = "writer", !.on = on, !.quiet = quiet]
  <2>3. quiet \in BOOLEAN
    BY DEF Intake!ReadOnly
  <2>4. /\ \/ Intake!Step(r, new) /\ item' = item
           \/ runs' = Intake!Others(r, new)
        /\ \/ item' = item
           \/ \E b \in BOOLEAN : item' = [item EXCEPT !.open = b] \/ item' = [item EXCEPT !.form = b]
           \/ \E t \in Intake!Optional(Types) : item' = [item EXCEPT !.type = t]
    BY <2>2
  <2> HIDE DEF quiet
  <2>5. new \in Runs /\ new.at = "read"
    BY <2>3, IdleSound DEF Runs
  <2> HIDE DEF new
  <2>6. Sound(new, item')
    BY <2>5, RestingSound DEF Deciding
  <2>7. runs' \in [Slots -> Runs] /\ \A s \in Slots : Sound(runs'[s], item')
    BY <2>4, <2>5, <2>6, OneRunMoves
  <2>8. item' \in Intake!Issue
    BY <2>4 DEF IntakeInv, IssueTyped, Intake!Issue
  <2>9. incidents' \in 0..MaxIncidents
    BY <2>1, Counted DEF IntakeInv
  <2> QED
    BY <2>1, <2>7, <2>8, <2>9, Marked DEF IntakeInv, IssueTyped
<1>2. CASE Intake!Echo(r)
  <2> DEFINE new == [Intake!Idle EXCEPT !.at = "read", !.who = "app", !.on = "issue"]
  <2>1. /\ Intake!Step(r, new) /\ echoes > 0 /\ echoes' = echoes - 1
        /\ UNCHANGED <<item, parent, stored, work, incidents, provisioned>>
    BY <1>2 DEF Intake!Echo
  <2>2. new \in Runs /\ new.at = "read"
    BY IdleSound DEF Runs
  <2> HIDE DEF new
  <2>3. Sound(new, item')
    BY <2>2, RestingSound DEF Deciding
  <2>4. runs' \in [Slots -> Runs] /\ \A s \in Slots : Sound(runs'[s], item')
    BY <2>1, <2>2, <2>3, OneRunMoves
  <2>5. echoes' \in Nat
    BY <2>1 DEF IntakeInv, IssueTyped
  <2> QED
    BY <2>1, <2>4, <2>5 DEF IntakeInv, IssueTyped
<1> QED
  BY <1>1, <1>2

LEMMA NoWorkTyped == Intake!NoWork \in Intake!Work /\ Intake!NoWork.at = "none" /\ Intake!NoWork.changed = {}
BY DEF Intake!NoWork, Intake!Nowhere, Intake!Work, Intake!Optional

\* A run that ends, by failing or by handing over, leaves at most an admitted delivery.
LEMMA EndSound ==
  ASSUME Intake!CatalogueAssumption, IntakeInv, NEW r \in Slots, Intake!Fail(r) \/ Intake!Deliver(r)
  PROVE  IntakeInv'
<1>1. /\ Intake!Step(r, Intake!Idle) /\ UNCHANGED <<item, parent, stored, echoes, provisioned>>
  BY DEF Intake!Fail, Intake!Deliver, Intake!End
<1>2. Sound(Intake!Idle, item')
  BY IdleSound, RestingSound DEF Deciding
<1>3. runs' \in [Slots -> Runs] /\ \A s \in Slots : Sound(runs'[s], item')
  BY <1>1, <1>2, IdleSound, OneRunMoves
<1>4. incidents' \in 0..MaxIncidents
  <2>1. UNCHANGED incidents \/ Intake!Happens
    BY DEF Intake!Fail, Intake!Deliver
  <2> QED
    BY <2>1, Counted DEF IntakeInv, IssueTyped
<1>5. work' \in Intake!Work /\ (work'.at = "moving" => work'.to # "none")
  <2>1. CASE UNCHANGED work
    BY <2>1 DEF IntakeInv, IssueTyped
  <2>2. CASE Intake!Deliver(r)
    <3> DEFINE route == runs[r].decided.route
    <3>1. \/ work' = work
          \/ work' = [Intake!NoWork EXCEPT !.at = "elsewhere"]
          \/ \E at \in {"selected", "admitted", "elsewhere"}, phase \in {"none", "plan", "implement"}, resumed \in BOOLEAN :
               work' = [Intake!NoWork EXCEPT !.at = at, !.phase = phase, !.resumed = resumed]
      BY <2>2 DEF Intake!Deliver
    <3>2. work \in Intake!Work /\ (work.at = "moving" => work.to # "none")
      BY DEF IntakeInv, IssueTyped
    <3>3. CASE work' = [Intake!NoWork EXCEPT !.at = "elsewhere"]
      BY <3>3, NoWorkTyped DEF Intake!Work
    <3>4. CASE \E at \in {"selected", "admitted", "elsewhere"}, phase \in {"none", "plan", "implement"}, resumed \in BOOLEAN :
                 work' = [Intake!NoWork EXCEPT !.at = at, !.phase = phase, !.resumed = resumed]
      BY <3>4, NoWorkTyped DEF Intake!Work
    <3> QED
      BY <3>1, <3>2, <3>3, <3>4
  <2> QED
    BY <2>1, <2>2 DEF Intake!Fail
<1> QED
  BY <1>1, <1>3, <1>4, <1>5 DEF IntakeInv, IssueTyped

\* What people change, the runs notice; a comment tells no run that decides anything.
LEMMA ElseSound ==
  ASSUME Intake!CatalogueAssumption, IntakeInv,
         Intake!Edit \/ Intake!Provision \/ Intake!Comment
  PROVE  IntakeInv'
<1>1. CASE Intake!Edit
  <2>1. /\ UNCHANGED <<stored, echoes, provisioned>> /\ incidents' \in 0..MaxIncidents
        /\ work' \in Intake!Work /\ (work'.at = "moving" => work'.to # "none")
    BY <1>1, Counted, Marked DEF Intake!Edit, IntakeInv, IssueTyped
  <2>2. CASE /\ \/ \E b \in BOOLEAN : item' = [item EXCEPT !.adr = b]
                \/ \E v \in Readiness : item' = [item EXCEPT !.ready = v]
                \/ \E v \in Stages : item' = [item EXCEPT !.stage = v]
             /\ runs' = [s \in Slots |-> [runs[s] EXCEPT !.moved = Intake!Working(s)]] /\ UNCHANGED parent
    <3>1. item' \in Intake!Issue
      BY <2>2 DEF IntakeInv, IssueTyped, Intake!Issue, Intake!Optional
    <3> QED
      BY <2>1, <2>2, <3>1, AllRunsMoved DEF IntakeInv, IssueTyped
  <2>3. CASE parent' \in {"elsewhere", "acceptance"} \ {parent} /\ UNCHANGED <<item, runs>>
    BY <2>1, <2>3 DEF IntakeInv, IssueTyped
  <2> QED
    BY <1>1, <2>2, <2>3 DEF Intake!Edit
<1>2. CASE Intake!Provision
  <2>1. /\ UNCHANGED <<item, parent, stored, runs, echoes>>
        /\ provisioned' \in BOOLEAN /\ incidents' \in 0..MaxIncidents
        /\ work' \in Intake!Work /\ (work'.at = "moving" => work'.to # "none")
    BY <1>2, Counted, Marked DEF Intake!Provision, IntakeInv, IssueTyped
  <2> QED
    BY <2>1 DEF IntakeInv, IssueTyped
<1>3. CASE Intake!Comment
  <2>1. /\ UNCHANGED <<item, parent, stored, echoes, work, provisioned>> /\ incidents' \in 0..MaxIncidents
        /\ runs' = [s \in Slots |-> [runs[s] EXCEPT !.late = runs[s].on = "comment" /\ runs[s].at = "read"]]
    BY <1>3, Counted DEF Intake!Comment, IntakeInv
  <2>2. ASSUME NEW s \in Slots PROVE runs'[s] \in Runs /\ Sound(runs'[s], item')
    <3> DEFINE late == runs[s].on = "comment" /\ runs[s].at = "read"
    <3>1. late \in BOOLEAN /\ runs[s] \in Runs /\ Sound(runs[s], item)
      BY DEF IntakeInv
    <3>2. runs'[s] = [runs[s] EXCEPT !.late = late]
      BY <2>1
    <3> HIDE DEF late
    <3>3. /\ runs'[s] \in Runs /\ runs'[s].at = runs[s].at /\ runs'[s].who = runs[s].who
          /\ runs'[s].quiet = runs[s].quiet /\ runs'[s].moved = runs[s].moved
          /\ runs'[s].seen = runs[s].seen /\ runs'[s].decided = runs[s].decided
      BY <3>1, <3>2 DEF Runs
    <3> QED
      BY <2>1, <3>1, <3>3 DEF Sound
  <2>3. runs' = [s \in Slots |-> runs'[s]]
    BY <2>1
  <2>4. runs' \in [Slots -> Runs]
    BY <2>2, <2>3
  <2> QED
    BY <2>1, <2>2, <2>4 DEF IntakeInv, IssueTyped
<1> QED
  BY <1>1, <1>2, <1>3

Delivers ==
  \/ Intake!AdmitPlan \/ Intake!Brief \/ Intake!Check \/ Intake!Write \/ Intake!Observe
  \/ Intake!Bind \/ Intake!Turn \/ Intake!Outcome \/ Intake!Stop

\* Where a delivery moves the issue is in the catalogue.
LEMMA TargetTyped ==
  ASSUME Intake!CatalogueAssumption, IssueTyped, work.at = "moving"
  PROVE  /\ Intake!Target(work.to) \in [stage : Intake!Optional(Stages), ready : Intake!Optional(Readiness)]
         /\ work.to = "in-progress" => Intake!Target(work.to).stage = "execution"
<1>1. work.to \in {"needs-info", "ready-for-plan", "ready-for-agent", "in-progress"} /\ item \in Intake!Issue
  BY DEF IssueTyped, Intake!Work
<1>2. /\ {"planning", "execution"} \subseteq Intake!Optional(Stages)
      /\ {"ready", "needs-info", "working"} \subseteq Intake!Optional(Readiness)
  BY DEF Intake!Optional, Intake!CatalogueAssumption
<1>3. CASE work.to = "needs-info"
  BY <1>1, <1>2, <1>3 DEF Intake!Target, Intake!Issue
<1>4. CASE work.to = "ready-for-plan"
  BY <1>1, <1>2, <1>4 DEF Intake!Target
<1>5. CASE work.to = "ready-for-agent"
  BY <1>1, <1>2, <1>5 DEF Intake!Target
<1>6. CASE work.to = "in-progress"
  BY <1>1, <1>2, <1>6 DEF Intake!Target
<1> QED
  BY <1>1, <1>3, <1>4, <1>5, <1>6

\* A delivery stays typed, and so does what it writes, which the runs notice.
LEMMA DeliverySound ==
  ASSUME Intake!CatalogueAssumption, IntakeInv, Delivers
  PROVE  IntakeInv'
<1>1. work \in Intake!Work /\ item \in Intake!Issue /\ stored \in Saved
      /\ (work.at = "moving" => work.to # "none")
  BY DEF IntakeInv, IssueTyped
<1>2. UNCHANGED <<parent, echoes, incidents, provisioned>>
  BY DEF Delivers, Intake!AdmitPlan, Intake!Brief, Intake!Check, Intake!Write, Intake!Observe, Intake!Bind,
     Intake!Turn, Intake!Outcome, Intake!Stop, Intake!Move, Intake!Goes
<1>3. Intake!Rebound \in SUBSET {"state", "fields", "metadata"}
  BY <1>1 DEF Intake!Rebound, Intake!Work
<1>4. ASSUME NEW to \in {"needs-info", "ready-for-plan", "ready-for-agent", "in-progress"}, NEW from,
             Intake!Move(to, from)
      PROVE  work' \in Intake!Work /\ work'.to # "none"
  BY <1>1, <1>4 DEF Intake!Move, Intake!Goes, Intake!Work
<1>5. stored' \in Saved
  BY <1>1 DEF Saved, Delivers, Intake!AdmitPlan, Intake!Brief, Intake!Check, Intake!Write, Intake!Observe,
     Intake!Bind, Intake!Turn, Intake!Outcome, Intake!Stop
<1>6. /\ item' \in Intake!Issue
      /\ UNCHANGED <<item, runs>> \/ runs' = [s \in Slots |-> [runs[s] EXCEPT !.moved = Intake!Working(s)]]
  <2>1. CASE Intake!Write
    <3>1. \E stage \in {item.stage, work.target.stage}, ready \in {item.ready, work.target.ready} :
            item' = [item EXCEPT !.stage = stage, !.ready = ready]
      BY <2>1 DEF Intake!Write
    <3>2. work.target.stage \in Intake!Optional(Stages) /\ work.target.ready \in Intake!Optional(Readiness)
      BY <1>1 DEF Intake!Work
    <3>3. item' \in Intake!Issue
      BY <1>1, <3>1, <3>2 DEF Intake!Issue
    <3> QED
      BY <2>1, <3>3 DEF Intake!Write
  <2>2. CASE ~Intake!Write
    BY <1>1, <2>2 DEF Delivers, Intake!AdmitPlan, Intake!Brief, Intake!Check, Intake!Observe, Intake!Bind,
       Intake!Turn, Intake!Outcome, Intake!Stop
  <2> QED
    BY <2>1, <2>2
<1>7. work' \in Intake!Work /\ (work'.at = "moving" => work'.to # "none")
  <2>1. CASE Intake!AdmitPlan
    BY <1>1, <2>1 DEF Intake!AdmitPlan, Intake!Goes, Intake!Work
  <2>2. CASE Intake!Brief
    <3>1. \/ work' = [work EXCEPT !.at = "ready", !.changed = Intake!Rebound]
          \/ Intake!Move("in-progress", "admitted") \/ Intake!Move("ready-for-plan", "admitted")
      BY <2>2 DEF Intake!Brief, Intake!Goes
    <3> QED
      BY <1>1, <1>3, <1>4, <3>1 DEF Intake!Work
  <2>3. CASE Intake!Check
    <3> DEFINE target == Intake!Target(work.to)
               want == {f \in DOMAIN target : item[f] # target[f]}
    <3>1. \E at \in {"moved", "writing"} :
            work' = [work EXCEPT !.at = at, !.target = target, !.want = want, !.changed = {}]
      BY <2>3 DEF Intake!Check, Intake!Goes
    <3>2. work.at = "moving"
      BY <2>3 DEF Intake!Check
    <3>3. target \in [stage : Intake!Optional(Stages), ready : Intake!Optional(Readiness)]
      BY <3>2, TargetTyped DEF IntakeInv
    <3> HIDE DEF target
    <3>4. want \in SUBSET {"stage", "ready"}
      BY <3>3
    <3> HIDE DEF want
    <3> QED
      BY <1>1, <3>1, <3>3, <3>4 DEF Intake!Work
  <2>4. CASE Intake!Write
    BY <1>1, <1>3, <2>4 DEF Intake!Write, Intake!Goes, Intake!Work
  <2>5. CASE Intake!Observe
    <3>1. /\ Intake!Moved \in Intake!Work /\ Intake!Moved.at = "ready"
          /\ [Intake!Moved EXCEPT !.at = "moving", !.phase = "implement", !.to = "in-progress"] \in Intake!Work
          /\ [Intake!Moved EXCEPT !.at = "moving", !.phase = "implement", !.to = "in-progress"].to = "in-progress"
      BY <1>1 DEF Intake!Moved, Intake!Nowhere, Intake!Work, Intake!Optional
    <3> QED
      BY <2>5, <3>1, NoWorkTyped DEF Intake!Observe, Intake!Goes
  <2>6. CASE Intake!Bind \/ Intake!Turn
    BY <1>1, <1>3, <2>6 DEF Intake!Bind, Intake!Turn, Intake!Goes, Intake!Work
  <2>7. CASE Intake!Outcome
    BY <1>4, <2>7, NoWorkTyped DEF Intake!Outcome, Intake!Goes
  <2>8. CASE Intake!Stop
    BY <2>8, NoWorkTyped DEF Intake!Stop, Intake!Goes
  <2> QED
    BY <2>1, <2>2, <2>3, <2>4, <2>5, <2>6, <2>7, <2>8 DEF Delivers
<1>8. IssueTyped'
  BY <1>2, <1>5, <1>6, <1>7 DEF IntakeInv, IssueTyped
<1> QED
  BY <1>6, <1>8, AllRunsMoved DEF IntakeInv

\* Every issue as it was opened, or waits, is of the catalogue.
LEMMA OpenedTyped ==
  ASSUME Intake!CatalogueAssumption, NEW t \in Intake!Optional(Types), NEW adr \in BOOLEAN
  PROVE  Intake!Opened(t, adr) \in Intake!Issue
<1> DEFINE first == Intake!Initial(t)
<1>1. first.stage \in Intake!Optional(Stages) /\ first.ready \in Intake!Optional(Readiness)
  <2>1. CASE t \in Types
    BY <2>1 DEF Intake!CatalogueAssumption, Intake!Optional
  <2>2. CASE t = "none"
    BY <2>2 DEF Intake!Initial, Intake!Optional
  <2> QED
    BY <2>1, <2>2 DEF Intake!Optional
<1> HIDE DEF first
<1> QED
  BY <1>1 DEF Intake!Opened, Intake!Issue, first

LEMMA IntakeStarts == ASSUME Intake!CatalogueAssumption, Intake!Init PROVE IntakeInv
<1>1. item \in Intake!Issue /\ stored \in Saved
  <2> USE DEF Saved
  <2>1. CASE stored = "none" /\ item \in {Intake!Opened(t, adr) : t \in Intake!Optional(Types), adr \in BOOLEAN}
    BY <2>1, OpenedTyped
  <2>2. ASSUME NEW t \in Types, NEW stage \in Stages, NEW ready \in Readiness,
               item = Intake!Waiting(t, stage, ready)
        PROVE  item \in Intake!Issue
    <3>1. Intake!Opened(t, FALSE) \in Intake!Issue
      BY OpenedTyped DEF Intake!Optional
    <3> QED
      BY <2>2, <3>1 DEF Intake!Waiting, Intake!Issue, Intake!Optional
  <2>3. CASE \E t \in Types \intersect Intake!DeliveryTypes :
               \/ stored = "planning" /\ item = Intake!Waiting(t, "planning", "needs-info")
               \/ stored = "valid" /\ item = Intake!Waiting(t, "execution", "ready")
               \/ stored = "stale" /\ item = Intake!Waiting(t, "planning", "ready")
    BY <2>2, <2>3 DEF Intake!CatalogueAssumption
  <2> QED
    BY <2>1, <2>3 DEF Intake!Init
<1>2. IssueTyped
  BY <1>1, NoWorkTyped DEF Intake!Init, IssueTyped, Intake!CatalogueAssumption
<1>3. runs = [r \in Slots |-> Intake!Idle]
  BY DEF Intake!Init
<1> QED
  BY <1>2, <1>3, IdleSound, RestingSound DEF IntakeInv, Deciding

LEMMA IntakeSteps == ASSUME Intake!CatalogueAssumption, IntakeInv, [Intake!Next]_Intake!vars PROVE IntakeInv'
<1>1. CASE Intake!Edit \/ Intake!Provision \/ Intake!Comment
  BY <1>1, ElseSound
<1>2. ASSUME NEW r \in Slots,
             \/ Intake!Ask(r) \/ Intake!Echo(r) \/ Intake!Read(r) \/ Intake!Reason(r) \/ Intake!WriteType(r)
             \/ Intake!WriteFields(r) \/ Intake!Fail(r) \/ Intake!Deliver(r)
      PROVE  IntakeInv'
  BY <1>2, StartSound, ReadSound, ReasonSound, WriteSound, EndSound
<1>3. CASE Delivers
  BY <1>3, DeliverySound
<1>4. CASE UNCHANGED Intake!vars
  BY <1>4 DEF Intake!vars, IntakeInv, IssueTyped
<1> QED
  BY <1>1, <1>2, <1>3, <1>4 DEF Intake!Next, Delivers

\* The inductive invariant: what runs know of the issue holds in every state, whatever
\* people, the delivery and other runs do between a run's reading and its writes.
THEOREM IntakeInvariant == ASSUME Intake!CatalogueAssumption PROVE Intake!Spec => []IntakeInv
<1>1. Intake!Init => IntakeInv
  BY IntakeStarts
<1>2. IntakeInv /\ [Intake!Next]_Intake!vars => IntakeInv'
  BY IntakeSteps
<1> QED
  BY <1>1, <1>2, PTL DEF Intake!Spec

\* Every reachable state of the intake has its types: the issue's type, stage and
\* readiness stay in the catalogue, and a model turn is about an issue read open.
THEOREM IntakeTypeCorrect ==
  ASSUME Intake!CatalogueAssumption PROVE Intake!Spec => []Intake!TypeOK
<1>1. IntakeInv => Intake!TypeOK
  <2>1. SUFFICES ASSUME IntakeInv PROVE Intake!TypeOK
    OBVIOUS
  <2>2. ASSUME NEW r \in Slots
        PROVE  /\ runs[r].at \in {"idle", "read", "reason", "type", "fields", "deliver"}
               /\ runs[r].who \in {"nobody", "writer", "app"} /\ runs[r].decided \in Decisions
               /\ runs[r].at = "reason" => runs[r].seen.open
    BY <2>1 DEF IntakeInv, Runs, Deciding, Sound
  <2> QED
    BY <2>1, <2>2 DEF IntakeInv, IssueTyped, Saved, Intake!TypeOK, Decisions
<1>2. Intake!Spec => []IntakeInv
  BY IntakeInvariant
<1> QED
  BY <1>1, <1>2, PTL

-----------------------------------------------------------------------------
\* A run changes its step itself: nobody else starts it, carries it on or ends it.
LEMMA OwnAction ==
  ASSUME IntakeInv, Intake!Next, NEW r \in Slots, runs'[r].at # runs[r].at
  PROVE  \/ Intake!Ask(r) \/ Intake!Echo(r) \/ Intake!Read(r) \/ Intake!Reason(r)
         \/ Intake!WriteType(r) \/ Intake!WriteFields(r) \/ Intake!Fail(r) \/ Intake!Deliver(r)
<1>1. ASSUME NEW s \in Slots PROVE runs[s] \in Runs
  BY DEF IntakeInv
<1>2. ASSUME runs' = [s \in Slots |-> [runs[s] EXCEPT !.moved = Intake!Working(s)]] PROVE FALSE
  BY <1>1, <1>2 DEF Runs
<1>3. ASSUME NEW s \in Slots, s # r, NEW new, Intake!Step(s, new) \/ runs' = Intake!Others(s, new) PROVE FALSE
  BY <1>1, <1>3 DEF Intake!Step, Intake!Others, IntakeInv, Runs
<1>4. ~Intake!Edit /\ ~Intake!Provision /\ ~Delivers
  BY <1>2 DEF Intake!Edit, Intake!Provision, Delivers, Intake!AdmitPlan, Intake!Brief, Intake!Check, Intake!Write,
     Intake!Observe, Intake!Bind, Intake!Turn, Intake!Outcome, Intake!Stop
<1>5. ~Intake!Comment
  <2>1. SUFFICES ASSUME Intake!Comment PROVE FALSE
    OBVIOUS
  <2> DEFINE late == runs[r].on = "comment" /\ runs[r].at = "read"
  <2>2. runs'[r] = [runs[r] EXCEPT !.late = late]
    BY <2>1 DEF Intake!Comment
  <2> HIDE DEF late
  <2> QED
    BY <1>1, <2>2 DEF Runs
<1>6. ASSUME NEW s \in Slots, s # r
      PROVE  /\ ~Intake!Ask(s) /\ ~Intake!Echo(s) /\ ~Intake!Read(s) /\ ~Intake!Reason(s)
             /\ ~Intake!WriteType(s) /\ ~Intake!WriteFields(s) /\ ~Intake!Fail(s) /\ ~Intake!Deliver(s)
  <2>1. ~Intake!Ask(s) /\ ~Intake!Echo(s)
    BY <1>3, <1>6 DEF Intake!Ask, Intake!Echo
  <2>2. ~Intake!Read(s) /\ ~Intake!Reason(s)
    BY <1>3, <1>6 DEF Intake!Read, Intake!Reason
  <2>3. ~Intake!WriteType(s)
    BY <1>3, <1>6 DEF Intake!WriteType
  <2>4. ~Intake!WriteFields(s)
    BY <1>3, <1>6 DEF Intake!WriteFields, Intake!Step
  <2>5. ~Intake!Fail(s) /\ ~Intake!Deliver(s)
    BY <1>3, <1>6 DEF Intake!Fail, Intake!Deliver, Intake!End
  <2> QED
    BY <2>1, <2>2, <2>3, <2>4, <2>5
<1> QED
  BY <1>4, <1>5, <1>6 DEF Intake!Next, Delivers

\* A run whose issue nobody else touched since it was read leaves exactly the type, stage
\* and readiness it decided, along the lifecycle: reconcileFields() writes only the
\* fields that differ from the reading, the type is written before, and neither may be
\* left at a value of the reading that no longer is the issue's.
THEOREM IntakeWritesAsDecided ==
  ASSUME Intake!CatalogueAssumption PROVE Intake!Spec => Intake!WritesAsDecided
<1> DEFINE written(r) ==
             Intake!WritesFields(r) /\ ~runs[r].moved /\ ~runs[r].quiet /\ ~runs[r].decided.refused =>
               /\ <<item'.type, item'.stage, item'.ready>>
                    = <<runs[r].decided.type, runs[r].decided.stage, runs[r].decided.ready>>
               /\ item.stage \notin {"none", item'.stage} => item'.stage \in Intake!Transitions[item.stage]
<1>1. ASSUME IntakeInv, Intake!Next, NEW r \in Slots PROVE written(r)
  <2>1. SUFFICES ASSUME Intake!WritesFields(r), ~runs[r].moved, ~runs[r].quiet, ~runs[r].decided.refused
                 PROVE  /\ <<item'.type, item'.stage, item'.ready>>
                             = <<runs[r].decided.type, runs[r].decided.stage, runs[r].decided.ready>>
                        /\ item.stage \notin {"none", item'.stage} =>
                             item'.stage \in Intake!Transitions[item.stage]
    OBVIOUS
  <2>2. runs[r].at = "fields" /\ runs'[r].at # runs[r].at /\ incidents' = incidents
    BY <2>1 DEF Intake!WritesFields
  <2>3. incidents \in Int /\ runs[r] \in Runs /\ Sound(runs[r], item) /\ item \in Intake!Issue
    BY <1>1 DEF IntakeInv, IssueTyped
  <2>4. Intake!WriteFields(r)
    <3>1. ~Intake!Happens
      BY <2>2, <2>3 DEF Intake!Happens
    <3>2. Intake!Working(r)
      BY <2>2 DEF Intake!Working
    <3> QED
      BY <1>1, <2>2, <3>1, <3>2, OwnAction DEF Intake!Ask, Intake!Echo, Intake!Read, Intake!Reason,
         Intake!WriteType, Intake!Fail, Intake!Deliver
  <2>5. item' = [item EXCEPT !.stage = IF runs[r].decided.stage = runs[r].seen.stage
                                       THEN item.stage ELSE runs[r].decided.stage,
                             !.ready = IF runs[r].decided.ready = runs[r].seen.ready
                                       THEN item.ready ELSE runs[r].decided.ready]
    BY <2>1, <2>4 DEF Intake!WriteFields, Intake!Reconciled
  <2>6. /\ item'.type = runs[r].decided.type /\ item'.stage = runs[r].decided.stage
        /\ item'.ready = runs[r].decided.ready /\ item.stage = runs[r].seen.stage
    BY <2>1, <2>2, <2>3, <2>5 DEF Sound, Deciding, Intake!Issue
  <2> QED
    BY <2>1, <2>2, <2>3, <2>6 DEF Sound
<1>2. ASSUME UNCHANGED Intake!vars, NEW r \in Slots PROVE written(r)
  BY <1>2 DEF Intake!vars, Intake!WritesFields
<1>3. IntakeInv /\ [Intake!Next]_Intake!vars => [\A r \in Slots : written(r)]_Intake!vars
  BY <1>1
<1>4. Intake!Spec => []IntakeInv
  BY IntakeInvariant
<1> QED
  BY <1>3, <1>4, PTL DEF Intake!Spec, Intake!WritesAsDecided

\* What the App itself writes starts a run that changes nothing and delivers nothing:
\* authorizeIssueEvent() lets it in, and neither a decision nor a delivery is reached
\* but by a writer's run.
THEOREM IntakeOnlyWritersAct ==
  ASSUME Intake!CatalogueAssumption PROVE Intake!Spec => Intake!OnlyWritersAct
<1>1. ASSUME IntakeInv, Intake!Next, NEW r \in Slots, Intake!Acts(r) PROVE runs[r].who = "writer"
  <2>1. Intake!Working(r) /\ runs'[r].at # runs[r].at /\ (item' # item \/ work' # work)
    BY <1>1 DEF Intake!Acts, Intake!OwnStep
  <2>2. Sound(runs[r], item)
    BY <1>1 DEF IntakeInv
  <2>3. Intake!WriteType(r) \/ Intake!WriteFields(r) \/ Intake!Deliver(r)
    BY <1>1, <2>1, OwnAction DEF Intake!Ask, Intake!Echo, Intake!Read, Intake!Reason, Intake!Fail
  <2>4. CASE Intake!WriteType(r) \/ Intake!WriteFields(r)
    BY <2>2, <2>4 DEF Intake!WriteType, Intake!WriteFields, Sound, Deciding
  <2>5. CASE Intake!Deliver(r)
    <3>1. Intake!AdmittedParent(runs[r]) \/ Intake!Admitted(runs[r])
      BY <2>1, <2>5 DEF Intake!Deliver
    <3> QED
      BY <3>1 DEF Intake!AdmittedParent, Intake!Admitted, Intake!Permitted
  <2> QED
    BY <2>3, <2>4, <2>5
<1>2. IntakeInv /\ [Intake!Next]_Intake!vars =>
        [\A r \in Slots : Intake!Acts(r) => runs[r].who = "writer"]_Intake!vars
  BY <1>1
<1>3. Intake!Spec => []IntakeInv
  BY IntakeInvariant
<1> QED
  BY <1>2, <1>3, PTL DEF Intake!Spec, Intake!OnlyWritersAct

\* What a delivery may still rely on: the parts that were found in order, each until
\* somebody changes it.
Fit ==
  /\ item.type \in Intake!DeliveryTypes /\ item.form /\ ~item.adr
  /\ IF work.phase = "plan" THEN Intake!PlanStage ELSE item.stage = "execution"
Assured ==
  \/ work.at \in {"admitted", "ready", "bound"} /\ work.phase = "plan"
  \/ work.at \in {"writing", "moved"} /\ work.to = "in-progress"
  \/ work.at \in {"ready", "bound"} /\ work.phase = "implement"
WorkSound ==
  /\ work.at \in {"ready", "bound"} => work.phase \in {"plan", "implement"}
  /\ work.at \in {"moving", "writing", "moved"} /\ work.to = "in-progress" => work.phase = "implement"
  /\ work.at \in {"writing", "moved"} /\ work.to = "in-progress" => work.target.stage = "execution"
  /\ work.at = "bound" => item.open \/ "state" \in work.changed
  /\ work.at = "bound" => provisioned \/ "fields" \in work.changed
  /\ Assured => Fit \/ "metadata" \in work.changed

\* Others may change everything, and what they change is marked.
LEMMA WorkMarked ==
  ASSUME IssueTyped, WorkSound, Intake!Unnoticed
  PROVE  WorkSound'
<1>1. CASE work.at = "none"
  BY <1>1, Marked DEF WorkSound, Assured
<1>2. CASE work.at # "none"
  <2>1. /\ work'.at = work.at /\ work'.phase = work.phase /\ work'.to = work.to /\ work'.target = work.target
        /\ Changes
    BY <1>2, Marked
  <2>2. "metadata" \notin work'.changed => (Fit' <=> Fit)
    BY <2>1 DEF Changes, Fit, Intake!PlanStage
  <2> QED
    BY <2>1, <2>2 DEF Changes, WorkSound, Assured
<1> QED
  BY <1>1, <1>2

\* A delivery relies on nothing it has not read: the plan on its admission, the
\* implementation on its transition, both on the source bound before the turn.
LEMMA DeliveryFit ==
  ASSUME Intake!CatalogueAssumption, IntakeInv, WorkSound, Delivers
  PROVE  WorkSound'
<1> USE DEF WorkSound, Assured
<1>1. work \in Intake!Work /\ IssueTyped /\ UNCHANGED provisioned
  BY DEF IntakeInv, IssueTyped, Delivers, Intake!AdmitPlan, Intake!Brief, Intake!Check, Intake!Write, Intake!Observe,
     Intake!Bind, Intake!Turn, Intake!Outcome, Intake!Stop, Intake!Move, Intake!Goes
<1>2. "metadata" \in Intake!Rebound <=> "metadata" \in work.changed
  BY DEF Intake!Rebound
<1>3. ASSUME UNCHANGED item, work'.phase = work.phase PROVE Fit' <=> Fit
  BY <1>3 DEF Fit, Intake!PlanStage
<1>4. ASSUME NEW to, NEW from, Intake!Move(to, from), to = "in-progress" => work.phase = "implement"
      PROVE  WorkSound'
  <2>1. work'.at = "moving" /\ work'.to = to /\ work'.phase = work.phase
    BY <1>1, <1>4 DEF Intake!Move, Intake!Goes, Intake!Work
  <2> QED
    BY <1>4, <2>1
<1>5. ASSUME work' = Intake!NoWork PROVE WorkSound'
  BY <1>5, NoWorkTyped
<1>6. CASE Intake!AdmitPlan
  <2>1. work'.at = "admitted" /\ work'.phase = work.phase /\ UNCHANGED item /\ Intake!DeliverySafe("plan", work.resumed)
    BY <1>1, <1>6 DEF Intake!AdmitPlan, Intake!Goes, Intake!Work
  <2>2. work.phase = "plan" => Fit
    BY <2>1 DEF Intake!DeliverySafe, Fit
  <2> QED
    BY <1>3, <2>1, <2>2
<1>7. CASE Intake!Brief
  <2>1. CASE work.phase = "plan" /\ Intake!Goes("admitted", [work EXCEPT !.at = "ready", !.changed = Intake!Rebound])
    <3>1. /\ work.at = "admitted" /\ work'.at = "ready" /\ work'.phase = "plan" /\ work'.changed = Intake!Rebound
          /\ UNCHANGED item
      BY <1>1, <1>7, <2>1 DEF Intake!Brief, Intake!Goes, Intake!Work
    <3> QED
      BY <1>2, <1>3, <2>1, <3>1
  <2>2. CASE work.phase = "implement" /\ Intake!Move("in-progress", "admitted")
    BY <1>4, <2>2
  <2>3. CASE Intake!Move("ready-for-plan", "admitted")
    BY <1>4, <2>3
  <2> QED
    BY <1>7, <2>1, <2>2, <2>3 DEF Intake!Brief
<1>8. CASE Intake!Check
  <2> DEFINE target == Intake!Target(work.to)
             want == {f \in DOMAIN target : item[f] # target[f]}
  <2>1. /\ \E at \in {"moved", "writing"} :
             work' = [work EXCEPT !.at = at, !.target = target, !.want = want, !.changed = {}]
        /\ work.at = "moving" /\ Intake!Allowed(work.to) /\ UNCHANGED item
    BY <1>8 DEF Intake!Check, Intake!Goes
  <2> HIDE DEF want
  <2>2. work'.at \in {"moved", "writing"} /\ work'.to = work.to /\ work'.phase = work.phase /\ work'.target = target
    BY <1>1, <2>1 DEF Intake!Work
  <2>3. work.to = "in-progress" => target.stage = "execution"
    BY <1>1, <2>1, TargetTyped
  <2> HIDE DEF target
  <2>4. work.to = "in-progress" => work.phase = "implement" /\ Fit
    BY <2>1 DEF Intake!Allowed, Fit
  <2> QED
    BY <1>3, <2>1, <2>2, <2>3, <2>4
<1>9. CASE Intake!Write
  <2>1. /\ work.at = "writing" /\ work'.at = "moved" /\ work'.to = work.to /\ work'.phase = work.phase
        /\ work'.target = work.target /\ work'.changed = Intake!Rebound
    BY <1>1, <1>9 DEF Intake!Write, Intake!Goes, Intake!Work
  <2>2. \E stage \in {item.stage, work.target.stage}, ready \in {item.ready, work.target.ready} :
          item' = [item EXCEPT !.stage = stage, !.ready = ready]
    BY <1>9 DEF Intake!Write
  <2>3. /\ item'.type = item.type /\ item'.adr = item.adr /\ item'.form = item.form
        /\ item'.stage \in {item.stage, work.target.stage}
    BY <1>1, <2>2 DEF IssueTyped, Intake!Issue
  <2>4. work.to = "in-progress" /\ Fit => Fit'
    BY <2>1, <2>3 DEF Fit
  <2> QED
    BY <1>2, <2>1, <2>4
<1>10. CASE Intake!Observe
  <2>1. /\ Intake!Moved.at = "ready" /\ Intake!Moved.phase = work.phase /\ Intake!Moved.changed = work.changed
        /\ Intake!Moved \in Intake!Work
    BY <1>1 DEF Intake!Moved, Intake!Nowhere, Intake!Work, Intake!Optional
  <2>2. CASE /\ work.to = "ready-for-agent"
             /\ Intake!Goes("moved", [Intake!Moved EXCEPT !.at = "moving", !.phase = "implement", !.to = "in-progress"])
    <3>1. work'.at = "moving" /\ work'.phase = "implement"
      BY <2>1, <2>2 DEF Intake!Goes, Intake!Work
    <3> QED
      BY <3>1
  <2>3. CASE work.to = "in-progress" /\ Intake!Goes("moved", Intake!Moved)
    <3>1. work.at = "moved" /\ work' = Intake!Moved /\ UNCHANGED item
      BY <1>10, <2>3 DEF Intake!Observe, Intake!Goes
    <3>2. work.phase = "implement" /\ (Fit \/ "metadata" \in work.changed)
      BY <2>3, <3>1
    <3> QED
      BY <1>3, <2>1, <3>1, <3>2
  <2>4. CASE Intake!Goes("moved", Intake!NoWork)
    BY <1>5, <2>4 DEF Intake!Goes
  <2> QED
    BY <1>10, <2>2, <2>3, <2>4 DEF Intake!Observe
<1>11. CASE Intake!Bind
  <2>1. /\ work.at = "ready" /\ work'.at = "bound" /\ work'.phase = work.phase /\ work'.changed = Intake!Rebound
        /\ UNCHANGED item /\ item.open /\ provisioned
    BY <1>1, <1>11 DEF Intake!Bind, Intake!Goes, Intake!Bound, Intake!FieldsReady, Intake!Work
  <2> QED
    BY <1>1, <1>2, <1>3, <2>1
<1>12. CASE Intake!Turn
  <2>1. work'.at = "turn"
    BY <1>1, <1>12 DEF Intake!Turn, Intake!Goes, Intake!Work
  <2> QED
    BY <2>1
<1>13. CASE Intake!Outcome
  <2>1. CASE work.phase = "implement" /\ Intake!Move("in-progress", "turn")
    BY <1>4, <2>1
  <2>2. CASE Intake!Move("ready-for-agent", "turn") \/ Intake!Move("needs-info", "turn")
    BY <1>4, <2>2
  <2>3. CASE Intake!Goes("turn", Intake!NoWork)
    BY <1>5, <2>3 DEF Intake!Goes
  <2> QED
    BY <1>13, <2>1, <2>2, <2>3 DEF Intake!Outcome
<1>14. CASE Intake!Stop
  BY <1>5, <1>14 DEF Intake!Stop, Intake!Goes
<1> QED
  BY <1>6, <1>7, <1>8, <1>9, <1>10, <1>11, <1>12, <1>13, <1>14 DEF Delivers

\* A run hands over a delivery that relies on nothing yet, but for an implementation,
\* which is checked again; other runs' steps leave it alone or are marked.
LEMMA WorkStep ==
  ASSUME Intake!CatalogueAssumption, IntakeInv, WorkSound, [Intake!Next]_Intake!vars
  PROVE  WorkSound'
<1>1. ASSUME UNCHANGED <<item, work, provisioned>> PROVE WorkSound'
  BY <1>1 DEF WorkSound, Assured, Fit, Intake!PlanStage
<1>2. CASE Delivers
  BY <1>2, DeliveryFit
<1>3. CASE Intake!Edit \/ Intake!Provision \/ \E r \in Slots : Intake!Ask(r) \/ Intake!WriteType(r) \/ Intake!WriteFields(r)
  BY <1>3, WorkMarked DEF IntakeInv, Intake!Edit, Intake!Provision, Intake!Ask, Intake!WriteType, Intake!WriteFields
<1>4. CASE Intake!Comment \/ \E r \in Slots : Intake!Echo(r) \/ Intake!Read(r) \/ Intake!Reason(r) \/ Intake!Fail(r)
  BY <1>1, <1>4 DEF Intake!Comment, Intake!Echo, Intake!Read, Intake!Reason, Intake!Fail
<1>5. ASSUME NEW r \in Slots, Intake!Deliver(r) PROVE WorkSound'
  <2> DEFINE route == runs[r].decided.route
  <2>1. UNCHANGED <<item, provisioned>>
    BY <1>5 DEF Intake!Deliver
  <2>2. \/ work' = work
        \/ work' = [Intake!NoWork EXCEPT !.at = "elsewhere"]
        \/ \E at \in {"selected", "elsewhere"}, phase \in {"none", "plan", "implement"}, resumed \in BOOLEAN :
             work' = [Intake!NoWork EXCEPT !.at = at, !.phase = phase, !.resumed = resumed]
        \/ \E resumed \in BOOLEAN :
             work' = [Intake!NoWork EXCEPT !.at = "admitted", !.phase = "implement", !.resumed = resumed]
    BY <1>5 DEF Intake!Deliver
  <2>3. work' = work \/ work'.at \in {"elsewhere", "selected"} \/ (work'.at = "admitted" /\ work'.phase = "implement")
    BY <2>2, NoWorkTyped DEF Intake!Work
  <2> QED
    BY <1>1, <2>1, <2>3 DEF WorkSound, Assured
<1>6. CASE UNCHANGED Intake!vars
  BY <1>1, <1>6 DEF Intake!vars
<1> QED
  BY <1>2, <1>3, <1>4, <1>5, <1>6 DEF Intake!Next, Delivers

\* A planning or implementation turn starts on an issue that is open, of a delivery type,
\* complete, without an ADR label and at its stage, but for what somebody changed after
\* codex-delivery.mjs last read that part of it: requireBoundSource() reads the state and
\* the organization's fields before each turn, transitionState() the rest before each turn
\* of an implementation, and the admission the rest for a plan.
THEOREM IntakeWorkGated ==
  ASSUME Intake!CatalogueAssumption PROVE Intake!Spec => Intake!WorkGated
<1> DEFINE gated ==
             work.at = "bound" /\ work'.at = "turn" =>
               /\ item.open \/ "state" \in work.changed
               /\ provisioned \/ "fields" \in work.changed
               /\ \/ "metadata" \in work.changed
                  \/ /\ item.type \in Intake!DeliveryTypes /\ item.form /\ ~item.adr
                     /\ IF work.phase = "plan" THEN Intake!PlanStage ELSE item.stage = "execution"
<1>1. Intake!Init => WorkSound
  BY NoWorkTyped DEF Intake!Init, WorkSound, Assured
<1>2. IntakeInv /\ WorkSound /\ [Intake!Next]_Intake!vars => WorkSound'
  BY WorkStep
<1>3. WorkSound => gated
  BY DEF WorkSound, Assured, Fit
<1>4. WorkSound /\ [Intake!Next]_Intake!vars => [gated]_Intake!vars
  BY <1>3
<1>5. Intake!Spec => []IntakeInv
  BY IntakeInvariant
<1> QED
  BY <1>1, <1>2, <1>4, <1>5, PTL DEF Intake!Spec, Intake!WorkGated
=============================================================================
