---------------------------- MODULE IssueIntake ----------------------------
(***************************************************************************)
(* Issue intake: classifyAndRoute() of scripts/issue-intake.mjs with       *)
(* validateRoutingProposal() and classifyIssue() of lib/issue-routing.mjs, *)
(* the lifecycle of config/issue-metadata.yml, the patterns of             *)
(* config/orchestration-policy.yml, and the delivery that the workflow     *)
(* starts next (codex-delivery.mjs), from its admission to its turns.      *)
(*                                                                         *)
(* A run reads the issue once, a model turn of minutes proposes a route,   *)
(* the run writes type and fields as of its reading, and delivery reads    *)
(* again, more than once and never everything at once.  The workflow has   *)
(* no concurrency group: runs of one issue overlap, with each other, with  *)
(* people and with delivery.                                               *)
(*                                                                         *)
(* Labels, conversation and body are abstracted to whether an ADR label    *)
(* blocks, a human commented later, and the form of the type is filled in. *)
(* Legacy labels, capabilities and skills are left out.                    *)
(***************************************************************************)
EXTENDS IssueCatalogue

CONSTANTS
  Slots,          \* runs of the workflow that may overlap
  Types, Stages, Readiness,   \* the values of the catalogue that occur
  MaxIncidents    \* what people do and what fails

ASSUME CatalogueAssumption ==
  /\ Types \subseteq AllTypes /\ Stages \subseteq DOMAIN Transitions /\ Readiness \subseteq AllReadiness
  /\ \A t \in Types : Initial(t).stage \in Stages /\ Initial(t).ready \in Readiness
  /\ {"intake", "planning", "execution"} \subseteq Stages
  /\ {"not-ready", "ready", "needs-info", "working"} \subseteq Readiness /\ MaxIncidents \in Nat

VARIABLES
  issue,      \* the issue on GitHub
  parent,     \* where its parent is, when it has one
  saved,      \* the saved state of its delivery
  runs,       \* the runs of the intake workflow
  echoes,     \* events of the App's own writes that have not started a run yet
  work,       \* the delivery that works on the issue or its parent
  provisioned,   \* the organization's issue types and fields are as the catalogue has them
  incidents

vars == <<issue, parent, saved, runs, echoes, work, provisioned, incidents>>

Optional(S) == S \union {"none"}
Issue == [open : BOOLEAN, type : Optional(Types), stage : Optional(Stages),
          ready : Optional(Readiness), adr : BOOLEAN, form : BOOLEAN]
Unread == [open |-> FALSE, type |-> "none", stage |-> "none", ready |-> "none",
           adr |-> FALSE, form |-> FALSE, saved |-> "none"]
\* What a run still needs of its reading once it has decided.
Basis(seen) == [Unread EXCEPT !.type = seen.type, !.stage = seen.stage, !.ready = seen.ready]
Held == [route |-> "hold", type |-> "none", stage |-> "none", ready |-> "none", refused |-> FALSE]

\* The reading of a run: the native type, or else the legacy label, and the two fields.
Seen == [open |-> issue.open, type |-> issue.type, stage |-> issue.stage, ready |-> issue.ready,
         adr |-> issue.adr, form |-> issue.form, saved |-> saved]

\* What a delivery reads, in the parts that are read together, and a delivery: its step,
\* its phase, whether it resumes, where it moves the issue and which fields it has to write
\* for that, and, for the properties, what others changed since it was last read.
View == [state |-> issue.open, fields |-> provisioned,
         metadata |-> <<issue.type, issue.stage, issue.ready, issue.adr, issue.form>>]
Work == [at : {"none", "elsewhere", "selected", "admitted", "moving", "writing", "moved", "ready", "bound", "turn"},
         phase : {"none", "plan", "implement"}, resumed : BOOLEAN,
         to : {"none", "needs-info", "ready-for-plan", "ready-for-agent", "in-progress"},
         target : [stage : Optional(Stages), ready : Optional(Readiness)],
         want : SUBSET {"stage", "ready"}, changed : SUBSET {"state", "fields", "metadata"}]
Nowhere == [stage |-> "none", ready |-> "none"]
NoWork == [at |-> "none", phase |-> "none", resumed |-> FALSE, to |-> "none", target |-> Nowhere,
           want |-> {}, changed |-> {}]
Unnoticed == work' = IF work.at = "none" THEN work
                     ELSE [work EXCEPT !.changed = @ \union {f \in DOMAIN View : View[f]' # View[f]}]

\* A run: its step, who caused it and by what event, whether it is read-only, whether
\* a newer comment exists, what it read and decided, and, for the properties, whether
\* someone else changed the issue since.
Idle == [at |-> "idle", who |-> "nobody", on |-> "none", quiet |-> FALSE, late |-> FALSE,
         seen |-> Unread, decided |-> Held, moved |-> FALSE]
Working(r) == runs[r].at # "idle"
Happens == incidents < MaxIncidents /\ incidents' = incidents + 1

Others(r, new) == [s \in Slots |-> IF s = r THEN new ELSE [runs[s] EXCEPT !.moved = Working(s)]]
Step(r, new) == runs' = [runs EXCEPT ![r] = new]
End(r) == Step(r, Idle)
Trigger(on) == IF on \in {"manual", "forced"} THEN "manual" ELSE on

-----------------------------------------------------------------------------
\* The rules.

\* requiredFormFields(): a form that the type has, with a required field left empty.
Incomplete(type, form) == type # "none" /\ ~form
\* executionContext(): what a pattern is chosen by.
PatternFor(type, stage, trigger, plan) ==
  Selected(type, stage, trigger, IF plan = "planned" THEN "valid" ELSE plan, parent = "none")

\* validateRoutingProposal(): the governance in a proposal is the model's, not the labels'.
Accepted(p, seen, trigger) ==
  LET from == IF seen.stage # "none" THEN seen.stage ELSE Initial(p.type).stage
  IN  /\ seen.type # "none" => p.type = seen.type
      /\ p.route \notin {"hold", "refine"} => p.type # "none"
      /\ from \notin {"none", p.stage} => Legal(from, p.stage, p.type, p.adr)
      /\ p.stage = "parked" => p.type = "idea"
      /\ p.route = "plan" => ReadyGate(p.type, p.stage, p.ready, p.adr, ~Incomplete(p.type, seen.form))
      /\ \/ p.route = "hold"
         \/ p.route = "refine" /\ p.type = "none" /\ ~Stale(p.stage, seen.saved)
         \/ p.route # "hold" /\ RoutePattern[p.route] = PatternFor(p.type, p.stage, trigger, seen.saved)
Proposals == [route : Routes, type : Optional(Types), stage : Stages, ready : Readiness, adr : BOOLEAN]

\* classifyIssue(mode: "resume"): the approved metadata, for a break-glass recovery.
Recovery(seen) ==
  LET first == IF seen.type = "none" THEN [stage |-> "intake", ready |-> "not-ready"] ELSE Initial(seen.type)
      ready == IF seen.ready = "none" THEN first.ready ELSE seen.ready
  IN  [route |-> "resume", type |-> seen.type, adr |-> seen.adr,
       stage |-> IF seen.stage = "none" THEN first.stage ELSE seen.stage,
       ready |-> IF Incomplete(seen.type, seen.form) /\ ready \in {"not-ready", "ready"} THEN "needs-info" ELSE ready]

-----------------------------------------------------------------------------
\* Events.

\* resolveReadOnlyRun(): all runs of a shadow participant are read-only, and those by
\* hand that were asked to be.
ReadOnly(on, shadow, asked) == shadow \/ (on \in {"manual", "forced"} /\ asked)

\* A writer edits, types, closes or reopens the issue, mentions the agent in a
\* comment, or starts the workflow by hand.
Ask(r) ==
  /\ ~Working(r) /\ Happens
  /\ \E on \in {"issue", "comment", "manual", "forced"}, shadow, asked \in BOOLEAN :
       LET new == [Idle EXCEPT !.at = "read", !.who = "writer", !.on = on, !.quiet = ReadOnly(on, shadow, asked)]
       IN  \/ issue' = issue /\ Step(r, new)
           \/ /\ \/ \E b \in BOOLEAN : issue' = [issue EXCEPT !.open = b]
                 \/ \E b \in BOOLEAN : issue' = [issue EXCEPT !.form = b]
                 \/ \E t \in Optional(Types) : issue' = [issue EXCEPT !.type = t]
              /\ on = "issue" /\ issue' # issue /\ runs' = Others(r, new)
  /\ UNCHANGED <<parent, saved, echoes, provisioned>> /\ Unnoticed

\* The App's own type assignment is an event as well.
Echo(r) ==
  /\ ~Working(r) /\ echoes > 0 /\ echoes' = echoes - 1
  /\ Step(r, [Idle EXCEPT !.at = "read", !.who = "app", !.on = "issue"])
  /\ UNCHANGED <<issue, parent, saved, work, incidents, provisioned>>

\* People change fields or labels, which starts nothing, or the parent moves.
Edit ==
  /\ Happens
  /\ \/ /\ \/ \E b \in BOOLEAN : issue' = [issue EXCEPT !.adr = b]
           \/ \E v \in Readiness : issue' = [issue EXCEPT !.ready = v]
           \/ \E v \in Stages : issue' = [issue EXCEPT !.stage = v]
        /\ issue' # issue
        /\ runs' = [s \in Slots |-> [runs[s] EXCEPT !.moved = Working(s)]] /\ UNCHANGED parent
     \/ /\ parent # "none" /\ parent' \in {"elsewhere", "acceptance"} \ {parent} /\ UNCHANGED <<issue, runs>>
  /\ UNCHANGED <<saved, echoes, provisioned>> /\ Unnoticed

\* The organization's issue types, fields, options and pins change, or are put right.
Provision ==
  /\ Happens /\ provisioned' = ~provisioned
  /\ UNCHANGED <<issue, parent, saved, runs, echoes>> /\ Unnoticed

\* Any human comments, after the comment that started a run.
Comment ==
  /\ \E r \in Slots : runs[r].on = "comment" /\ runs[r].at = "read" /\ ~runs[r].late
  /\ runs' = [s \in Slots |-> [runs[s] EXCEPT !.late = runs[s].on = "comment" /\ runs[s].at = "read"]]
  /\ Happens /\ UNCHANGED <<issue, parent, saved, echoes, work, provisioned>>

-----------------------------------------------------------------------------
\* A run of classifyAndRoute().

PermittedBots(run) == run.who # "nobody"
Permitted(run) == run.who = "writer"

\* validateOrganizationIssueFields(): every reading compares the organization's types,
\* fields, options and pins with the catalogue, and holds unless all of them fit.
FieldsReady == provisioned

\* Once decided, the type is written when the issue was read without one.
NeedsType(run, p) == run.seen.type = "none" /\ p.type # "none" /\ ~run.quiet
\* validateFieldMutation() will refuse a first stage behind the ADR gate.  What a read-only
\* run decided is only printed.
Decide(run, p) ==
  [run EXCEPT !.at = IF NeedsType(run, p) THEN "type" ELSE "fields",
              !.seen = Basis(@),
              !.decided = IF run.quiet THEN Held ELSE
                          [route |-> p.route, type |-> p.type, stage |-> p.stage, ready |-> p.ready,
                           refused |-> p.stage # run.seen.stage /\ Gated(p.type, p.stage, p.adr)]]

\* Reading the issue, its control plane and the saved delivery; the child event of
\* a parent in acceptance; the gates before any model turn.
Routable(run) == issue.open /\ Permitted(run)
\* newerHumanComment(), in the conversation that the run reads.
Superseded(run) == run.late
CoordinatesParent(run) == run.on = "issue" /\ parent = "acceptance"
Read(r) ==
  /\ runs[r].at = "read"
  /\ LET run  == runs[r]
         gone == CoordinatesParent(run)
         read == [run EXCEPT !.seen = Seen, !.moved = FALSE, !.late = FALSE]
         goes == FieldsReady /\ ~gone /\ Routable(run)
     IN  Step(r, CASE FieldsReady /\ gone -> [run EXCEPT !.at = "deliver", !.decided = [Held EXCEPT !.route = "parent"]]
                   [] goes /\ run.on = "forced" -> Decide(read, Recovery(Seen))
                   [] goes /\ run.on # "forced" /\ ~Superseded(run) -> [read EXCEPT !.at = "reason"]
                   [] OTHER -> Idle)
  /\ UNCHANGED <<issue, parent, saved, echoes, work, incidents, provisioned>>

\* reasonIssueRouting() and the validation of what it proposes.
Reason(r) ==
  /\ runs[r].at = "reason"
  /\ \E p \in Proposals :
       /\ Accepted(p, runs[r].seen, Trigger(runs[r].on))
       /\ Step(r, Decide(runs[r], p))
  /\ UNCHANGED <<issue, parent, saved, echoes, work, incidents, provisioned>>

\* setIssueType(), which the App's own event follows.
WriteType(r) ==
  /\ runs[r].at = "type"
  /\ issue' = [issue EXCEPT !.type = runs[r].decided.type]
  /\ LET new == [runs[r] EXCEPT !.at = "fields"]
     IN  IF issue' = issue THEN Step(r, new) /\ UNCHANGED echoes
         ELSE runs' = Others(r, new) /\ echoes' = echoes + 1
  /\ UNCHANGED <<parent, saved, incidents, provisioned>> /\ Unnoticed

\* reconcileFields(): the fields that differ from what the run read.
StageOnly(old, decided) == [stage |-> decided.stage, ready |-> old.ready]
Reconciled(old, decided) == [stage |-> decided.stage, ready |-> decided.ready]
WriteFields(r) ==
  /\ runs[r].at = "fields"
  /\ LET run  == runs[r]
         want == Reconciled(run.seen, run.decided)
         skip == run.quiet \/ run.decided.refused
         new  == IF run.decided.route # "hold" /\ ~skip
                  THEN [run EXCEPT !.at = "deliver", !.seen = Unread, !.moved = FALSE,
                                   !.decided = [Held EXCEPT !.route = run.decided.route]] ELSE Idle
     IN  /\ issue' = IF skip THEN issue
                     ELSE [issue EXCEPT !.stage = IF want.stage = run.seen.stage THEN @ ELSE want.stage,
                                        !.ready = IF want.ready = run.seen.ready THEN @ ELSE want.ready]
         /\ runs' = IF issue' = issue THEN [runs EXCEPT ![r] = new] ELSE Others(r, new)
  /\ UNCHANGED <<parent, saved, echoes, incidents, provisioned>> /\ Unnoticed

\* A reading or a write fails, the proposal is rejected, GitHub refuses the type or
\* the fields, the job is cancelled: the run holds, and what it wrote stays.
Fail(r) ==
  /\ Working(r) /\ Happens /\ End(r)
  /\ UNCHANGED <<issue, parent, saved, echoes, work, provisioned>>

-----------------------------------------------------------------------------
\* The delivery job: codex-delivery.mjs, on the issue as each of its readings finds it.
\* At present a job in Actions is held before it, which is Fail; a controller started
\* outside Actions goes on.

Phase(route) ==
  CASE saved \in {"paused", "planning", "planned", "stale"} -> "plan" [] saved = "valid" -> "implement"
    [] route = "resume" -> "plan" [] OTHER -> route
Expected(route) == IF route = "resume"
                   THEN IF Phase(route) = "implement" THEN "implementation-continuation" ELSE "implementation-fresh"
                   ELSE RoutePattern[route]
\* A question that was answered may be resumed.
Clarified(resumed) == resumed /\ saved \in {"planning", "valid"} /\ issue.ready = "needs-info"
PlanStage == issue.stage = "planning" \/ (issue.stage = "intake" /\ issue.ready = "needs-info")
DeliverySafeAtRouting(phase, resumed) ==
  /\ issue.type \in DeliveryTypes /\ issue.form
  /\ issue.stage = IF phase = "plan" THEN "planning" ELSE "execution"
DeliverySafe(phase, resumed) ==
  /\ issue.type \in DeliveryTypes /\ issue.form /\ ~issue.adr
  /\ IF phase = "plan"
     THEN PlanStage /\ (issue.ready = "ready" \/ Clarified(resumed))
     ELSE \/ issue.stage = "execution" /\ issue.ready \in {"ready", "working", "awaiting-human"}
          \/ Clarified(resumed)

\* The first reading: the issue is open, a writer asked, the pattern is the expected one,
\* and an implementation is safe.
Admitted(run) ==
  LET route == run.decided.route
  IN  /\ FieldsReady /\ issue.open /\ Permitted(run) /\ ~(run.on = "comment" /\ saved = "none")
      /\ Phase(route) = "implement" => DeliverySafe("implement", route = "resume")
      /\ \/ route = "refine" /\ issue.type = "none" /\ saved = "none"
         \/ Expected(route) = PatternFor(issue.type, issue.stage, Trigger(run.on), saved)
AdmittedParent(run) == FieldsReady /\ Permitted(run) /\ parent = "acceptance"

\* One delivery at a time holds the account.  Those that neither plan nor implement,
\* and that of a parent, work elsewhere.
Deliver(r) ==
  /\ runs[r].at = "deliver" /\ End(r)
  /\ LET run   == runs[r]
         route == run.decided.route
         goes  == ~run.quiet /\ work.at = "none"
     IN  work' = CASE goes /\ route = "parent" /\ AdmittedParent(run) -> [NoWork EXCEPT !.at = "elsewhere"]
                   [] goes /\ route # "parent" /\ Admitted(run) ->
                        [NoWork EXCEPT !.at = CASE Phase(route) = "plan" -> "selected"
                                                [] Phase(route) = "implement" -> "admitted"
                                                [] OTHER -> "elsewhere",
                                       !.phase = IF Phase(route) \in {"plan", "implement"} THEN Phase(route) ELSE "none",
                                       !.resumed = route = "resume" /\ Phase(route) = "plan"]
                   [] OTHER -> work
  /\ UNCHANGED <<issue, parent, saved, echoes, incidents, provisioned>>

\* A delivery goes on from one step to the next.  A check that fails ends it, and so may
\* an error, the shutdown of the runner or an allowance that is spent at any step: Stop.
Goes(from, new) == work.at = from /\ work' = new /\ UNCHANGED <<parent, echoes, incidents, provisioned>>
Stop == work.at # "none" /\ Goes(work.at, NoWork) /\ UNCHANGED <<issue, saved, runs>>

\* A plan is admitted on a second reading, of everything.
AdmitPlan ==
  /\ FieldsReady /\ issue.open /\ DeliverySafe("plan", work.resumed)
  /\ Goes("selected", [work EXCEPT !.at = "admitted", !.resumed = FALSE, !.changed = {}])
  /\ UNCHANGED <<issue, saved, runs>>

\* requireBoundSource(): the issue is still open, the organization's fields fit.  The
\* strategy context, the audit, the client and the brief are bound to it, and each turn.
Bound == issue.open /\ FieldsReady
Rebound == work.changed \ {"state", "fields"}
\* The brief, read after the clone.  A plan starts again from it; an implementation goes
\* on when nothing new was discussed, or else its plan is stale.
Move(to, from) == Goes(from, [work EXCEPT !.at = "moving", !.to = to])
Brief ==
  /\ Bound
  /\ \/ /\ work.phase = "plan" /\ Goes("admitted", [work EXCEPT !.at = "ready", !.changed = Rebound])
        /\ saved' = IF saved \in {"none", "planning"} THEN "paused" ELSE saved
     \/ /\ work.phase = "implement" /\ saved' = saved /\ Move("in-progress", "admitted")
     \/ /\ work.phase = "implement" /\ saved' = "stale" /\ Move("ready-for-plan", "admitted")
  /\ UNCHANGED <<issue, runs>>

\* transitionState(): the state is read and checked, what differs is written and observed.
Target(to) ==
  CASE to = "needs-info" -> [stage |-> issue.stage, ready |-> "needs-info"]
    [] to = "ready-for-plan" -> [stage |-> "planning", ready |-> "ready"]
    [] to = "ready-for-agent" -> [stage |-> "execution", ready |-> "ready"]
    [] to = "in-progress" -> [stage |-> "execution", ready |-> "working"]
Allowed(to) ==
  LET stage == Target(to).stage
  IN  /\ to = "ready-for-agent" => issue.stage \in {"planning", "execution"} /\ issue.ready # "none"
      /\ to = "in-progress" => issue.stage = "execution" /\ issue.ready # "none"
      /\ stage # "none" /\ (issue.stage \notin {"none", stage} => stage \in Transitions[issue.stage])
      /\ ~Gated(issue.type, stage, issue.adr)
      /\ to # "needs-info" => issue.type \in DeliveryTypes /\ issue.form /\ ~issue.adr
Check ==
  /\ work.at = "moving" /\ Bound /\ Allowed(work.to)
  /\ LET target == Target(work.to)
         want   == {f \in DOMAIN target : issue[f] # target[f]}
     IN  Goes("moving", [work EXCEPT !.at = IF want = {} THEN "moved" ELSE "writing",
                                     !.target = target, !.want = want, !.changed = {}])
  /\ UNCHANGED <<issue, saved, runs>>
Write ==
  /\ Bound /\ Goes("writing", [work EXCEPT !.at = "moved", !.want = {}, !.changed = Rebound])
  /\ issue' = [issue EXCEPT !.stage = IF "stage" \in work.want THEN work.target.stage ELSE @,
                            !.ready = IF "ready" \in work.want THEN work.target.ready ELSE @]
  /\ runs' = IF issue' = issue THEN runs ELSE [s \in Slots |-> [runs[s] EXCEPT !.moved = Working(s)]]
  /\ UNCHANGED saved
\* What follows: an answered plan is carried out, an implementation turn starts, or the
\* call ends, waiting for an answer or to plan again.
Moved == [work EXCEPT !.at = "ready", !.to = "none", !.target = Nowhere]
Observe ==
  /\ FieldsReady /\ issue.stage = work.target.stage /\ issue.ready = work.target.ready
  /\ \/ /\ work.to = "ready-for-agent" /\ saved' = "valid"
        /\ Goes("moved", [Moved EXCEPT !.at = "moving", !.phase = "implement", !.to = "in-progress"])
     \/ work.to = "in-progress" /\ saved' = saved /\ Goes("moved", Moved)
     \/ /\ work.to = "needs-info" /\ saved' = IF work.phase = "plan" THEN "planning" ELSE saved
        /\ Goes("moved", NoWork)
     \/ work.to = "ready-for-plan" /\ saved' = saved /\ Goes("moved", NoWork)
  /\ UNCHANGED <<issue, runs>>

\* performTurn(): the source is bound once more, directly before each turn.
Bind ==
  /\ Bound /\ Goes("ready", [work EXCEPT !.at = "bound", !.changed = Rebound])
  /\ UNCHANGED <<issue, saved, runs>>
Turn == Goes("bound", [work EXCEPT !.at = "turn"]) /\ UNCHANGED <<issue, saved, runs>>
\* The outcome of a turn: a plan, a question, in it or in the midst of it, or more to do.
Outcome ==
  /\ \/ work.phase = "plan" /\ saved' = "planned" /\ Move("ready-for-agent", "turn")
     \/ saved' = (IF work.phase = "plan" THEN "paused" ELSE saved) /\ Move("needs-info", "turn")
     \/ work.phase = "plan" /\ saved' = "planning" /\ Goes("turn", NoWork)
     \/ work.phase = "implement" /\ saved' = saved /\ Move("in-progress", "turn")
  /\ UNCHANGED <<issue, runs>>

-----------------------------------------------------------------------------
\* An issue as it was opened, or one whose delivery waits: for an answer to the plan's
\* question, to carry the plan out, or to plan again.
Opened(type, adr) == [open |-> TRUE, type |-> type, stage |-> Initial(type).stage,
                      ready |-> Initial(type).ready, adr |-> adr, form |-> TRUE]
Waiting(type, stage, ready) == [Opened(type, FALSE) EXCEPT !.stage = stage, !.ready = ready]
Init ==
  /\ \/ saved = "none" /\ issue \in {Opened(t, adr) : t \in Optional(Types), adr \in BOOLEAN}
     \/ \E t \in Types \intersect DeliveryTypes :
          \/ saved = "planning" /\ issue = Waiting(t, "planning", "needs-info")
          \/ saved = "valid" /\ issue = Waiting(t, "execution", "ready")
          \/ saved = "stale" /\ issue = Waiting(t, "planning", "ready")
  /\ parent \in {"none", "acceptance"}
  /\ runs = [r \in Slots |-> Idle] /\ echoes = 0 /\ work = NoWork
  /\ provisioned = TRUE /\ incidents = 0

Next ==
  \/ Edit \/ Comment \/ Provision
  \/ AdmitPlan \/ Brief \/ Check \/ Write \/ Observe \/ Bind \/ Turn \/ Outcome \/ Stop
  \/ \E r \in Slots : \/ Ask(r) \/ Echo(r) \/ Read(r) \/ Reason(r) \/ WriteType(r)
                      \/ WriteFields(r) \/ Fail(r) \/ Deliver(r)

Spec == Init /\ [][Next]_vars

-----------------------------------------------------------------------------
\* The type invariant.
TypeOK ==
  /\ issue \in Issue /\ parent \in {"none", "elsewhere", "acceptance"}
  /\ saved \in {"none", "paused", "planning", "planned", "valid", "stale"}
  /\ \A r \in Slots :
       /\ runs[r].at \in {"idle", "read", "reason", "type", "fields", "deliver"}
       /\ runs[r].who \in {"nobody", "writer", "app"}
       /\ runs[r].decided \in [route : Routes \union {"parent"}, type : Optional(Types), stage : Optional(Stages),
                               ready : Optional(Readiness), refused : BOOLEAN]
       /\ runs[r].at = "reason" => runs[r].seen.open
  /\ echoes \in Nat /\ work \in Work
  /\ provisioned \in BOOLEAN /\ incidents \in 0..MaxIncidents

\* A run whose issue nobody else touched since it was read leaves the issue exactly as
\* it decided, type, stage and readiness, along the transitions of the lifecycle, also
\* when the issue had no type or fields, or the fields alone were changed.
WritesFields(r) == runs[r].at = "fields" /\ runs'[r].at # "fields" /\ incidents' = incidents
WritesAsDecided ==
  [][\A r \in Slots : WritesFields(r) /\ ~runs[r].moved /\ ~runs[r].quiet /\ ~runs[r].decided.refused =>
       /\ <<issue'.type, issue'.stage, issue'.ready>>
            = <<runs[r].decided.type, runs[r].decided.stage, runs[r].decided.ready>>
       /\ issue.stage \notin {"none", issue'.stage} => issue'.stage \in Transitions[issue.stage]]_vars

\* "Only the deterministic controller" and a writer's event: what the App itself
\* writes starts an intake too, and that one changes nothing and delivers nothing,
\* not even on a parent (docs/delivery/README.md: "Metadata changes are idempotent and
\* do not recursively trigger delivery").
OwnStep(r) == Working(r) /\ runs'[r].at # runs[r].at
Acts(r) == OwnStep(r) /\ (issue' # issue \/ work' # work)
OnlyWritersAct == [][\A r \in Slots : Acts(r) => runs[r].who = "writer"]_vars

\* A planning or implementation turn starts on an issue that is open, of a delivery type,
\* complete, without an ADR label and at its stage, in an organization whose types and
\* fields are the catalogue's, whatever governance the model proposed and whatever was
\* changed while the delivery was admitted, cloned and moved the issue.  Only what somebody
\* changes after the call last read it is missed: the state and the fields are read
\* directly before the turn, what an implementation needs at its transition, and what a
\* plan needs at its admission, minutes before.
WorkGated ==
  [][work.at = "bound" /\ work'.at = "turn" =>
       /\ issue.open \/ "state" \in work.changed
       /\ provisioned \/ "fields" \in work.changed
       /\ \/ "metadata" \in work.changed
          \/ /\ issue.type \in DeliveryTypes /\ issue.form /\ ~issue.adr
             /\ IF work.phase = "plan" THEN PlanStage ELSE issue.stage = "execution"]_vars

=============================================================================
