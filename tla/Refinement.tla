----------------------------- MODULE Refinement -----------------------------
(***************************************************************************)
(* What deliver() of scripts/codex-delivery.mjs does before there is a     *)
(* plan: it refines an issue, asks people, posts its audit trail through   *)
(* an outbox, works a specialised phase (requirements stands for all       *)
(* four), decomposes the issue into children and coordinates them.         *)
(*                                                                         *)
(* account.lock admits one call at a time, and a call that is killed keeps *)
(* its active time reserved, so that nothing goes on before an owner       *)
(* readmits the operation (DeliveryController); here a call only fails, at *)
(* any step, also after a write whose answer was lost.  Every change of    *)
(* `state` is saved at once, so that one checkpoint stands for both.       *)
(*                                                                         *)
(* A comment's ID is its place in the thread, and issues and pull requests *)
(* are numbered together, as they are opened.  Texts of the audit trail    *)
(* are numbered in the order in which they were written.  Left out: budgets*)
(* other than the attempts, progress comments, governance labels, issue    *)
(* forms and native types that are missing (a refused transition or type   *)
(* is a failure), people's edits of the body and of the children (one that *)
(* was deleted, or lost its marker, is not found), pages of the search that*)
(* shift while they are read, what an owner readmits, the count of open    *)
(* children (an issue in coordination is in acceptance, and is ready before*)
(* they are read), and the plan phase, which is the delivery controller's. *)
(***************************************************************************)
EXTENDS IssueCatalogue

CONSTANTS
  Key,          \* the keys of the work items
  MaxAttempts,  \* INITIAL_OPERATION_LIMITS.controllerAttempts
  SearchDepth,  \* how many issues and pull requests a search reads: ten pages of 100
  MaxComments,  \* bounds of the model: what people write,
  MaxOpened,    \* the number up to which they open issues and pull requests,
  MaxFaults     \* and what fails or is edited

ASSUME BoundAssumption == {MaxAttempts, SearchDepth, MaxComments, MaxOpened, MaxFaults} \subseteq Nat

VARIABLES
  issue,   \* type, stage and readiness of the source issue
  thread,  \* its comments: Human, or the number of a text
  child,   \* for every key, the numbers of the issues with its marker and whether one is linked
  opened,  \* the number of the newest issue or pull request of the repository
  saved,   \* the checkpoint of the operation
  call,    \* the call in progress
  texts,   \* history: how many texts the audit trail has
  asked,   \* history: those that ask people
  faults

vars == <<issue, thread, child, opened, saved, call, texts, asked, faults>>

Human == 0
Humans == {i \in DOMAIN thread : thread[i] = Human}

NoOperation == [status |-> "none", phase |-> "none", attempts |-> 0, outbox |-> <<>>, boundary |-> 0,
                consumed |-> {}, read |-> {}, digested |-> FALSE, session |-> FALSE]

\* at: the step, then: what follows the posting, route and comment (0 if none), starts:
\* may a session be started, was: the status it found, from: the stage it found,
\* ids: the comments it posted, items and key: the decomposition.
Off == [at |-> "off", then |-> "none", route |-> "none", comment |-> 0, starts |-> FALSE,
        was |-> "none", from |-> "none", ids |-> <<>>, items |-> {}, key |-> "none"]

-----------------------------------------------------------------------------
\* Lifecycle.

\* STAGE_TARGETS, "same" where a target leaves the stage alone.
Target == [needs_info     |-> [stage |-> "same", ready |-> "needs-info"],
           requirements   |-> [stage |-> "definition", ready |-> "not-ready"],
           decomposing    |-> [stage |-> "definition", ready |-> "waiting"],
           ready_for_plan |-> [stage |-> "planning", ready |-> "ready"],
           coordinating   |-> [stage |-> "acceptance", ready |-> "waiting"]]
AnyStage == DOMAIN Transitions

\* transitionState(): may the issue be moved, and where is it then?
Moves(target, allowed) ==
  /\ issue.stage \in allowed
  /\ Target[target].stage \in {"same", issue.stage}
     \/ Legal(issue.stage, Target[target].stage, issue.type, FALSE)
Moved(target) ==
  [issue EXCEPT !.stage = IF Target[target].stage = "same" THEN @ ELSE Target[target].stage,
                !.ready = Target[target].ready]

\* orchestrationPatternForRoute(): the pattern a route needs, if any; "manual" is like
\* "resume".
PhasePattern(phase) == IF phase = "refine" THEN "idea-discovery" ELSE RoutePattern[phase]
PatternNeeded(route, phase, type) ==
  CASE route = "refine" /\ phase = "coordinate" -> "parent-coordination"
    [] type = "none" /\ (route = "refine" \/ (route = "resume" /\ phase = "refine")) -> "any"
    [] route = "resume" -> PhasePattern(phase)
    [] OTHER -> RoutePattern[route]
Authorized(route, phase, comment) ==
  LET needed == PatternNeeded(route, phase, issue.type)
  IN  \/ needed = "any"
      \/ needed = Selected(issue.type, issue.stage, IF comment # 0 THEN "comment" ELSE "manual", "none", TRUE)

-----------------------------------------------------------------------------
\* Steps.

Faulty == faults < MaxFaults /\ faults' = faults + 1
Goto(step) == call' = [call EXCEPT !.at = step]
End == call' = Off

\* audit(): n texts enter the outbox, and flush() posts what is in it.
Audit(c, state, n, next) ==
  /\ texts' = texts + n
  /\ saved' = [state EXCEPT !.outbox = @ \o [i \in 1..n |-> texts + i]]
  /\ call' = [c EXCEPT !.at = "posting", !.then = next, !.ids = <<>>]
Proceed(c, next) == IF next = "end" THEN Off ELSE [c EXCEPT !.at = next]
Flush(c, state, next) ==
  /\ saved' = state
  /\ call' = IF state.outbox = <<>> THEN Proceed(c, next)
             ELSE [c EXCEPT !.at = "posting", !.then = next, !.ids = <<>>]
  /\ UNCHANGED <<texts, asked>>

\* The catch clause.  A hold, and a failure before the context was admitted, is saved
\* and not posted; so is a failure to post the handoff itself.  The handoff may be
\* long enough for two comments.
Asks(state, hold) == state.status = "awaiting-human" /\ ~hold
Early == call.at = "admit"
Posting == call.at = "posting" /\ call.then = "settle"
Throw(state, hold) ==
  LET asks == Asks(state, hold) /\ ~Posting
      left == [state EXCEPT !.status = IF asks THEN "awaiting-human" ELSE "paused"]
  IN  IF hold \/ Early \/ Posting
      THEN saved' = left /\ End /\ UNCHANGED <<texts, asked>>
      ELSE \E n \in 1..2 :
             /\ asks \/ n = 1
             /\ Audit(call, left, n, "settle")
             /\ asked' = IF asks THEN asked \union (texts + 1)..(texts + n) ELSE asked

-----------------------------------------------------------------------------
\* People.

Write ==
  /\ Cardinality(Humans) < MaxComments
  /\ thread' = Append(thread, Human)
  /\ UNCHANGED <<issue, child, opened, saved, call, texts, asked, faults>>

\* They open issues and pull requests, which are counted from the first child on: those
\* before it do not stand between it and a search.
Open ==
  /\ opened \in 1..(MaxOpened - 1) /\ opened' = opened + 1
  /\ UNCHANGED <<issue, thread, child, saved, call, texts, asked, faults>>

\* They set a type or move the issue, which the controller may find between two reads.
Edit ==
  /\ Faulty
  /\ issue' \in {[issue EXCEPT !.type = "none"], [issue EXCEPT !.type = "idea"], [issue EXCEPT !.stage = "acceptance"]}
  /\ issue' # issue
  /\ UNCHANGED <<thread, child, opened, saved, call, texts, asked>>

-----------------------------------------------------------------------------
\* A call.

\* A comment cannot start an operation.  The attempt is charged first.
Fresh(route) == [NoOperation EXCEPT !.status = "new", !.phase = route]
Deliver ==
  /\ call = Off /\ saved.attempts < MaxAttempts /\ saved.phase # "plan"
  /\ \E route \in {"refine", "requirements", "coordinate", "resume"}, c \in Humans \union {0} :
       /\ saved.status = "none" => c = 0 /\ route # "resume"
       /\ LET found == IF saved.status = "none" THEN Fresh(route) ELSE saved
          IN  /\ saved' = [found EXCEPT !.attempts = @ + 1]
              /\ call' = [Off EXCEPT !.at = "admit", !.route = route, !.comment = c, !.was = found.status,
                            !.starts = \/ saved.status = "none"
                                       \/ /\ saved.status = "paused" /\ saved.phase = "requirements"
                                          /\ ~saved.session /\ ~saved.digested]
  /\ UNCHANGED <<issue, thread, child, opened, texts, asked, faults>>

\* Is the event done, and may the comment continue the operation?
Retry == saved.phase = "coordinate" /\ saved.status = "ready" /\ call.route \in {"resume", "coordinate"}
Wave == saved.phase = "coordinate" /\ saved.status = "ready" /\ call.route = "refine"
EventComplete ==
  \/ saved.status = "ready" /\ ~Retry /\ ~Wave
  \/ saved.status = "running" \/ (call.comment # 0 /\ call.comment \in saved.consumed)
\* Work is retried from a pause; a question is answered behind its boundary.
Answers ==
  \/ call.comment = 0 \/ Retry \/ Wave \/ saved.status = "paused"
  \/ saved.status = "awaiting-human" /\ call.comment > saved.boundary

\* The issue is read.  A complete event only posts what is left, a comment that is no
\* answer is ignored; otherwise the context is admitted, and the outbox posted before
\* any work.
Admit ==
  /\ call.at = "admit"
  /\ LET phase == IF Wave THEN "refine" ELSE saved.phase
         read  == [call EXCEPT !.from = issue.stage]
     IN  CASE EventComplete -> Flush(read, saved, "end")
           [] ~EventComplete /\ ~Answers -> End /\ UNCHANGED <<saved, texts, asked>>
           [] ~EventComplete /\ Answers /\ ~Authorized(call.route, phase, call.comment) -> Throw(saved, FALSE)
           [] OTHER -> IF Wave THEN Goto("wave") /\ UNCHANGED <<saved, texts, asked>>
                       ELSE Flush(read, saved, "begin")
  /\ UNCHANGED <<issue, thread, child, opened, faults>>

\* Another wave of refinement, of an issue in coordination.
RefinementWave ==
  /\ call.at = "wave"
  /\ IF Moves("requirements", {"acceptance"})
     THEN issue' = Moved("requirements") /\ Flush(call, [saved EXCEPT !.phase = "refine"], "begin")
     ELSE Throw(saved, FALSE) /\ UNCHANGED issue
  /\ UNCHANGED <<thread, child, opened, faults>>

\* What a call was admitted by decides nothing any more.
Admitted == [call EXCEPT !.route = "none", !.was = "none"]
\* The admission receipt.  An issue in coordination is ready as soon as it is in acceptance;
\* any other call marks its event, says so, and goes to work.
Begin ==
  /\ call.at = "begin"
  /\ IF saved.phase = "coordinate"
     THEN /\ saved' = [saved EXCEPT !.status = "ready"] /\ End /\ UNCHANGED texts
     ELSE Audit(Admitted, [saved EXCEPT !.status = "running", !.consumed = @ \union ({call.comment} \ {0})], 1, "brief")
  /\ UNCHANGED <<issue, thread, child, opened, asked, faults>>

\* (A slip: a text is taken out of the outbox before it is sent.)
TakenFirst(outbox) == Tail(outbox)
\* flush(): a text leaves the outbox when its POST was answered.
Unanswered(outbox) == outbox
\* (A slip: the first comment, of a handoff that takes two.)
FirstOf(ids) == ids[1]
\* The boundary is the last comment of the handoff.
Boundary(ids) == ids[Len(ids)]
Post ==
  /\ call.at = "posting"
  /\ LET ids  == Append(call.ids, Len(thread) + 1)
         rest == [saved EXCEPT !.outbox = Tail(@)]
         done == IF call.then = "settle" /\ rest.status = "awaiting-human"
                 THEN [rest EXCEPT !.boundary = Boundary(ids)] ELSE rest
     IN  \/ /\ thread' = Append(thread, saved.outbox[1])
            /\ IF rest.outbox # <<>> THEN saved' = rest /\ call' = [call EXCEPT !.ids = ids]
               ELSE saved' = done /\ call' = IF call.then = "settle" THEN Off ELSE Proceed(call, call.then)
            /\ UNCHANGED <<texts, asked, faults>>
         \/ /\ Faulty /\ thread' \in {thread, Append(thread, saved.outbox[1])}
            /\ \E hold \in BOOLEAN :
                 /\ hold => thread' = thread
                 /\ Throw([saved EXCEPT !.outbox = Unanswered(@)], hold)
  /\ UNCHANGED <<issue, child, opened>>

-----------------------------------------------------------------------------
\* The model's turn.

\* A specialised phase goes on only from the discussion that it knows.
ReadBrief ==
  /\ call.at = "brief"
  /\ IF saved.phase = "refine" \/ call.starts \/ saved.read = Humans \ {call.comment}
     THEN /\ saved' = [saved EXCEPT !.read = Humans, !.digested = TRUE] /\ Goto("session")
          /\ UNCHANGED <<texts, asked>>
     ELSE Throw(saved, TRUE)
  /\ UNCHANGED <<issue, thread, child, opened, faults>>

\* ensureThread(): no new session takes the place of a lost one.
Session ==
  /\ call.at = "session"
  /\ IF saved.session \/ call.starts
     THEN /\ saved' = [saved EXCEPT !.session = TRUE]
          /\ call' = [call EXCEPT !.at = "turn", !.comment = 0, !.starts = FALSE]
          /\ UNCHANGED <<texts, asked>>
     ELSE Throw(saved, FALSE)
  /\ UNCHANGED <<issue, thread, child, opened, faults>>

\* outcomeSchema("refine") and orchestrationOutcomeSchema(): the outcomes of a turn.  The
\* second is validated with its questions: at most three, and one if it needs input.
RefinementOutcomes == {"refined", "needs_input"}
SpecializedOutcomes == {"complete", "needs_input", "blocked"}
Outcomes == IF saved.phase = "refine" THEN RefinementOutcomes ELSE SpecializedOutcomes

\* validateRefinementOutcome(): the work items of a refined goal, at most ten, have
\* different keys.  What else it checks of an item (its kind, texts and the acyclic
\* dependencies) is left out.
MaxWorkItems == 10
WorkItems == {items \in SUBSET Key : Cardinality(items) <= MaxWorkItems}

\* The turn ends with a question, which the issue shows when it is a structured one, or,
\* in a specialised phase, with a blocker.
Question(asks) ==
  /\ call.at = "turn"
  /\ Throw([saved EXCEPT !.status = IF asks THEN "awaiting-human" ELSE "paused"], FALSE)
  /\ UNCHANGED <<thread, child, opened, faults>>
Ask == "needs_input" \in Outcomes /\ Question(TRUE) /\ issue' \in {issue, Moved("needs_info")}
Blocked == "blocked" \in Outcomes /\ Question(FALSE) /\ issue' = Moved("needs_info")

\* The type of the goal is set unless people have set another one.
Fitting == issue.type \in {"none", "feature"}
Refined ==
  /\ call.at = "turn" /\ "refined" \in Outcomes
  /\ IF ~Fitting THEN Throw(saved, FALSE) /\ UNCHANGED issue
     ELSE \E items \in WorkItems :
            /\ issue' = [issue EXCEPT !.type = "feature"]
            /\ Audit([call EXCEPT !.items = items], saved, 1,
                     IF Cardinality(items) > 1 THEN "decompose" ELSE "plan")
            /\ UNCHANGED asked
  /\ UNCHANGED <<thread, child, opened, faults>>

\* A specialised phase proposes the stage that comes next.  stageToControllerTarget(): of
\* the stages after a definition, the two that lead to a transition of this module.
ControllerTarget == [definition |-> "requirements", planning |-> "ready_for_plan"]
Specialized ==
  /\ call.at = "turn" /\ "complete" \in Outcomes
  /\ \E target \in {ControllerTarget[stage] : stage \in DOMAIN ControllerTarget} :
       IF Moves(target, {call.from, "definition", "discovery", "decision", "validation", "acceptance"})
       THEN issue' = Moved(target) /\ Audit(call, saved, 1, "complete") /\ UNCHANGED asked
       ELSE Throw(saved, FALSE) /\ UNCHANGED issue
  /\ UNCHANGED <<thread, child, opened, faults>>
Complete ==
  /\ call.at = "complete"
  /\ saved' = [saved EXCEPT !.status = "ready"] /\ End
  /\ UNCHANGED <<issue, thread, child, opened, texts, asked, faults>>

\* An atomic goal goes on to planning, where the delivery controller takes over.
Plan ==
  /\ call.at = "plan"
  /\ IF Moves("ready_for_plan", AnyStage \ {"execution", "validation", "acceptance", "done", "parked"})
     THEN /\ issue' = Moved("ready_for_plan") /\ saved' = [saved EXCEPT !.phase = "plan"]
          /\ End /\ UNCHANGED <<texts, asked>>
     ELSE Throw(saved, FALSE) /\ UNCHANGED issue
  /\ UNCHANGED <<thread, child, opened, faults>>

-----------------------------------------------------------------------------
\* Decomposition.

Decompose ==
  /\ call.at = "decompose"
  /\ IF Moves("decomposing", AnyStage)
     THEN issue' = Moved("decomposing") /\ Goto("children") /\ UNCHANGED <<saved, texts, asked>>
     ELSE Throw(saved, FALSE) /\ UNCHANGED issue
  /\ UNCHANGED <<thread, child, opened, faults>>

\* (A slip: only the sub-issues of the parent are searched.)
LinkedOnly(k) == child[k].linked
\* The newest issues and pull requests are searched for the marker of the key.  An issue
\* that is found is not linked; otherwise one is created.
Found(k) == \E n \in child[k].issues : n > opened - SearchDepth
Child ==
  /\ call.at = "children"
  /\ \E k \in call.items : call' = IF Found(k) THEN [call EXCEPT !.items = @ \ {k}]
                                ELSE [call EXCEPT !.at = "create", !.key = k]
  /\ UNCHANGED <<issue, thread, child, opened, saved, texts, asked, faults>>

Created(k) == opened' = opened + 1 /\ child' = [child EXCEPT ![k].issues = @ \union {opened + 1}]
Create ==
  /\ call.at = "create" /\ Created(call.key) /\ Goto("link")
  /\ UNCHANGED <<issue, thread, saved, texts, asked, faults>>

Linked(k) == child' = [child EXCEPT ![k].linked = TRUE] /\ UNCHANGED opened
Link ==
  /\ call.at = "link" /\ Linked(call.key)
  /\ call' = [call EXCEPT !.at = "children", !.items = @ \ {call.key}, !.key = "none"]
  /\ UNCHANGED <<issue, thread, saved, texts, asked, faults>>

\* All children exist: the parent is to coordinate them.
Coordinate ==
  /\ call.at = "children" /\ call.items = {}
  /\ IF Moves("coordinating", {Target["decomposing"].stage})
     THEN /\ issue' = Moved("coordinating") /\ UNCHANGED asked
          /\ Audit(call, [saved EXCEPT !.phase = "coordinate", !.status = "ready"], 1, "end")
     ELSE Throw(saved, FALSE) /\ UNCHANGED issue
  /\ UNCHANGED <<thread, child, opened, faults>>

\* A call fails at any step, also when the write of that step was made.
Fail ==
  /\ call.at \notin {"off", "posting"} /\ Faulty
  /\ \E hold \in BOOLEAN : Throw(saved, hold)
  /\ issue' \in {issue} \union
       (IF call.at = "turn" /\ saved.phase = "refine" /\ Fitting THEN {[issue EXCEPT !.type = "feature"]} ELSE {})
  /\ \/ UNCHANGED <<child, opened>>
     \/ call.at = "create" /\ Created(call.key)
     \/ call.at = "link" /\ Linked(call.key)
  /\ UNCHANGED thread

-----------------------------------------------------------------------------
\* An issue as intake leaves it: without a type, to be refined, a feature to be worked
\* out, or a feature in acceptance, to be coordinated.
Init ==
  /\ \E kind \in {<<"none", "intake">>, <<"feature", "definition">>, <<"feature", "acceptance">>} :
       issue = [type |-> kind[1], stage |-> kind[2], ready |-> "not-ready"]
  /\ thread = <<>> /\ texts = 0 /\ asked = {} /\ faults = 0
  /\ child = [k \in Key |-> [issues |-> {}, linked |-> FALSE]] /\ opened = 0
  /\ saved = NoOperation /\ call = Off

Controller ==
  \/ Deliver \/ Admit \/ RefinementWave \/ Begin \/ Post \/ ReadBrief \/ Session
  \/ Ask \/ Blocked \/ Refined \/ Specialized \/ Complete \/ Plan
  \/ Decompose \/ Child \/ Create \/ Link \/ Coordinate \/ Fail
Next == Controller \/ Write \/ Open \/ Edit
Spec == Init /\ [][Next]_vars

-----------------------------------------------------------------------------
\* An operation that waits for people is continued only by a comment that was written
\* after all of the question it waits on was on the issue, however many comments the
\* question took, what failed before and what was posted again.
Questions == {i \in DOMAIN thread : thread[i] \in asked}
AnswersFollowQuestion ==
  [][saved'.consumed # saved.consumed /\ call.was = "awaiting-human" =>
       \A i \in Questions : i < call.comment]_vars

\* No text of the audit trail is lost and none overtakes an earlier one, although posts
\* fail, are repeated and end in a failed call: what is on the issue, each text at its
\* first appearance, and then the outbox, are all texts in order.
First(n) == {i \in DOMAIN thread : thread[i] = n /\ \A j \in 1..(i - 1) : thread[j] # n}
AuditKeptInOrder ==
  /\ \A n \in 1..texts : First(n) # {} \/ \E j \in DOMAIN saved.outbox : saved.outbox[j] = n
  /\ \A i, j \in DOMAIN saved.outbox : i < j => saved.outbox[i] < saved.outbox[j]
  /\ \A m, n \in 1..texts : m < n => \A i \in First(m), j \in First(n) : i < j
  /\ \A n \in 1..texts : First(n) = {} => \A m \in (n + 1)..texts : First(m) = {}

\* However often a decomposition is interrupted and repeated, and whichever answers were
\* lost, no work item has two issues ("idempotent children", docs/delivery/codex-workflow.md),
\* unless between the two more issues and pull requests were opened than the search reads.
OneChildPerKey ==
  \A k \in Key : \A m, n \in child[k].issues : m < n => n - m > SearchDepth

\* What the workflow's documentation says of a decomposition that nothing disturbs:
\* the parent coordinates its children.
DecompositionCoordinates ==
  [][call.at = "children" /\ call.items = {} /\ faults' = faults /\ call'.at # call.at
       => saved'.phase = "coordinate"]_vars

=============================================================================
