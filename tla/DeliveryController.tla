------------------------ MODULE DeliveryController ------------------------
(***************************************************************************)
(* The life of one delivery operation: deliver() of                        *)
(* scripts/codex-delivery.mjs, called again and again for one source issue *)
(* with nothing but its checkpoint (state.json) and the issue's workspace  *)
(* carried over.  account.lock admits one call at a time, so one call is   *)
(* modelled; a call that finds the lock returns and changes nothing.       *)
(*                                                                         *)
(* An action is what happens between two points where the process may be   *)
(* killed with an effect: a checkpoint write, an answer from GitHub or     *)
(* Codex, a commit, a push.  Any step may instead fail, by an API error, a *)
(* cancellation or the end of the active time: the clock is that choice.   *)
(* A tree is a number, 0 the base; the source issue is the set 1..facts of *)
(* its human edits and comments.                                           *)
(*                                                                         *)
(* Left out: refinement, decomposition, coordination and the specialised   *)
(* phases; the Codex session identity; the outbox and the comment boundary *)
(* (which waiting comments are newer is a choice here); lifecycle fields;  *)
(* failing writes of the state directory; GITHUB_ACTIONS, where every call *)
(* is held at admission.                                                   *)
(***************************************************************************)
EXTENDS Integers, FiniteSets

CONSTANTS
  Dispatch,   \* event keys other than comments
  NoEvent,
  Trigger,    \* the comments that invoke the controller
  Installs,   \* whether the validation profile has install commands
  Crashes,    \* whether the process may be killed
  MaxAttempts, MaxTurns, MaxValidations, \* INITIAL_OPERATION_LIMITS
  MaxTree,    \* bound of the model: trees told apart
  MaxFacts    \* bound of the model: edits and comments of the issue

ASSUME EventAssumption ==
  Trigger \subseteq 2..MaxFacts /\ NoEvent \notin Dispatch \union Trigger /\ Dispatch \cap Trigger = {}
ASSUME LimitAssumption ==
  /\ MaxAttempts \in Nat \ {0} /\ MaxTurns \in Nat \ {0} /\ MaxValidations \in Nat \ {0}
  /\ MaxTree \in Nat \ {0} /\ MaxFacts \in Nat \ {0} /\ Installs \in BOOLEAN /\ Crashes \in BOOLEAN

VARIABLES
  at,     \* where the call is
  event,  \* the event it is for
  mem,    \* its `state`
  brief,  \* [facts, phase]: what it last read of the issue, and in which phase it began
  saved,  \* state.json
  lock,   \* account.lock exists
  loose,  \* what may still be alive: the call's "client" and "token", the "stray" token of a call
          \* that could not revoke it, the "orphan" token of one that was killed
  facts,  \* the source issue
  tree,   \* the tree of the workspace's index
  head,   \* the tree of its HEAD
  pushed, \* the tree last pushed, 0 if none
  turns,    \* history: model turns that really ran
  checks,   \* history: final validations that really ran
  passed,   \* history: trees that passed one
  shown,    \* history: facts some model turn has been given
  acted     \* history: events some call acted on

call    == <<at, event, mem, brief>>
world   == <<facts, tree, head, pushed>>
history == <<turns, checks, passed, shown, acted>>
vars    == <<call, saved, lock, loose, world, history>>

Event == Dispatch \union Trigger
Facts == 1..facts

Fresh == [status |-> "new", phase |-> "plan", attempts |-> 0, turns |-> 0, validations |-> 0,
          prepared |-> FALSE, reserved |-> FALSE, cleanup |-> FALSE, branched |-> FALSE,
          events |-> {}, digest |-> {}, validated |-> 0]
NoState == [Fresh EXCEPT !.status = "none"]
NoBrief == [facts |-> {}, phase |-> "plan"]

-----------------------------------------------------------------------------
\* Helpers.

Goto(from, to) == at = from /\ at' = to
\* save(): the in-memory state becomes the checkpoint.
Save(state) == mem' = state /\ saved' = state
Still == UNCHANGED <<event, brief, lock, loose, world, history>>

\* The holds of a saved operation.
Exhausted(s) == s.validations >= MaxValidations /\ ~s.prepared
Held(s) ==
  \/ s.cleanup \/ s.reserved
  \/ s.attempts >= MaxAttempts
  \/ s.phase \in {"branch", "implement", "verify"} /\ Exhausted(s)
  \/ s.phase \in {"plan", "branch", "implement"} /\ s.turns >= MaxTurns

\* (A slip: events are not looked up in the checkpoint.)
EventCompleteByStatus == mem.status \in {"ready", "running"}

EventComplete == mem.status \in {"ready", "running"} \/ event \in mem.events

\* Where a phase is taken up.
Enter(s) == CASE s.phase = "plan" -> "plan"
              [] s.phase = "branch" -> "branch"
              [] s.phase = "implement" /\ Installs /\ ~s.prepared -> "prepare"
              [] OTHER -> "loop"

Invalidated(s) == [s EXCEPT !.phase = "plan"]

-----------------------------------------------------------------------------
\* Admission.

\* The event is taken when account.lock can be created.
Deliver(e) ==
  /\ ~lock /\ lock' = TRUE
  /\ e \in Trigger => e \in Facts
  /\ event' = e
  /\ Goto("off", "locked")
  /\ UNCHANGED <<mem, brief, saved, loose, world, history>>

\* Held, or a comment without a saved operation: the checkpoint stays as it is.
Refuse ==
  /\ IF saved.status = "none" THEN event \in Trigger ELSE Held(saved)
  /\ Goto("locked", "closing")
  /\ Still /\ UNCHANGED <<mem, saved>>

\* (A slip: a paused operation starts afresh.)
AdmitAfresh ==
  /\ IF saved.status = "none" THEN event \notin Trigger ELSE ~Held(saved)
  /\ mem' = IF saved.status \in {"none", "paused"} THEN Fresh ELSE saved
  /\ Goto("locked", "opened")
  /\ Still /\ UNCHANGED saved

Admit ==
  /\ IF saved.status = "none" THEN event \notin Trigger ELSE ~Held(saved)
  /\ mem' = IF saved.status = "none" THEN Fresh ELSE saved
  /\ Goto("locked", "opened")
  /\ Still /\ UNCHANGED saved

\* beginActiveTime, once per call.
Begin ==
  /\ mem.attempts < MaxAttempts /\ ~mem.reserved
  /\ Goto("opened", "begun")
  /\ Save([mem EXCEPT !.attempts = @ + 1, !.reserved = TRUE])
  /\ Still

\* The installation token is requested; an answer that is lost is a failure
\* of the next step, with the token possibly issued.
Mint ==
  /\ Goto("begun", "minted")
  /\ loose' = loose \union {"token"}
  /\ UNCHANGED <<event, mem, brief, saved, lock, world, history>>

\* Permissions, source and metadata are read.
Preflight ==
  /\ Goto("minted", "authorized")
  /\ Still /\ UNCHANGED <<mem, saved>>

\* A comment on an issue that is closed.
Inactive ==
  /\ event \in Trigger
  /\ Goto("minted", "closing")
  /\ Still /\ UNCHANGED <<mem, saved>>

\* An event already acted on, an operation complete, or a comment that is
\* not (newer than) an answer.
Ignore ==
  /\ \/ EventComplete
     \/ event \in Trigger /\ mem.status # "paused"
  /\ Goto("authorized", "closing")
  /\ Still /\ UNCHANGED <<mem, saved>>

\* The gates pass, the event is recorded and the operation runs.
Start ==
  /\ ~EventComplete
  /\ event \in Trigger => mem.status \in {"paused", "awaiting-human"}
  /\ mem.phase \in {"branch", "implement", "verify"} => ~Exhausted(mem)
  /\ Goto("authorized", IF mem.phase \in {"commit", "publish"} THEN mem.phase ELSE "session")
  /\ Save([mem EXCEPT !.events = @ \union {event}, !.status = "running"])
  /\ acted' = acted \union {event}
  /\ UNCHANGED <<event, brief, lock, loose, world, turns, checks, passed, shown>>

-----------------------------------------------------------------------------
\* The session: the brief is read without the comment that continues it, and
\* a changed one returns the operation to planning.

\* (A slip: the session adopts whatever brief it reads.)
OpenSessionAdopting ==
  /\ mem.phase = "verify" \/ mem.turns < MaxTurns
  /\ loose' = loose \union {"client"}
  /\ brief' = [facts |-> Facts \ {event}, phase |-> mem.phase]
  /\ Save([mem EXCEPT !.digest = Facts \ {event}]) /\ Goto("session", "absorb")
  /\ UNCHANGED <<event, lock, world, history>>

OpenSession ==
  /\ mem.phase = "verify" \/ mem.turns < MaxTurns
  /\ loose' = loose \union {"client"}
  /\ LET read == Facts \ {event}
     IN  /\ brief' = [facts |-> read, phase |-> mem.phase]
         /\ IF mem.phase = "plan"
            THEN Save([mem EXCEPT !.digest = read]) /\ Goto("session", "absorb")
            ELSE IF mem.digest = read
            THEN UNCHANGED <<mem, saved>> /\ Goto("session", "absorb")
            ELSE Save(Invalidated(mem)) /\ Goto("session", "broken")
  /\ UNCHANGED <<event, lock, world, history>>

\* After a comment the brief is read again, now with it.
Absorb ==
  /\ IF event \in Trigger THEN Save([mem EXCEPT !.digest = Facts]) ELSE UNCHANGED <<mem, saved>>
  /\ Goto("absorb", Enter(mem))
  /\ Still

\* (A slip: the allowance is asked for at the start of the call only.)
ReserveTurnFreely ==
  /\ \/ Goto("plan", "turning")
     \/ mem.phase = "implement" /\ Goto("loop", "turning")
  /\ Save([mem EXCEPT !.turns = @ + 1])
  /\ Still

\* (A slip: the charge reaches the checkpoint with the next save only.)
ReserveTurnUnsaved ==
  /\ mem.turns < MaxTurns
  /\ \/ Goto("plan", "turning")
     \/ mem.phase = "implement" /\ Goto("loop", "turning")
  /\ mem' = [mem EXCEPT !.turns = @ + 1] /\ UNCHANGED saved
  /\ Still

\* performTurn, first half: the turn is charged before it runs.
ReserveTurn ==
  /\ mem.turns < MaxTurns
  /\ \/ Goto("plan", "turning")
     \/ mem.phase = "implement" /\ Goto("loop", "turning")
  /\ Save([mem EXCEPT !.turns = @ + 1])
  /\ Still

\* The turn: it is given the brief that was read and, in the phase the call
\* began in, the comment.  Only an implementation turn may write.
Turn ==
  /\ Goto("turning", "answered")
  /\ turns' = turns + 1
  /\ shown' = shown \union brief.facts
                    \union (IF mem.phase = brief.phase THEN {event} \intersect Trigger ELSE {})
  /\ IF mem.phase = "implement" THEN tree' \in 0..MaxTree ELSE UNCHANGED tree
  /\ UNCHANGED <<event, mem, brief, saved, lock, loose, facts, head, pushed, checks, passed, acted>>

\* The outcome asks a question: the operation waits for a human.
AskHuman ==
  /\ Goto("answered", "broken")
  /\ Save([mem EXCEPT !.status = "awaiting-human"])
  /\ Still

AcceptPlan ==
  LET next == [mem EXCEPT !.phase = IF mem.branched THEN "implement" ELSE "branch", !.branched = TRUE]
  IN  /\ mem.phase = "plan"
      /\ Goto("answered", Enter(next))
      /\ Save(next)
      /\ Still

CreateBranch ==
  LET next == [mem EXCEPT !.phase = "implement"]
  IN  /\ tree = 0 /\ head = 0
      /\ Goto("branch", Enter(next))
      /\ Save(next)
      /\ Still

\* The implementation continues, or is handed to verification.
AcceptWork ==
  /\ mem.phase = "implement"
  /\ Goto("answered", "loop")
  /\ \E phase \in {"implement", "verify"} : Save([mem EXCEPT !.phase = phase])
  /\ Still

-----------------------------------------------------------------------------
\* Validation.

Charged(s) == [s EXCEPT !.validations = @ + 1, !.prepared = FALSE]

\* The dependencies are prepared, on an attempt of its own.
ReservePreparation ==
  /\ mem.validations < MaxValidations
  /\ Goto("prepare", "preparing")
  /\ Save(Charged(mem))
  /\ Still

Prepared ==
  /\ Goto("preparing", "loop")
  /\ Save([mem EXCEPT !.prepared = TRUE])
  /\ Still

\* (A slip: the preparation is not consumed.)
ReserveVerificationKeeping ==
  /\ mem.phase = "verify"
  /\ ~mem.prepared => mem.validations < MaxValidations
  /\ Goto("loop", "verifying")
  /\ Save(IF mem.prepared THEN mem ELSE Charged(mem))
  /\ Still

\* The final validation takes the prepared attempt or a new one.
ReserveVerification ==
  /\ mem.phase = "verify"
  /\ ~mem.prepared => mem.validations < MaxValidations
  /\ Goto("loop", "verifying")
  /\ Save(IF mem.prepared THEN [mem EXCEPT !.prepared = FALSE] ELSE Charged(mem))
  /\ Still

\* The candidate is staged after the install commands ran once more.
Verify ==
  /\ Goto("verifying", "judging")
  /\ checks' = checks + 1
  /\ tree' \in 0..MaxTree
  /\ UNCHANGED <<event, mem, brief, saved, lock, loose, facts, head, pushed, turns, passed, shown, acted>>

\* Every command passed and left the staged tree as it was.
Pass ==
  /\ Goto("judging", "commit")
  /\ passed' = passed \union {tree}
  /\ Save([mem EXCEPT !.validated = tree, !.phase = "commit"])
  /\ UNCHANGED <<event, brief, lock, loose, world, turns, checks, shown, acted>>

\* A command failed, or changed the tree: back to the implementation, unless
\* that was the last attempt.
Reject ==
  /\ tree' \in 0..MaxTree
  /\ IF mem.validations = MaxValidations
     THEN Goto("judging", "broken") /\ UNCHANGED <<mem, saved>>
     ELSE Goto("judging", "loop") /\ Save([mem EXCEPT !.phase = "implement"])
  /\ UNCHANGED <<event, brief, lock, loose, facts, head, pushed, history>>

-----------------------------------------------------------------------------
\* Publication.

\* requireCurrentBrief without an exclusion, before the commit and before the push: the
\* issue is as the digest has it, or the operation returns to planning.  What is written
\* after this reading, while the workspace is checked, is not seen.  Owned processes are
\* stopped before the first of the two.
Recheck ==
  /\ mem.digest = Facts
  /\ Goto("commit", "committing") \/ Goto("publish", "pushing")
  /\ brief' = [brief EXCEPT !.facts = Facts] /\ loose' = loose \ {"client"}
  /\ UNCHANGED <<event, mem, saved, lock, world, history>>

Stale ==
  /\ mem.digest # Facts
  /\ Goto("commit", "broken") \/ Goto("publish", "broken")
  /\ Save(Invalidated(mem)) /\ loose' = loose \ {"client"}
  /\ UNCHANGED <<event, brief, lock, world, history>>

\* The verified tree is committed.
Commit ==
  /\ tree = mem.validated
  /\ Goto("committing", "committed")
  /\ head' = tree
  /\ UNCHANGED <<event, mem, brief, saved, lock, loose, facts, tree, pushed, history>>

Committed ==
  /\ Goto("committed", "publish")
  /\ Save([mem EXCEPT !.phase = "publish"])
  /\ Still

\* (A slip: only a clean status is required.)
PushClean ==
  /\ tree = head /\ head # 0
  /\ Goto("pushing", "pushed")
  /\ pushed' = head
  /\ UNCHANGED <<event, mem, brief, saved, lock, loose, facts, tree, head, history>>

Push ==
  /\ tree = head /\ tree = mem.validated /\ head # 0
  /\ Goto("pushing", "pushed")
  /\ pushed' = head
  /\ UNCHANGED <<event, mem, brief, saved, lock, loose, facts, tree, head, history>>

\* The pull request is opened or updated and the operation is complete; a
\* report that cannot be posted still fails.
Complete ==
  /\ Goto("pushed", "reporting")
  /\ Save([mem EXCEPT !.status = "ready"])
  /\ Still

Reported ==
  /\ Goto("reporting", "closing")
  /\ Still /\ UNCHANGED <<mem, saved>>

-----------------------------------------------------------------------------
\* Failure and clean-up.

Early == {"opened", "begun", "minted", "authorized"}
Late  == {"session", "absorb", "plan", "turning", "answered", "branch", "prepare", "preparing",
          "loop", "verifying", "judging", "commit", "committing", "committed", "publish", "pushing",
          "pushed", "reporting", "broken"}

\* The catch block: a hold ends a wait, and no handoff is posted for it or
\* before the preflight and the strategy context are admitted.
Fail(hold) ==
  /\ at \in Early \union Late
  /\ \/ at' = "closing" /\ (hold \/ at \in Early)
     \/ at' = "handoff" /\ ~hold /\ at \in Late \union {"authorized"}
  /\ Save([mem EXCEPT !.status = IF @ = "awaiting-human" /\ ~hold THEN @ ELSE "paused"])
  /\ Still

HandOff ==
  /\ Goto("handoff", "closing")
  /\ \E posted \in BOOLEAN :
       IF posted THEN UNCHANGED <<mem, saved>> ELSE Save([mem EXCEPT !.status = "paused"])
  /\ Still

\* The client is stopped and the active time settled, or one of them fails.
Close ==
  /\ Goto("closing", "revoking")
  /\ \/ /\ loose' = loose \ {"client"}
        /\ IF mem.reserved THEN Save([mem EXCEPT !.reserved = FALSE]) ELSE UNCHANGED <<mem, saved>>
     \/ /\ mem.reserved /\ loose' \in {loose, loose \ {"client"}}
        /\ UNCHANGED <<mem, saved>>
  /\ UNCHANGED <<event, brief, lock, world, history>>

Revoke ==
  /\ Goto("revoking", "unlocking")
  /\ loose' = loose \ {"token"}
  /\ UNCHANGED <<event, mem, brief, saved, lock, world, history>>

\* The revocation, or the issuance before it, is not confirmed.
RevokeUncertain ==
  /\ "token" \in loose
  /\ Goto("revoking", "flagging")
  /\ loose' = (loose \ {"token"}) \union {"stray"}
  /\ UNCHANGED <<event, mem, brief, saved, lock, world, history>>

End == event' = NoEvent /\ mem' = NoState /\ brief' = NoBrief

\* The checkpoint says so, and the lock stays.
Flag ==
  /\ Goto("flagging", "off")
  /\ saved' = [mem EXCEPT !.status = "paused", !.cleanup = TRUE]
  /\ End
  /\ UNCHANGED <<lock, loose, world, history>>

\* (A slip: the lock is removed whatever the shutdown confirmed.)
UnlockAlways ==
  /\ Goto("unlocking", "off")
  /\ lock' = FALSE
  /\ UNCHANGED <<facts, pushed, tree, head>>
  /\ End
  /\ UNCHANGED <<saved, loose, history>>

\* The lock is removed once everything is confirmed; a ready operation's
\* workspace goes first, when its terminal receipt could be written.
Unlock ==
  /\ Goto("unlocking", "off")
  /\ lock' = mem.reserved
  /\ \/ UNCHANGED <<tree, head>>
     \/ mem.status = "ready" /\ ~mem.reserved /\ tree' = 0 /\ head' = 0
  /\ End
  /\ UNCHANGED <<saved, loose, facts, pushed, history>>

\* The process is killed: what it owned may live on.
Kill ==
  /\ Crashes /\ at # "off" /\ at' = "off"
  /\ loose' = IF loose \intersect {"token", "stray"} # {}
               THEN (loose \ {"token", "stray"}) \union {"orphan"} ELSE loose
  /\ End
  /\ UNCHANGED <<saved, lock, world, history>>

-----------------------------------------------------------------------------
\* Around the calls.

\* The operator makes sure that no Codex process is alive and removes the lock.
OperatorUnlocks ==
  /\ at = "off" /\ lock
  /\ lock' = FALSE /\ loose' = loose \ {"client"}
  /\ UNCHANGED <<call, saved, world, history>>

\* Between calls somebody repairs files in the workspace, or commits them.
Meddle ==
  /\ at = "off" /\ ~lock
  /\ tree' \in 0..MaxTree /\ head' \in {head, tree'}
  /\ UNCHANGED <<call, saved, lock, loose, facts, pushed, history>>

\* A human edits the issue or comments on it.
Discuss ==
  /\ facts < MaxFacts /\ facts' = facts + 1
  /\ UNCHANGED <<call, saved, lock, loose, tree, head, pushed, history>>

-----------------------------------------------------------------------------
Init ==
  /\ at = "off" /\ event = NoEvent /\ mem = NoState /\ brief = NoBrief
  /\ saved = NoState /\ lock = FALSE /\ loose = {}
  /\ facts = 1 /\ tree = 0 /\ head = 0 /\ pushed = 0
  /\ turns = 0 /\ checks = 0 /\ passed = {} /\ shown = {} /\ acted = {}

Admission   == Refuse \/ Admit \/ Begin \/ Mint \/ Preflight \/ Inactive \/ Ignore \/ Start
Work        == OpenSession \/ Absorb \/ ReserveTurn \/ Turn \/ AskHuman \/ AcceptPlan
                 \/ CreateBranch \/ AcceptWork
Validation  == ReservePreparation \/ Prepared \/ ReserveVerification \/ Verify \/ Pass \/ Reject
Publication == Recheck \/ Stale \/ Commit \/ Committed \/ Push \/ Complete \/ Reported
Ending      == HandOff \/ Close \/ Revoke \/ RevokeUncertain \/ Flag \/ Unlock \/ Kill

Next ==
  \/ \E e \in Event : Deliver(e)
  \/ Admission \/ Work \/ Validation \/ Publication \/ Ending
  \/ \E hold \in BOOLEAN : Fail(hold)
  \/ OperatorUnlocks \/ Meddle \/ Discuss

Spec == Init /\ [][Next]_vars

-----------------------------------------------------------------------------
\* Properties.

Status == {"none", "new", "running", "paused", "awaiting-human", "ready"}
Phase  == {"plan", "branch", "implement", "verify", "commit", "publish"}
Place  == Early \union Late \union
          {"off", "locked", "handoff", "closing", "revoking", "flagging", "unlocking"}
State == [status : Status, phase : Phase, attempts : 0..MaxAttempts, turns : 0..MaxTurns,
          validations : 0..MaxValidations, prepared : BOOLEAN, reserved : BOOLEAN,
          cleanup : BOOLEAN, branched : BOOLEAN, events : SUBSET Event,
          digest : SUBSET (1..MaxFacts), validated : 0..MaxTree]

\* Types, with the limits readSavedState checks: a checkpoint the controller
\* writes is one it can read back.
TypeOK ==
  /\ at \in Place /\ event \in Event \union {NoEvent}
  /\ mem \in State /\ saved \in State
  /\ brief \in [facts : SUBSET (1..MaxFacts), phase : Phase]
  /\ lock \in BOOLEAN /\ loose \subseteq {"client", "token", "stray", "orphan"}
  /\ facts \in 1..MaxFacts /\ {tree, head, pushed} \subseteq 0..MaxTree
  /\ turns \in Nat /\ checks \in Nat
  /\ passed \subseteq 0..MaxTree /\ shown \subseteq 1..MaxFacts /\ acted \subseteq Event

\* What ran was charged to the checkpoint first, through every failure, kill
\* and resumption: the limits bound the turns and final validations of the
\* whole operation, not those of one call.
ConsumptionCharged == turns <= saved.turns /\ checks <= saved.validations

\* Only a tree that passed a validation is pushed, and a checkpoint that is
\* past verification names one, whatever was repaired between the calls.
PublishedValidated ==
  /\ pushed # 0 => pushed \in passed
  /\ saved.phase \in {"commit", "publish"} => saved.validated \in passed

\* A workspace without a lock has nothing of an earlier call at work in it.
LockGuards == ~lock => loose \subseteq {"stray", "orphan"}

\* One event starts work at most once, however often it is delivered.
ActedOnce == [][at = "authorized" /\ mem'.status = "running" => event \notin acted]_vars

\* Unless a comment continued the operation, everything that the issue said when it was
\* last read before a push was put before the model.  What is written between this reading
\* and the push is pushed unseen: the readings are "snapshots, not a lock on issue edits"
\* (docs/delivery/codex-workflow.md).  (A comment is left out of the brief and taken into
\* the digest, and with it whatever was written since the brief was read.)
PublishedSeen ==
  at \in {"pushing", "pushed"} /\ acted \intersect Trigger = {} => brief.facts \subseteq shown

=============================================================================
