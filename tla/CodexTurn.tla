------------------------------ MODULE CodexTurn ------------------------------
(***************************************************************************)
(* One Codex session with one turn: the app-server client of               *)
(* scripts/lib/codex-client.mjs and runTurn of scripts/lib/codex-loop.mjs, *)
(* as the delivery controller uses them.                                   *)
(*                                                                         *)
(* JavaScript runs one callback at a time, but a promise that is settled   *)
(* runs its continuation later, after other lines of the pipe may have     *)
(* been handled.  A request is therefore pending, then answered, then      *)
(* continued, and a timer or a message may come between any two.  The      *)
(* app-server is external: it answers or does not, sends notifications in  *)
(* the order of the turn, and may die, stall or write rubbish.             *)
(***************************************************************************)
EXTENDS Naturals, Sequences, FiniteSets, CodexAdmission

CONSTANTS
  MaxItems,    \* agent messages of the turn
  MaxPolls,    \* quota readings while the turn runs
  MaxWire      \* lines the client has not read yet

ASSUME BoundsAssumption == {MaxItems, MaxPolls, MaxWire} \subseteq Nat

\* The requests that open a session, in their order; one page of models.
Startup == <<"initialize", "account", "models", "modes", "quota", "config", "thread">>
Opening == {Startup[i] : i \in 1..Len(Startup)}
\* "interrupt" is the request of stop(), "late" the one after turn/start.
Request == Opening \union {"budget", "start", "poll", "interrupt", "late"}
Result  == {"ok", "stop", "error"}
Stop    == {"paused", "input"}

VARIABLES
  app,       \* the process group of the app-server: up, gone
  turn,      \* the turn as the app-server runs it
  items,     \* agent messages it has sent
  wire,      \* lines on their way to the client
  client,    \* open, failed, closed
  pending,   \* requests without an answer
  answers,   \* answers whose continuation has not run
  kill,      \* terminate(): no, asked, gone, failed
  phase,     \* opening, preflight, turn, done
  known,     \* turnId is set
  stopped,   \* the first stop
  armed,     \* the timer of five seconds after a stop
  stall,     \* the stall timer
  posts,     \* the chain of publications: queued, settled, of them failed
  ending,    \* turn/completed, and the publications it waits for
  value,     \* the value finish() was given, and the publications it waits for
  polls,     \* quota readings begun
  lock       \* the account lock of the owner

server == <<app, turn, items>>
pipe   == <<wire, client, pending, answers, kill>>
local  == <<known, stopped, armed, stall, posts, ending, value, polls>>
vars   == <<server, pipe, phase, local, lock>>

Reply(r, says) == [kind |-> "reply", about |-> r, says |-> says]
Note(kind)     == [kind |-> kind, about |-> "own", says |-> "ok"]
Ended(says)    == [kind |-> "completed", about |-> "own", says |-> says]
\* The end of an earlier turn, or of another thread.
Foreign        == [kind |-> "completed", about |-> "other", says |-> "completed"]

Settled   == value.is # "none"
Listening == phase = "turn" /\ ~Settled
Or(this, that) == IF this # "none" THEN this ELSE that

-----------------------------------------------------------------------------
\* The client.

\* request(), in the continuation of the answers done: written and pending, or
\* rejected at once.
Ask(r, done) ==
  IF client = "open"
  THEN pending' = pending \union {r} /\ answers' = answers \ done
  ELSE answers' = (answers \ done) \union {Reply(r, "error")} /\ UNCHANGED pending
AskNothing(done) == answers' = answers \ done /\ UNCHANGED pending

\* fail(): every request is rejected; whoever listened is told and listens no more.
Rejected == {Reply(r, "error") : r \in pending}
Fail(to) ==
  /\ client' = to /\ wire' = <<>>
  /\ pending' = {} /\ answers' = answers \union Rejected

\* close(): no line is read any more and the process group is terminated, once.
CloseClient ==
  /\ kill' = IF kill = "no" THEN "asked" ELSE kill
  /\ IF client = "open" THEN Fail("closed")
     ELSE client' = "closed" /\ UNCHANGED <<wire, pending, answers>>

\* A request that is refused, or not answered in time.
Timeout(r) ==
  /\ r \in pending
  /\ pending' = pending \ {r}
  /\ answers' = answers \union {Reply(r, "error")}
  /\ UNCHANGED <<server, wire, client, kill, phase, local, lock>>

Lost == IF turn \in {"running", "asking"} THEN "lost" ELSE turn

\* (A slip: the group is taken to be gone after the first signal.)
TerminateUnchecked ==
  /\ kill = "asked"
  /\ kill' = "gone"
  /\ UNCHANGED <<server, wire, client, pending, answers, phase, local, lock>>

\* terminate(): the group is gone, or survives even the last signal.
Terminate ==
  /\ kill = "asked"
  /\ \/ app' = "gone" /\ turn' = Lost /\ kill' = "gone"
     \/ app = "up" /\ UNCHANGED <<app, turn>> /\ kill' = "failed"
  /\ UNCHANGED <<items, wire, client, pending, answers, phase, local, lock>>

-----------------------------------------------------------------------------
\* What the callbacks of runTurn share.

\* finish(): the first value stays and the timers are cleared; it is resolved
\* after the publications.
Finish(v) ==
  /\ value' = IF Settled THEN value ELSE [is |-> v, at |-> posts.queued]
  /\ armed' = FALSE /\ stall' = FALSE
  /\ UNCHANGED <<known, stopped, posts, ending, polls>>

\* (A slip: there is no timer that closes a client that does not react.)
HaltUnarmed(why, isKnown, done) ==
  IF stopped # "none" \/ Settled
  THEN UNCHANGED <<stopped, armed>> /\ AskNothing(done)
  ELSE /\ stopped' = why /\ UNCHANGED armed
       /\ IF isKnown THEN Ask("interrupt", done) ELSE AskNothing(done)

\* stop(): the first reason stays; the turn is interrupted when it is known.
Halt(why, isKnown, done) ==
  IF stopped # "none" \/ Settled
  THEN UNCHANGED <<stopped, armed>> /\ AskNothing(done)
  ELSE /\ stopped' = why /\ armed' = TRUE
       /\ IF isKnown THEN Ask("interrupt", done) ELSE AskNothing(done)

\* onFailure, run inside fail().
Broken == IF Listening THEN Finish(Or(stopped, "paused")) ELSE UNCHANGED local

-----------------------------------------------------------------------------
\* Lines from the app-server.

\* A reply: late ones are dropped.
ReceiveReply ==
  LET m == Head(wire)
  IN  /\ wire # <<>> /\ m.kind = "reply"
      /\ wire' = Tail(wire)
      /\ IF m.about \in pending
         THEN pending' = pending \ {m.about} /\ answers' = answers \union {m}
         ELSE UNCHANGED <<pending, answers>>
      /\ UNCHANGED <<server, client, kill, phase, local, lock>>

\* A notification nobody listens to.
ReceiveUnheard ==
  /\ wire # <<>> /\ Head(wire).kind # "reply"
  /\ ~Listening
  /\ wire' = Tail(wire)
  /\ UNCHANGED <<server, client, pending, answers, kill, phase, local, lock>>

\* Activity of the turn: turn/started and agent messages.
ReceiveActivity ==
  LET m == Head(wire)
  IN  /\ wire # <<>> /\ m.kind \in {"started", "item"}
      /\ Listening
      /\ wire' = Tail(wire)
      /\ known' = (known \/ m.kind = "started")
      /\ stall' = (stall \/ stopped = "none")
      /\ posts' = IF m.kind = "item" THEN [posts EXCEPT !.queued = @ + 1] ELSE posts
      /\ UNCHANGED <<server, client, pending, answers, kill, phase, stopped, armed, ending,
                     value, polls, lock>>

\* A request for human input ends the turn: nobody answers it.
ReceiveAsk ==
  /\ wire # <<>> /\ Head(wire).kind = "ask"
  /\ Listening
  /\ wire' = Tail(wire)
  /\ known' = TRUE
  /\ stall' = (stall \/ stopped = "none")
  /\ Halt("input", TRUE, {})
  /\ UNCHANGED <<app, turn, items, client, kill, phase, posts, ending, value, polls, lock>>

\* (A slip: any completion on the pipe is taken for the turn's.)
CompletesAny(m) == TRUE

\* Only the completion of this thread's known turn counts.
Completes(m) == known /\ m.about = "own"

ReceiveCompleted ==
  LET m == Head(wire)
  IN  /\ wire # <<>> /\ m.kind = "completed"
      /\ Listening
      /\ wire' = Tail(wire)
      /\ ending' = IF Completes(m) THEN [is |-> m.says, at |-> posts.queued] ELSE ending
      /\ UNCHANGED <<server, client, pending, answers, kill, phase, known, stopped, armed, stall,
                     posts, value, polls, lock>>

\* checkBudget, by the interval or by account/rateLimits/updated; one at a time.
Poll ==
  /\ Listening /\ stopped = "none"
  /\ polls < MaxPolls
  /\ \A a \in answers : a.about # "poll"
  /\ "poll" \notin pending
  /\ polls' = polls + 1
  /\ Ask("poll", {})
  /\ UNCHANGED <<app, turn, items, wire, client, kill, phase, known, stopped, armed, stall,
                 posts, ending, value, lock>>

-----------------------------------------------------------------------------
\* Continuations.

\* initialize(), capabilities(), threadConfig() and thread/start, one after the
\* other; the first that is refused ends the session.
ContinueOpening(a) ==
  /\ phase = "opening"
  /\ \E i \in 1..Len(Startup) :
       /\ Startup[i] = a.about
       /\ IF a.says # "ok"
          THEN phase' = "done" /\ value' = [is |-> "refused", at |-> 0] /\ AskNothing({a})
          ELSE /\ phase' = IF i < Len(Startup) THEN "opening" ELSE "preflight"
               /\ Ask(IF i < Len(Startup) THEN Startup[i + 1] ELSE "budget", {a})
               /\ UNCHANGED value
  /\ UNCHANGED <<known, stopped, armed, stall, posts, ending, polls>>

\* The quota is read before the turn; one that cannot be read stops it too.
ContinueBudget(a) ==
  /\ a.about = "budget"
  /\ IF a.says # "ok"
     THEN phase' = "done" /\ value' = [is |-> "paused", at |-> 0] /\ AskNothing({a})
     ELSE phase' = "turn" /\ Ask("start", {a}) /\ UNCHANGED value
  /\ turn' = IF phase' = "turn" /\ client = "open" THEN "asked" ELSE turn
  /\ UNCHANGED <<known, stopped, armed, stall, posts, ending, polls>>

\* After turn/start: the turn is known, and interrupted if it was stopped while
\* it was not.
ContinueStart(a) ==
  /\ a.about = "start"
  /\ IF a.says = "ok"
     THEN /\ known' = TRUE
          /\ stall' = (stall \/ (stopped = "none" /\ ~Settled))
          /\ IF stopped # "none" /\ ~Settled THEN Ask("late", {a}) ELSE AskNothing({a})
          /\ UNCHANGED <<stopped, armed, posts, ending, value, polls>>
     ELSE Finish(Or(stopped, "paused")) /\ AskNothing({a})
  /\ UNCHANGED phase

\* After the second interrupt, inside the same try.
ContinueLate(a) ==
  /\ a.about = "late"
  /\ IF a.says = "ok" THEN UNCHANGED local ELSE Finish(Or(stopped, "paused"))
  /\ AskNothing({a})
  /\ UNCHANGED phase

\* A reading that says stop, or none at all, stops the turn.
ContinuePoll(a) ==
  /\ a.about = "poll"
  /\ IF a.says = "ok" THEN UNCHANGED <<stopped, armed>> /\ AskNothing({a})
                      ELSE Halt("paused", known, {a})
  /\ UNCHANGED <<phase, known, stall, posts, ending, value, polls>>

Continue(a) ==
  /\ \/ ContinueBudget(a)
     \/ /\ \/ ContinueOpening(a) \/ ContinueStart(a) \/ ContinueLate(a) \/ ContinuePoll(a)
           \/ a.about = "interrupt" /\ a.says = "ok" /\ AskNothing({a}) /\ UNCHANGED <<phase, local>>
        /\ UNCHANGED turn
  /\ UNCHANGED <<app, items, wire, client, kill, lock>>

\* An interrupt that is refused: the client is closed and the turn settled.
ContinueInterrupt(a) ==
  /\ a.about = "interrupt" /\ a.says # "ok"
  /\ wire' = <<>> /\ kill' = (IF kill = "no" THEN "asked" ELSE kill)
  /\ client' = "closed" /\ pending' = {}
  /\ answers' = (answers \ {a}) \union Rejected
  /\ Broken
  /\ UNCHANGED <<server, phase, lock>>

-----------------------------------------------------------------------------
\* Timers and the chain of publications.

\* The turn showed no activity.
Stall ==
  /\ Listening /\ stall /\ stopped = "none"
  /\ Halt("paused", known, {})
  /\ UNCHANGED <<app, turn, items, wire, client, kill, phase, known, stall, posts, ending, value,
                 polls, lock>>

\* A stopped turn did not end in time: the client is closed, which settles it.
InterruptExpired ==
  /\ Listening /\ armed
  /\ CloseClient /\ Finish(stopped)
  /\ UNCHANGED <<server, phase, lock>>

\* onProgress for the next message; a failure stops the turn.
Publish(ok) ==
  /\ posts.settled < posts.queued
  /\ posts' = [posts EXCEPT !.settled = @ + 1, !.failed = IF ok THEN @ ELSE @ + 1]
  /\ IF ok THEN UNCHANGED <<stopped, armed, pending, answers>> ELSE Halt("paused", known, {})
  /\ UNCHANGED <<app, turn, items, wire, client, kill, phase, known, stall, ending, value, polls,
                 lock>>

\* (A slip: what completed is decided when it is heard.)
OutcomeHeard == IF ending.is = "completed" THEN "completed" ELSE Or(stopped, "paused")

\* A stop prevails over the completion that followed it.
Outcome == Or(stopped, IF ending.is = "completed" THEN "completed" ELSE "paused")

\* (A slip: whatever is still to be published.)
ConcludeAtOnce ==
  /\ Listening /\ ending.is # "none"
  /\ Finish(Outcome)
  /\ UNCHANGED <<server, pipe, phase, lock>>

\* turn/completed, once everything before it is published.
Conclude ==
  /\ Listening /\ ending.is # "none" /\ posts.settled >= ending.at
  /\ Finish(Outcome)
  /\ UNCHANGED <<server, pipe, phase, lock>>

Resolve ==
  /\ phase = "turn" /\ Settled /\ posts.settled >= value.at
  /\ phase' = "done"
  /\ UNCHANGED <<server, pipe, local, lock>>

-----------------------------------------------------------------------------
\* The owner.

\* SIGTERM or the overall limit: abort, whose stop and interrupt end with the close
\* that follows in the same callback.
Cancel ==
  /\ phase # "done" /\ client # "closed"
  /\ CloseClient
  /\ IF Listening
     THEN /\ Finish(Or(stopped, "paused"))
     ELSE UNCHANGED local
  /\ UNCHANGED <<server, phase, lock>>

CloseSession ==
  /\ phase = "done" /\ client # "closed"
  /\ CloseClient
  /\ UNCHANGED <<server, phase, local, lock>>

\* The account lock outlives a process group that could not be stopped.
Unlock ==
  /\ phase = "done" /\ client = "closed" /\ kill = "gone"
  /\ lock' = "free"
  /\ UNCHANGED <<server, pipe, phase, local>>

-----------------------------------------------------------------------------
\* The app-server.

\* A line reaches a client that is open; none changes an outcome, so none is
\* written after it.
CanWrite == app = "up" /\ ~Settled /\ Len(wire) < MaxWire
Emit(m) == wire' = IF client = "open" THEN Append(wire, m) ELSE wire
ServerKeeps == UNCHANGED <<client, pending, answers, kill, phase, local, lock>>

ServerBegins ==
  /\ CanWrite /\ turn = "asked"
  /\ turn' = "running" /\ Emit(Note("started"))
  /\ UNCHANGED <<app, items>> /\ ServerKeeps

\* What the client makes of the answers that a request may get.  The account may be no
\* ChatGPT account, and the plan mode may be missing.
Accepts(ok) == IF ok THEN "ok" ELSE "error"
Says(r) ==
  CASE r \in {"quota", "budget", "poll"} -> {Verdict(reading) : reading \in Readings}
    [] r = "models"             -> {Accepts(ModelsOffered(catalogue)) : catalogue \in Catalogues}
    [] r = "config"             -> {Accepts(ConfigurationSafe(config)) : config \in Configurations}
    [] r \in {"account", "modes"} -> {"ok", "error"}
    [] OTHER                    -> {"ok"}

\* A request is answered; turn/start only once the turn runs.
ServerAnswers(r) ==
  /\ CanWrite /\ r \in pending
  /\ \A i \in 1..Len(wire) : wire[i].about # r
  /\ r = "start" => turn # "asked"
  /\ \E says \in Says(r) : Emit(Reply(r, says))
  /\ UNCHANGED <<app, turn, items>> /\ ServerKeeps

ServerSends(kind) ==
  /\ CanWrite /\ turn = "running" /\ client = "open"
  /\ kind = "item" => items < MaxItems
  /\ items' = IF kind = "item" THEN items + 1 ELSE items
  /\ turn' = IF kind = "ask" THEN "asking" ELSE turn
  /\ Emit(Note(kind))
  /\ UNCHANGED app /\ ServerKeeps

ServerEnds(says) ==
  /\ app = "up" /\ (Settled \/ CanWrite) /\ turn \in {"running", "asking"}
  /\ turn = "asking" => says # "completed"
  /\ turn' = says /\ IF Settled THEN UNCHANGED wire ELSE Emit(Ended(says))
  /\ UNCHANGED <<app, items>> /\ ServerKeeps

\* The completion of an earlier turn of the session is written again.
ServerStrays ==
  /\ CanWrite /\ "start" \in pending
  /\ \A i \in 1..Len(wire) : wire[i] # Foreign
  /\ Emit(Foreign)
  /\ UNCHANGED <<app, turn, items>> /\ ServerKeeps

ServerDies ==
  /\ app = "up" /\ app' = "gone"
  /\ turn' = Lost
  /\ UNCHANGED <<items, wire>> /\ ServerKeeps

\* The process closed and its lines are read, or a line is not JSON.
Breaks ==
  /\ client = "open"
  /\ app = "gone" => wire = <<>>
  /\ Fail("failed")
  /\ Broken
  /\ UNCHANGED <<server, kill, phase, lock>>

-----------------------------------------------------------------------------
Init ==
  /\ app = "up" /\ turn = "none" /\ items = 0
  /\ pending = {Startup[1]} /\ answers = {}
  /\ wire = <<>>
  /\ client = "open" /\ kill = "no" /\ phase = "opening"
  /\ known = FALSE /\ stopped = "none" /\ armed = FALSE /\ stall = FALSE
  /\ posts = [queued |-> 0, settled |-> 0, failed |-> 0]
  /\ ending = [is |-> "none", at |-> 0] /\ value = [is |-> "none", at |-> 0]
  /\ polls = 0 /\ lock = "held"

Receive == ReceiveReply \/ ReceiveUnheard \/ ReceiveActivity \/ ReceiveAsk \/ ReceiveCompleted
Callback == \E a \in answers : Continue(a) \/ ContinueInterrupt(a)
Chain == (\E ok \in BOOLEAN : Publish(ok)) \/ Conclude \/ Resolve
Server ==
  \/ ServerBegins \/ ServerDies \/ ServerStrays
  \/ \E r \in Request : ServerAnswers(r)
  \/ \E kind \in {"item", "ask"} : ServerSends(kind)
  \/ \E says \in {"completed", "failed"} : ServerEnds(says)
\* The session may be over: what the owner still has to do is under FairSpec.
Over == phase = "done" /\ UNCHANGED vars

Next ==
  \/ Receive \/ Callback \/ Chain \/ Server \/ Poll \/ Breaks
  \/ \E r \in Request : Timeout(r)
  \/ Stall \/ InterruptExpired \/ Terminate
  \/ Cancel \/ CloseSession \/ Unlock
  \/ Over

Spec == Init /\ [][Next]_vars

\* Lines are read, continuations run, timers fire, publications settle, and the
\* owner goes on; nothing is asked of the app-server.
FairSpec ==
  /\ Spec
  /\ WF_vars(Receive) /\ WF_vars(Callback) /\ WF_vars(Chain)
  /\ WF_vars(Stall) /\ WF_vars(InterruptExpired) /\ WF_vars(Terminate)
  /\ WF_vars(CloseSession) /\ WF_vars(Unlock)
  /\ \A r \in Request : WF_vars(Timeout(r))

-----------------------------------------------------------------------------
\* The types, and the bounds of the chain.
TypeOK ==
  /\ app \in {"up", "gone"} /\ lock \in {"held", "free"}
  /\ turn \in {"none", "asked", "running", "asking", "completed", "failed", "lost"}
  /\ items \in 0..MaxItems /\ polls \in 0..MaxPolls
  /\ pending \subseteq Request
  /\ \A a \in answers : a = Reply(a.about, a.says) /\ a.about \in Request /\ a.says \in Result
  /\ client \in {"open", "failed", "closed"} /\ kill \in {"no", "asked", "gone", "failed"}
  /\ phase \in {"opening", "preflight", "turn", "done"}
  /\ {known, armed, stall} \subseteq BOOLEAN
  /\ stopped \in {"none"} \union Stop
  /\ posts.queued \in 0..MaxItems /\ posts.settled \in 0..posts.queued
  /\ posts.failed \in 0..posts.settled
  /\ ending.is \in {"none", "completed", "failed"} /\ ending.at \in 0..posts.queued
  /\ value.is \in {"none", "refused", "completed"} \union Stop /\ value.at \in 0..posts.queued

\* A turn is reported completed only if the app-server completed that very turn:
\* not because of another turn's end, a stop, a failure or a timeout
\* (the correlation of turn/completed, codex-loop.mjs 457-462).
OutcomeOfOwnTurn == value.is = "completed" => turn = "completed"

\* Whoever is told that the turn completed may rely on every message of it being
\* on the issue: none is still being published and none failed
\* ("Wait for mandatory progress publication", codex-loop.mjs 483-497).
PublishedFirst ==
  phase = "done" /\ value.is = "completed" => posts.settled = items /\ posts.failed = 0

\* A stop that came before the outcome is the outcome, even when the turn
\* completed between the stop and the outcome.
StopPrevails == Settled /\ stopped # "none" => value.is = stopped

\* The account lock is released only when no process of the session is left
\* ("retain the account lock for operator inspection", codex-client.mjs 556).
LockOutlivesServer == lock = "free" => app = "gone" /\ turn \notin {"running", "asking"}

\* runTurn returns, whatever the app-server does or leaves undone.
TurnEnds == <>(phase = "done")

=============================================================================
