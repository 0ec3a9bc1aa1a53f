-------------------------- MODULE CodexTurnProofs --------------------------
(***************************************************************************)
(* Proofs about CodexTurn for any number of messages, quota readings and   *)
(* unread lines.  The properties rest on what each phase still waits for   *)
(* (Waiting), on a tally of the messages between the app-server and the    *)
(* chain of publications (Tally), on what a completion that was heard says *)
(* (Heard), on what an outcome was decided from (Decided), and on what a   *)
(* termination that succeeded says of the process group (Ownership).       *)
(***************************************************************************)
EXTENDS CodexTurn, TLAPS, SequenceTheorems

\* The lines an app-server writes, and the answers among them.
Answer == [kind : {"reply"}, about : Request, says : Result]
Notice == {Note("started"), Note("item"), Note("ask"), Ended("completed"), Ended("failed"),
           Foreign}

Line == Answer \union Notice

\* What the client holds is made of those, and the chain has its three counters.
Shaped ==
  /\ wire \in Seq(Line) /\ answers \subseteq Answer
  /\ posts \in [queued : Nat, settled : Nat, failed : Nat]
  /\ known \in BOOLEAN /\ armed \in BOOLEAN /\ stall \in BOOLEAN

\* Requests that have no continuation behind them yet.
Outstanding == pending \union {a.about : a \in answers}

\* Each of them has one answer, or none yet.
Unique ==
  /\ \A a, b \in answers : a.about = b.about => a = b
  /\ \A a \in answers : a.about \notin pending

\* Before the turn one request at a time is waited for, and nothing is stopped or
\* settled; later none of those requests comes back, and the two interrupts have
\* their reasons.
Waiting ==
  /\ Unique
  /\ phase = "opening" => \E r \in Opening : Outstanding = {r}
  /\ phase = "preflight" => Outstanding = {"budget"}
  /\ phase \in {"opening", "preflight"} => turn = "none" /\ stopped = "none" /\ ~Settled
  /\ phase \in {"turn", "done"} => Outstanding \cap (Opening \union {"budget"}) = {}
  /\ phase = "done" => Settled
  /\ "late" \in Outstanding => "start" \notin Outstanding
  /\ "interrupt" \in Outstanding => stopped # "none"

\* The messages of the lines w, counted up from those before them to all that were
\* sent; the end of the turn, which says how, comes after them.
Messages(m) == IF m.kind = "item" THEN 1 ELSE 0
Ends(m)     == m.kind = "completed" /\ m.about = "own"
Counted(w, count, sent, how) ==
  /\ count[Len(w)] = sent
  /\ \A i \in 1..Len(w) :
       /\ count[i] = count[i - 1] + Messages(w[i])
       /\ Ends(w[i]) => how = w[i].says /\ count[i] = sent
CountedFrom(w, before, sent, how) ==
  \E count \in [0..Len(w) -> 0..sent] : count[0] = before /\ Counted(w, count, sent, how)

\* Until the outcome, every message sent is queued or on its way.
Tally ==
  /\ posts.queued <= items
  /\ turn = "none" => items = 0
  /\ ~Settled => CountedFrom(wire, posts.queued, items, turn)

\* A completion that was heard is the turn's, and every message came before it.
Heard == ending.is = "completed" =>
  turn = "completed" /\ ending.at = posts.queued /\ posts.queued = items

\* An outcome is the first stop, or the completion with all its messages published.
Decided ==
  /\ StopPrevails
  /\ armed => stopped # "none"
  /\ posts.failed > 0 /\ ~Settled => stopped # "none"
  /\ value.is = "completed" =>
       ending.is = "completed" /\ posts.settled = posts.queued /\ posts.failed = 0

\* A group that was terminated is gone, and takes the turn with it.
Ownership ==
  /\ kill = "gone" => app = "gone"
  /\ app = "gone" => turn \notin {"running", "asking"}
  /\ lock = "free" => kill = "gone"

IInv == TypeOK /\ Shaped /\ Waiting /\ Tally /\ Heard /\ Decided /\ Ownership
-----------------------------------------------------------------------------

(* The session opens with seven requests, none of which is sent later. *)
LEMMA Names ==
  /\ Len(Startup) = 7
  /\ Opening = {"initialize", "account", "models", "modes", "quota", "config", "thread"}
  /\ \A i \in 1..7, j \in 1..7 : Startup[i] = Startup[j] => i = j
BY DEF Startup, Opening

(* The requests of the turn are requests. *)
LEMMA LateRequests == {"budget", "start", "poll", "interrupt", "late"} \subseteq Request
BY DEF Request

(* The answer to a request is one of the lines, and says what it says. *)
LEMMA AnswerIs ==
  \A r \in Request, says \in Result :
    /\ Reply(r, says) \in Answer /\ Reply(r, says).about = r
    /\ Reply(r, says).says = says /\ Reply(r, says).kind = "reply"
BY DEF Reply, Answer

(* And the answers are known by what they are about and say. *)
LEMMA AnswerOnly ==
  \A a \in Answer : a = Reply(a.about, a.says) /\ a.about \in Request /\ a.says \in Result
BY DEF Reply, Answer

(* What the client makes of an answer is one of three results. *)
LEMMA SaysResult == \A r \in Request : Says(r) \subseteq Result
<1>1. \A reading : Verdict(reading) \in Result
  BY DEF Verdict, Result
<1>2. \A ok : Accepts(ok) \in Result
  BY DEF Accepts, Result
<1> QED
  BY <1>1, <1>2 DEF Says, Result

(* Reading a line, or writing one, leaves lines on the pipe. *)
LEMMA Lines ==
  /\ <<>> \in Seq(Line)
  /\ \A w \in Seq(Line), m \in Line : Append(w, m) \in Seq(Line)
  /\ \A w \in Seq(Line) : w # <<>> => Head(w) \in Line /\ Tail(w) \in Seq(Line)
BY EmptySeq, AppendProperties, HeadTailProperties


(* The type invariant, part by part. *)
FlagsTyped ==
  /\ app \in {"up", "gone"} /\ lock \in {"held", "free"}
  /\ turn \in {"none", "asked", "running", "asking", "completed", "failed", "lost"}
  /\ items \in 0..MaxItems /\ polls \in 0..MaxPolls
  /\ client \in {"open", "failed", "closed"} /\ kill \in {"no", "asked", "gone", "failed"}
  /\ phase \in {"opening", "preflight", "turn", "done"}
  /\ known \in BOOLEAN /\ armed \in BOOLEAN /\ stall \in BOOLEAN
  /\ stopped \in {"none"} \union Stop
RequestsTyped == pending \subseteq Request /\ answers \subseteq Answer
ChainTyped ==
  /\ posts \in [queued : Nat, settled : Nat, failed : Nat]
  /\ posts.queued \in 0..MaxItems /\ posts.settled \in 0..posts.queued
  /\ posts.failed \in 0..posts.settled
  /\ ending.is \in {"none", "completed", "failed"} /\ ending.at \in 0..posts.queued
  /\ value.is \in {"none", "refused", "completed"} \union Stop /\ value.at \in 0..posts.queued

(* Together the parts are the type invariant. *)
LEMMA TypeParts ==
  TypeOK /\ Shaped <=> FlagsTyped /\ RequestsTyped /\ ChainTyped /\ wire \in Seq(Line)
BY AnswerOnly DEF TypeOK, Shaped, FlagsTyped, RequestsTyped, ChainTyped

(* The pipe holds lines. *)
LEMMA WireStep == TypeOK /\ Shaped /\ [Next]_vars => (wire \in Seq(Line))'
<1> SUFFICES ASSUME TypeOK /\ Shaped, [Next]_vars PROVE (wire \in Seq(Line))'
  OBVIOUS
<1> USE Lines, AnswerIs, SaysResult DEF Shaped, server, pipe, local
<1>1. CASE Receive
  <2>1. CASE ReceiveReply
    BY <2>1 DEF ReceiveReply
  <2>2. CASE ReceiveUnheard
    BY <2>2 DEF ReceiveUnheard
  <2>3. CASE ReceiveActivity
    BY <2>3 DEF ReceiveActivity
  <2>4. CASE ReceiveAsk
    BY <2>4 DEF ReceiveAsk
  <2>5. CASE ReceiveCompleted
    BY <2>5 DEF ReceiveCompleted
  <2> QED
    BY <1>1, <2>1, <2>2, <2>3, <2>4, <2>5 DEF Receive
<1>2. CASE Callback
  <2> PICK a \in answers : Continue(a) \/ ContinueInterrupt(a)
    BY <1>2 DEF Callback
  <2>1. CASE Continue(a)
    <3>1. CASE ContinueBudget(a)
      BY <2>1, <3>1 DEF Continue, ContinueBudget
    <3>2. CASE ContinueOpening(a) /\ UNCHANGED turn
      BY <2>1, <3>2 DEF Continue, ContinueOpening
    <3>3. CASE ContinueStart(a) /\ UNCHANGED turn
      BY <2>1, <3>3 DEF Continue, ContinueStart
    <3>4. CASE ContinueLate(a) /\ UNCHANGED turn
      BY <2>1, <3>4 DEF Continue, ContinueLate
    <3>5. CASE ContinuePoll(a) /\ UNCHANGED turn
      BY <2>1, <3>5 DEF Continue, ContinuePoll
    <3>6. CASE a.about = "interrupt" /\ AskNothing({a}) /\ UNCHANGED <<phase, local, turn>>
      BY <2>1, <3>6 DEF Continue, AskNothing, local
    <3> QED
      BY <2>1, <3>1, <3>2, <3>3, <3>4, <3>5, <3>6 DEF Continue
  <2>2. CASE ContinueInterrupt(a)
    BY <2>2 DEF ContinueInterrupt
  <2> QED
    BY <2>1, <2>2
<1>3. CASE Chain
  <2>1. CASE \E ok \in BOOLEAN : Publish(ok)
    BY <2>1 DEF Publish
  <2>2. CASE Conclude
    BY <2>2 DEF Conclude
  <2>3. CASE Resolve
    BY <2>3 DEF Resolve
  <2> QED
    BY <1>3, <2>1, <2>2, <2>3 DEF Chain
<1>4. CASE Server
  <2>1. CASE ServerBegins
    BY <2>1 DEF ServerBegins, ServerKeeps, CanWrite, Emit, Line, Notice
  <2>2. CASE ServerDies
    BY <2>2 DEF ServerDies, Lost, ServerKeeps
  <2>3. CASE ServerStrays
    BY <2>3 DEF ServerStrays, ServerKeeps, CanWrite, Emit, Line, Notice
  <2>4. CASE \E r \in Request : ServerAnswers(r)
    BY <2>4 DEF ServerAnswers, ServerKeeps, CanWrite, Emit, Line, Notice
  <2>5. CASE \E kind \in {"item", "ask"} : ServerSends(kind)
    BY <2>5 DEF ServerSends, ServerKeeps, CanWrite, Emit, Line, Notice
  <2>6. CASE \E says \in {"completed", "failed"} : ServerEnds(says)
    BY <2>6 DEF ServerEnds, ServerKeeps, CanWrite, Emit, Line, Notice
  <2> QED
    BY <1>4, <2>1, <2>2, <2>3, <2>4, <2>5, <2>6 DEF Server
<1>5. CASE Poll
  BY <1>5 DEF Poll
<1>6. CASE Breaks
  BY <1>6 DEF Breaks, Fail
<1>7. CASE \E r \in Request : Timeout(r)
  BY <1>7 DEF Timeout
<1>8. CASE Stall
  BY <1>8 DEF Stall
<1>9. CASE InterruptExpired
  BY <1>9 DEF InterruptExpired, CloseClient, Fail
<1>10. CASE Terminate
  BY <1>10 DEF Terminate, Lost
<1>11. CASE Cancel
  BY <1>11 DEF Cancel, CloseClient, Fail
<1>12. CASE CloseSession
  BY <1>12 DEF CloseSession, CloseClient, Fail
<1>13. CASE Unlock
  BY <1>13 DEF Unlock
<1>14. CASE UNCHANGED vars
  BY <1>14 DEF vars, server, pipe, local
<1> QED
  BY <1>1, <1>2, <1>3, <1>4, <1>5, <1>6, <1>7, <1>8, <1>9, <1>10, <1>11, <1>12, <1>13, <1>14 DEF
     Next, Over

(* The requests and the answers keep their type. *)
LEMMA RequestsTypedStep == RequestsTyped /\ wire \in Seq(Line) /\ [Next]_vars => RequestsTyped'
<1> SUFFICES ASSUME RequestsTyped /\ wire \in Seq(Line), [Next]_vars PROVE RequestsTyped'
  OBVIOUS
<1> USE Lines, AnswerIs, LateRequests DEF RequestsTyped, Result, server, pipe, local
<1>1. CASE Receive
  <2>1. CASE ReceiveReply
    BY <2>1 DEF ReceiveReply, Line, Notice, Note, Ended, Foreign
  <2>2. CASE ReceiveUnheard
    BY <2>2 DEF ReceiveUnheard
  <2>3. CASE ReceiveActivity
    BY <2>3 DEF ReceiveActivity
  <2>4. CASE ReceiveAsk
    BY <2>4 DEF ReceiveAsk, Halt, Ask, AskNothing
  <2>5. CASE ReceiveCompleted
    BY <2>5 DEF ReceiveCompleted
  <2> QED
    BY <1>1, <2>1, <2>2, <2>3, <2>4, <2>5 DEF Receive
<1>2. CASE Callback
  <2> PICK a \in answers : Continue(a) \/ ContinueInterrupt(a)
    BY <1>2 DEF Callback
  <2>1. CASE Continue(a)
    <3>1. CASE ContinueBudget(a)
      BY <2>1, <3>1 DEF Continue, ContinueBudget, Ask, AskNothing
    <3>2. CASE ContinueOpening(a) /\ UNCHANGED turn
      <4>1. \A i \in 1..7 : Startup[i] \in Request
        BY Names DEF Opening, Request
      <4>2. \/ AskNothing({a}) \/ Ask("budget", {a})
            \/ \E i \in 1..7 : Ask(Startup[i], {a})
        BY <2>1, <3>2, Names DEF ContinueOpening
      <4>3. CASE AskNothing({a})
        BY <4>3 DEF AskNothing
      <4>4. CASE Ask("budget", {a})
        BY <4>4 DEF Ask
      <4>5. CASE \E i \in 1..7 : Ask(Startup[i], {a})
        BY <4>1, <4>5 DEF Ask
      <4> QED
        BY <4>2, <4>3, <4>4, <4>5
    <3>3. CASE ContinueStart(a) /\ UNCHANGED turn
      BY <2>1, <3>3 DEF Continue, ContinueStart, Ask, AskNothing
    <3>4. CASE ContinueLate(a) /\ UNCHANGED turn
      BY <2>1, <3>4 DEF Continue, ContinueLate, AskNothing
    <3>5. CASE ContinuePoll(a) /\ UNCHANGED turn
      BY <2>1, <3>5 DEF Continue, ContinuePoll, Halt, Ask, AskNothing
    <3>6. CASE a.about = "interrupt" /\ AskNothing({a}) /\ UNCHANGED <<phase, local, turn>>
      BY <2>1, <3>6 DEF Continue, AskNothing, local
    <3> QED
      BY <2>1, <3>1, <3>2, <3>3, <3>4, <3>5, <3>6 DEF Continue
  <2>2. CASE ContinueInterrupt(a)
    BY <2>2 DEF ContinueInterrupt, Rejected
  <2> QED
    BY <2>1, <2>2
<1>3. CASE Chain
  <2>1. CASE \E ok \in BOOLEAN : Publish(ok)
    BY <2>1 DEF Publish, Halt, Ask, AskNothing
  <2>2. CASE Conclude
    BY <2>2 DEF Conclude
  <2>3. CASE Resolve
    BY <2>3 DEF Resolve
  <2> QED
    BY <1>3, <2>1, <2>2, <2>3 DEF Chain
<1>4. CASE Server
  <2>1. CASE ServerBegins
    BY <2>1 DEF ServerBegins, ServerKeeps, CanWrite, Emit, Line, Notice
  <2>2. CASE ServerDies
    BY <2>2 DEF ServerDies, Lost, ServerKeeps
  <2>3. CASE ServerStrays
    BY <2>3 DEF ServerStrays, ServerKeeps, CanWrite, Emit, Line, Notice
  <2>4. CASE \E r \in Request : ServerAnswers(r)
    BY <2>4 DEF ServerAnswers, ServerKeeps, CanWrite, Emit, Line, Notice
  <2>5. CASE \E kind \in {"item", "ask"} : ServerSends(kind)
    BY <2>5 DEF ServerSends, ServerKeeps, CanWrite, Emit, Line, Notice
  <2>6. CASE \E says \in {"completed", "failed"} : ServerEnds(says)
    BY <2>6 DEF ServerEnds, ServerKeeps, CanWrite, Emit, Line, Notice
  <2> QED
    BY <1>4, <2>1, <2>2, <2>3, <2>4, <2>5, <2>6 DEF Server
<1>5. CASE Poll
  BY <1>5 DEF Poll, Ask, AskNothing
<1>6. CASE Breaks
  BY <1>6 DEF Breaks, Fail, Rejected
<1>7. CASE \E r \in Request : Timeout(r)
  BY <1>7 DEF Timeout
<1>8. CASE Stall
  BY <1>8 DEF Stall, Halt, Ask, AskNothing
<1>9. CASE InterruptExpired
  BY <1>9 DEF InterruptExpired, CloseClient, Fail, Rejected
<1>10. CASE Terminate
  BY <1>10 DEF Terminate, Lost
<1>11. CASE Cancel
  BY <1>11 DEF Cancel, CloseClient, Fail, Rejected
<1>12. CASE CloseSession
  BY <1>12 DEF CloseSession, CloseClient, Fail, Rejected
<1>13. CASE Unlock
  BY <1>13 DEF Unlock
<1>14. CASE UNCHANGED vars
  BY <1>14 DEF vars, server, pipe, local
<1> QED
  BY <1>1, <1>2, <1>3, <1>4, <1>5, <1>6, <1>7, <1>8, <1>9, <1>10, <1>11, <1>12, <1>13, <1>14 DEF
     Next, Over


(* A stop, an outcome and a failure leave flags. *)
LEMMA HaltFlags ==
  ASSUME FlagsTyped, NEW why \in Stop, NEW isKnown, NEW done, Halt(why, isKnown, done)
  PROVE  armed' \in BOOLEAN /\ stopped' \in {"none"} \union Stop
BY DEF Halt, FlagsTyped

LocalFlags ==
  /\ polls \in 0..MaxPolls /\ stopped \in {"none"} \union Stop
  /\ known \in BOOLEAN /\ armed \in BOOLEAN /\ stall \in BOOLEAN

LEMMA FinishFlags == ASSUME FlagsTyped, NEW v, Finish(v) PROVE LocalFlags'
BY DEF Finish, FlagsTyped, LocalFlags

LEMMA BrokenFlags == ASSUME FlagsTyped, Broken PROVE LocalFlags'
<1>1. CASE Listening
  BY <1>1, FinishFlags DEF Broken
<1> QED
  BY <1>1 DEF Broken, FlagsTyped, LocalFlags, local


(* The flags keep their type. *)
LEMMA FlagsTypedStep == FlagsTyped /\ [Next]_vars => FlagsTyped'
<1> SUFFICES ASSUME FlagsTyped, [Next]_vars PROVE FlagsTyped'
  OBVIOUS
<1> USE BoundsAssumption, HaltFlags, FinishFlags, BrokenFlags DEF FlagsTyped, LocalFlags, Stop,
        server, pipe, local
<1>1. CASE Receive
  <2>1. CASE ReceiveReply
    BY <2>1 DEF ReceiveReply
  <2>2. CASE ReceiveUnheard
    BY <2>2 DEF ReceiveUnheard
  <2>3. CASE ReceiveActivity
    BY <2>3 DEF ReceiveActivity
  <2>4. CASE ReceiveAsk
    BY <2>4 DEF ReceiveAsk
  <2>5. CASE ReceiveCompleted
    BY <2>5 DEF ReceiveCompleted
  <2> QED
    BY <1>1, <2>1, <2>2, <2>3, <2>4, <2>5 DEF Receive
<1>2. CASE Callback
  <2> PICK a \in answers : Continue(a) \/ ContinueInterrupt(a)
    BY <1>2 DEF Callback
  <2>1. CASE Continue(a)
    <3>1. CASE ContinueBudget(a)
      BY <2>1, <3>1 DEF Continue, ContinueBudget
    <3>2. CASE ContinueOpening(a) /\ UNCHANGED turn
      BY <2>1, <3>2 DEF Continue, ContinueOpening
    <3>3. CASE ContinueStart(a) /\ UNCHANGED turn
      <4>1. CASE a.says = "ok"
        BY <2>1, <3>3, <4>1 DEF Continue, ContinueStart
      <4>2. CASE ~(a.says = "ok")
        BY <2>1, <3>3, <4>2 DEF Continue, ContinueStart
      <4> QED
        BY <4>1, <4>2
    <3>4. CASE ContinueLate(a) /\ UNCHANGED turn
      BY <2>1, <3>4 DEF Continue, ContinueLate
    <3>5. CASE ContinuePoll(a) /\ UNCHANGED turn
      BY <2>1, <3>5 DEF Continue, ContinuePoll
    <3>6. CASE a.about = "interrupt" /\ AskNothing({a}) /\ UNCHANGED <<phase, local, turn>>
      BY <2>1, <3>6 DEF Continue, AskNothing, local
    <3> QED
      BY <2>1, <3>1, <3>2, <3>3, <3>4, <3>5, <3>6 DEF Continue
  <2>2. CASE ContinueInterrupt(a)
    BY <2>2 DEF ContinueInterrupt
  <2> QED
    BY <2>1, <2>2
<1>3. CASE Chain
  <2>1. CASE \E ok \in BOOLEAN : Publish(ok)
    BY <2>1 DEF Publish
  <2>2. CASE Conclude
    BY <2>2 DEF Conclude
  <2>3. CASE Resolve
    BY <2>3 DEF Resolve
  <2> QED
    BY <1>3, <2>1, <2>2, <2>3 DEF Chain
<1>4. CASE Server
  <2>1. CASE ServerBegins
    BY <2>1 DEF ServerBegins, ServerKeeps, CanWrite, Emit, Line, Notice
  <2>2. CASE ServerDies
    BY <2>2 DEF ServerDies, Lost, ServerKeeps
  <2>3. CASE ServerStrays
    BY <2>3 DEF ServerStrays, ServerKeeps, CanWrite, Emit, Line, Notice
  <2>4. CASE \E r \in Request : ServerAnswers(r)
    BY <2>4 DEF ServerAnswers, ServerKeeps, CanWrite, Emit, Line, Notice
  <2>5. CASE \E kind \in {"item", "ask"} : ServerSends(kind)
    BY <2>5 DEF ServerSends, ServerKeeps, CanWrite, Emit, Line, Notice
  <2>6. CASE \E says \in {"completed", "failed"} : ServerEnds(says)
    BY <2>6 DEF ServerEnds, ServerKeeps, CanWrite, Emit, Line, Notice
  <2> QED
    BY <1>4, <2>1, <2>2, <2>3, <2>4, <2>5, <2>6 DEF Server
<1>5. CASE Poll
  BY <1>5 DEF Poll
<1>6. CASE Breaks
  BY <1>6 DEF Breaks, Fail
<1>7. CASE \E r \in Request : Timeout(r)
  BY <1>7 DEF Timeout
<1>8. CASE Stall
  BY <1>8 DEF Stall
<1>9. CASE InterruptExpired
  BY <1>9 DEF InterruptExpired, CloseClient, Fail
<1>10. CASE Terminate
  BY <1>10 DEF Terminate, Lost
<1>11. CASE Cancel
  BY <1>11 DEF Cancel, CloseClient, Fail
<1>12. CASE CloseSession
  BY <1>12 DEF CloseSession, CloseClient, Fail
<1>13. CASE Unlock
  BY <1>13 DEF Unlock
<1>14. CASE UNCHANGED vars
  BY <1>14 DEF vars, server, pipe, local
<1> QED
  BY <1>1, <1>2, <1>3, <1>4, <1>5, <1>6, <1>7, <1>8, <1>9, <1>10, <1>11, <1>12, <1>13, <1>14 DEF
     Next, Over
-----------------------------------------------------------------------------


\* What is outstanding once the answers done are continued.
Less(done) == Outstanding \ {a.about : a \in done}

(* What is left when nothing is continued, or one answer. *)
LEMMA LessNothing == {} \in SUBSET answers /\ Less({}) = Outstanding
BY DEF Less

LEMMA LessOne ==
  ASSUME NEW a \in answers
  PROVE  {a} \in SUBSET answers /\ Less({a}) = Outstanding \ {a.about} /\ a.about \in Outstanding
BY DEF Less, Outstanding

(* Nothing asked and nothing answered leaves as much outstanding. *)
LEMMA SameWaits ==
  ASSUME Unique, UNCHANGED <<pending, answers>> PROVE Unique' /\ Outstanding' = Outstanding
BY DEF Unique, Outstanding

(* A request that is not outstanding becomes it, whether it is written or rejected. *)
LEMMA AskWaits ==
  ASSUME Unique, NEW r \in Request, NEW done \in SUBSET answers, r \notin Less(done),
         Ask(r, done)
  PROVE  Unique' /\ Outstanding' = Less(done) \union {r}
<1>1. \A a \in answers \ done : a.about # r
  BY DEF Less, Outstanding, Unique
<1>2. Less(done) = pending \union {a.about : a \in answers \ done}
  BY DEF Less, Outstanding, Unique
<1>3. r \notin pending
  BY <1>2
<1>4. CASE client = "open"
  <2>1. pending' = pending \union {r} /\ answers' = answers \ done
    BY <1>4 DEF Ask
  <2> QED
    BY <1>1, <1>2, <2>1 DEF Unique, Outstanding
<1>5. CASE client # "open"
  <2>1. pending' = pending /\ answers' = (answers \ done) \union {Reply(r, "error")}
    BY <1>5 DEF Ask
  <2>2. Reply(r, "error").about = r
    BY DEF Reply
  <2>3. Unique'
    BY <1>1, <1>3, <2>1, <2>2 DEF Unique
  <2>4. Outstanding' = Less(done) \union {r}
    BY <1>2, <2>1, <2>2 DEF Outstanding
  <2> QED
    BY <2>3, <2>4
<1> QED
  BY <1>4, <1>5

(* A continuation that asks nothing. *)
LEMMA AskNothingWaits ==
  ASSUME Unique, NEW done \in SUBSET answers, AskNothing(done)
  PROVE  Unique' /\ Outstanding' = Less(done)
BY DEF AskNothing, Unique, Outstanding, Less

(* One answer, and the rejection of all, leave as much outstanding. *)
LEMMA AnswerWaits ==
  ASSUME Unique, NEW r \in pending, NEW a, a.about = r,
         pending' = pending \ {r}, answers' = answers \union {a}
  PROVE  Unique' /\ Outstanding' = Outstanding
BY DEF Unique, Outstanding

LEMMA RejectWaits ==
  ASSUME Unique, NEW done \in SUBSET answers,
         pending' = {}, answers' = (answers \ done) \union Rejected
  PROVE  Unique' /\ Outstanding' = Less(done)
<1>1. \A r : Reply(r, "error").about = r
  BY DEF Reply
<1>2. {a.about : a \in Rejected} = pending
  BY <1>1 DEF Rejected
<1>3. \A a \in answers, b \in Rejected : a.about # b.about
  BY <1>2 DEF Unique
<1>4. \A a, b \in Rejected : a.about = b.about => a = b
  BY <1>1 DEF Rejected
<1>5. Unique'
  BY <1>3, <1>4 DEF Unique
<1>6. Outstanding' = Less(done)
  BY <1>2 DEF Outstanding, Less, Unique
<1> QED
  BY <1>5, <1>6

LEMMA FailWaits ==
  ASSUME Unique, NEW to, Fail(to) PROVE Unique' /\ Outstanding' = Outstanding
<1>1. pending' = {} /\ answers' = (answers \ {}) \union Rejected
  BY DEF Fail
<1>2. {} \in SUBSET answers /\ Less({}) = Outstanding
  BY DEF Less
<1> QED
  BY <1>1, <1>2, RejectWaits

LEMMA CloseWaits ==
  ASSUME Unique, CloseClient PROVE Unique' /\ Outstanding' = Outstanding
<1>1. CASE client = "open"
  BY <1>1, FailWaits DEF CloseClient
<1>2. CASE client # "open"
  BY <1>2 DEF CloseClient, Unique, Outstanding
<1> QED
  BY <1>1, <1>2

(* A stop asks for the first interrupt, once. *)
LEMMA HaltWaits ==
  ASSUME Unique, "interrupt" \in Outstanding => stopped # "none",
         NEW why \in Stop, NEW isKnown, NEW done \in SUBSET answers, Halt(why, isKnown, done)
  PROVE  /\ Unique'
         /\ Outstanding' = Less(done) \/ Outstanding' = Less(done) \union {"interrupt"}
         /\ "interrupt" \in Outstanding' => stopped' # "none"
         /\ Settled => stopped' = stopped
<1>1. CASE stopped # "none" \/ Settled
  <2>1. stopped' = stopped /\ AskNothing(done)
    BY <1>1 DEF Halt
  <2> QED
    BY <2>1, AskNothingWaits DEF Less
<1>2. CASE ~(stopped # "none" \/ Settled)
  <2>1. stopped' = why /\ why # "none" /\ "interrupt" \notin Less(done)
    BY <1>2 DEF Halt, Stop, Less
  <2>2. Ask("interrupt", done) \/ AskNothing(done)
    BY <1>2 DEF Halt
  <2> QED
    BY <1>2, <2>1, <2>2, AskWaits, AskNothingWaits, LateRequests
<1> QED
  BY <1>1, <1>2


(* A stop outside a continuation. *)
LEMMA HaltAlone ==
  ASSUME Unique, "interrupt" \in Outstanding => stopped # "none",
         NEW why \in Stop, NEW isKnown, Halt(why, isKnown, {})
  PROVE  /\ Unique'
         /\ Outstanding' = Outstanding \/ Outstanding' = Outstanding \union {"interrupt"}
         /\ "interrupt" \in Outstanding' => stopped' # "none"
         /\ Settled => stopped' = stopped
BY HaltWaits, LessNothing

(* What is settled stays settled. *)
LEMMA FinishSettles ==
  ASSUME NEW v, Finish(v)
  PROVE  (Settled => Settled') /\ UNCHANGED <<stopped, posts, ending>>
BY DEF Finish, Settled


(* What is waited for follows the phases. *)
LEMMA WaitingStep == TypeOK /\ Shaped /\ Waiting /\ Tally /\ [Next]_vars => Waiting'
<1> SUFFICES ASSUME TypeOK /\ Shaped /\ Waiting /\ Tally, [Next]_vars PROVE Waiting'
  OBVIOUS
<1> FlagsTyped /\ RequestsTyped /\ ChainTyped /\ wire \in Seq(Line)
  BY TypeParts
<1> USE Names, LateRequests DEF Waiting, Stop, Settled, Listening, server, pipe, local
<1>1. CASE Receive
  <2>1. CASE ReceiveReply
    <3> DEFINE m == Head(wire)
    <3>1. UNCHANGED <<phase, turn, stopped, value>>
      BY <2>1 DEF ReceiveReply
    <3>2. Unique' /\ Outstanding' = Outstanding
      <4>1. CASE m.about \in pending
        <5>1. pending' = pending \ {m.about} /\ answers' = answers \union {m}
          BY <2>1, <4>1 DEF ReceiveReply
        <5> QED
          BY <4>1, <5>1, AnswerWaits
      <4>2. CASE m.about \notin pending
        BY <2>1, <4>2, SameWaits DEF ReceiveReply
      <4> QED
        BY <4>1, <4>2
    <3> QED
      BY <3>1, <3>2
  <2>2. CASE ReceiveUnheard
    BY <2>2, SameWaits DEF ReceiveUnheard
  <2>3. CASE ReceiveActivity
    BY <2>3, SameWaits DEF ReceiveActivity
  <2>4. CASE ReceiveAsk
    <3>1. phase = "turn" /\ UNCHANGED <<phase, turn, value>> /\ Halt("input", TRUE, {})
      BY <2>4 DEF ReceiveAsk
    <3> QED
      BY <3>1, HaltAlone
  <2>5. CASE ReceiveCompleted
    BY <2>5, SameWaits DEF ReceiveCompleted
  <2> QED
    BY <1>1, <2>1, <2>2, <2>3, <2>4, <2>5 DEF Receive
<1>2. CASE Callback
  <2> PICK a \in answers : Continue(a) \/ ContinueInterrupt(a)
    BY <1>2 DEF Callback
  <2>1. CASE Continue(a)
    <3>1. CASE ContinueBudget(a)
      <4>1. phase = "preflight" /\ Outstanding = {"budget"} /\ Less({a}) = {}
        BY <2>1, <3>1, LessOne DEF ContinueBudget, FlagsTyped
      <4>2. CASE a.says # "ok"
        <5>1. Unique' /\ Outstanding' = {} /\ phase' = "done" /\ Settled'
          BY <2>1, <3>1, <4>1, <4>2, LessOne, AskNothingWaits DEF ContinueBudget
        <5> QED
          BY <5>1
      <4>3. CASE a.says = "ok"
        <5>1. phase' = "turn" /\ Ask("start", {a})
          BY <2>1, <3>1, <4>3 DEF ContinueBudget
        <5>2. Unique' /\ Outstanding' = {"start"}
          BY <4>1, <5>1, LessOne, AskWaits
        <5> QED
          BY <5>1, <5>2
      <4> QED
        BY <4>2, <4>3
    <3>2. CASE ContinueOpening(a) /\ UNCHANGED turn
      <4>1. PICK i \in 1..7 : /\ Startup[i] = a.about
                              /\ IF a.says # "ok"
                                 THEN /\ phase' = "done" /\ AskNothing({a})
                                      /\ value' = [is |-> "refused", at |-> 0]
                                 ELSE /\ phase' = IF i < 7 THEN "opening" ELSE "preflight"
                                      /\ Ask(IF i < 7 THEN Startup[i + 1] ELSE "budget", {a})
                                      /\ UNCHANGED value
        BY <2>1, <3>2 DEF ContinueOpening
      <4>2. Outstanding = {a.about} /\ Less({a}) = {} /\ UNCHANGED <<turn, stopped>>
        BY <2>1, <3>2, LessOne DEF ContinueOpening
      <4>3. CASE a.says # "ok"
        <5>1. Unique' /\ Outstanding' = {} /\ phase' = "done" /\ Settled'
          BY <4>1, <4>2, <4>3, LessOne, AskNothingWaits
        <5> QED
          BY <5>1
      <4>4. CASE a.says = "ok" /\ i < 7
        <5>1. Startup[i + 1] \in Opening /\ Opening \subseteq Request
          BY <4>4, Names DEF Opening, Request
        <5>2. Ask(Startup[i + 1], {a}) /\ phase' = "opening" /\ UNCHANGED value
          BY <4>1, <4>4
        <5>3. Unique' /\ Outstanding' = {Startup[i + 1]}
          BY <4>2, <5>1, <5>2, LessOne, AskWaits
        <5> QED
          BY <4>2, <5>1, <5>2, <5>3, <2>1, <3>2 DEF ContinueOpening
      <4>5. CASE a.says = "ok" /\ ~(i < 7)
        <5>1. Ask("budget", {a}) /\ phase' = "preflight" /\ UNCHANGED value
          BY <4>1, <4>5
        <5>2. Unique' /\ Outstanding' = {"budget"}
          BY <4>2, <5>1, LessOne, AskWaits
        <5> QED
          BY <4>2, <5>1, <5>2, <2>1, <3>2 DEF ContinueOpening
      <4> QED
        BY <4>3, <4>4, <4>5
    <3>3. CASE ContinueStart(a) /\ UNCHANGED turn
      <4>1. /\ phase \in {"turn", "done"} /\ UNCHANGED <<phase, turn, stopped>>
            /\ Settled => Settled'
            /\ AskNothing({a}) \/ Ask("late", {a})
        BY <2>1, <3>3, LessOne, FinishSettles DEF ContinueStart, FlagsTyped
      <4>2. Less({a}) = Outstanding \ {"start"} /\ "late" \notin Outstanding
        BY <2>1, <3>3, LessOne DEF ContinueStart
      <4>3. Unique' /\ Outstanding' \subseteq Less({a}) \union {"late"}
        BY <4>1, <4>2, LessOne, AskWaits, AskNothingWaits
      <4> QED
        BY <4>1, <4>2, <4>3
    <3>4. CASE ContinueLate(a) /\ UNCHANGED turn
      <4>1. /\ phase \in {"turn", "done"} /\ UNCHANGED <<phase, turn, stopped>>
            /\ Settled => Settled'
        BY <2>1, <3>4, LessOne, FinishSettles DEF ContinueLate, FlagsTyped
      <4>2. Unique' /\ Outstanding' = Outstanding \ {"late"}
        BY <2>1, <3>4, LessOne, AskNothingWaits DEF ContinueLate
      <4> QED
        BY <4>1, <4>2
    <3>5. CASE ContinuePoll(a) /\ UNCHANGED turn
      <4>1. phase \notin {"opening", "preflight"} /\ UNCHANGED <<phase, turn, value>>
        BY <2>1, <3>5, LessOne DEF ContinuePoll
      <4>2. CASE a.says = "ok"
        <5>1. Unique' /\ Outstanding' = Outstanding \ {"poll"} /\ stopped' = stopped
          BY <2>1, <3>5, <4>2, LessOne, AskNothingWaits DEF ContinuePoll
        <5> QED
          BY <4>1, <5>1
      <4>3. CASE a.says # "ok"
        <5>1. Halt("paused", known, {a}) /\ a.about = "poll"
          BY <2>1, <3>5, <4>3 DEF ContinuePoll
        <5>2. {a} \in SUBSET answers /\ Less({a}) = Outstanding \ {"poll"}
          BY <5>1, LessOne
        <5>3. /\ Unique' /\ ("interrupt" \in Outstanding' => stopped' # "none")
              /\ \/ Outstanding' = Outstanding \ {"poll"}
                 \/ Outstanding' = (Outstanding \ {"poll"}) \union {"interrupt"}
          BY <5>1, <5>2, HaltWaits
        <5> QED
          BY <4>1, <5>3
      <4> QED
        BY <4>2, <4>3
    <3>6. CASE a.about = "interrupt" /\ AskNothing({a}) /\ UNCHANGED <<phase, local, turn>>
      <4>1. Unique' /\ Outstanding' = Outstanding \ {"interrupt"} /\ "interrupt" \in Outstanding
        BY <2>1, <3>6, LessOne, AskNothingWaits
      <4>2. UNCHANGED <<phase, turn, stopped, value>>
        BY <2>1, <3>6
      <4> QED
        BY <4>1, <4>2
    <3> QED
      BY <2>1, <3>1, <3>2, <3>3, <3>4, <3>5, <3>6 DEF Continue
  <2>2. CASE ContinueInterrupt(a)
    <3>1. /\ phase \in {"turn", "done"} /\ UNCHANGED <<phase, turn, stopped>>
          /\ Settled => Settled'
      BY <2>2, LessOne, FinishSettles DEF ContinueInterrupt, Broken, FlagsTyped
    <3>2. pending' = {} /\ answers' = (answers \ {a}) \union Rejected /\ a.about = "interrupt"
      BY <2>2 DEF ContinueInterrupt
    <3>3. Unique' /\ Outstanding' = Outstanding \ {"interrupt"}
      BY <3>2, LessOne, RejectWaits
    <3> QED
      BY <3>1, <3>3
  <2> QED
    BY <2>1, <2>2
<1>3. CASE Chain
  <2>1. CASE \E ok \in BOOLEAN : Publish(ok)
    <3> PICK ok \in BOOLEAN : Publish(ok)
      BY <2>1
    <3>1. phase \notin {"opening", "preflight"} /\ UNCHANGED <<phase, turn, value>>
      BY DEF Publish, Tally, ChainTyped, FlagsTyped
    <3>2. CASE ok
      BY <3>1, <3>2, SameWaits DEF Publish
    <3>3. CASE ~ok
      BY <3>1, <3>3, HaltAlone DEF Publish
    <3> QED
      BY <3>2, <3>3
  <2>2. CASE Conclude
    BY <2>2, SameWaits DEF Conclude, Finish
  <2>3. CASE Resolve
    BY <2>3, SameWaits DEF Resolve
  <2> QED
    BY <1>3, <2>1, <2>2, <2>3 DEF Chain
<1>4. CASE Server
  <2>1. CASE ServerBegins
    BY <2>1, SameWaits DEF ServerBegins, ServerKeeps, CanWrite
  <2>2. CASE ServerDies
    BY <2>2, SameWaits DEF ServerDies, Lost, ServerKeeps
  <2>3. CASE ServerStrays
    BY <2>3, SameWaits DEF ServerStrays, ServerKeeps, CanWrite
  <2>4. CASE \E r \in Request : ServerAnswers(r)
    BY <2>4, SameWaits DEF ServerAnswers, ServerKeeps, CanWrite
  <2>5. CASE \E kind \in {"item", "ask"} : ServerSends(kind)
    BY <2>5, SameWaits DEF ServerSends, ServerKeeps, CanWrite
  <2>6. CASE \E says \in {"completed", "failed"} : ServerEnds(says)
    BY <2>6, SameWaits DEF ServerEnds, ServerKeeps, CanWrite
  <2> QED
    BY <1>4, <2>1, <2>2, <2>3, <2>4, <2>5, <2>6 DEF Server
<1>5. CASE Poll
  <2>1. "poll" \notin Outstanding /\ Ask("poll", {}) /\ phase = "turn"
        /\ UNCHANGED <<phase, turn, stopped, value>>
    BY <1>5 DEF Poll, Outstanding
  <2>2. Unique' /\ Outstanding' = Outstanding \union {"poll"}
    BY <2>1, AskWaits, LessNothing
  <2> QED
    BY <2>1, <2>2
<1>6. CASE Breaks
  BY <1>6, FailWaits DEF Breaks, Broken, Finish
<1>7. CASE \E r \in Request : Timeout(r)
  <2> PICK r \in Request : Timeout(r)
    BY <1>7
  <2>1. Reply(r, "error").about = r
    BY DEF Reply
  <2>2. Unique' /\ Outstanding' = Outstanding
    <3>1. r \in pending /\ pending' = pending \ {r}
           /\ answers' = answers \union {Reply(r, "error")}
      BY DEF Timeout
    <3> QED
      BY <2>1, <3>1, AnswerWaits
  <2> QED
    BY <2>2 DEF Timeout
<1>8. CASE Stall
  <2>1. phase = "turn" /\ UNCHANGED <<phase, turn, value>> /\ Halt("paused", known, {})
    BY <1>8 DEF Stall
  <2> QED
    BY <2>1, HaltAlone
<1>9. CASE InterruptExpired
  BY <1>9, CloseWaits DEF InterruptExpired, Finish
<1>10. CASE Terminate
  BY <1>10, SameWaits DEF Terminate, Lost
<1>11. CASE Cancel
  BY <1>11, CloseWaits DEF Cancel, Finish
<1>12. CASE CloseSession
  BY <1>12, CloseWaits DEF CloseSession
<1>13. CASE Unlock
  BY <1>13, SameWaits DEF Unlock
<1>14. CASE UNCHANGED vars
  BY <1>14, SameWaits DEF vars, server, pipe, local
<1> QED
  BY <1>1, <1>2, <1>3, <1>4, <1>5, <1>6, <1>7, <1>8, <1>9, <1>10, <1>11, <1>12, <1>13, <1>14 DEF
     Next, Over
-----------------------------------------------------------------------------


(* Reading a line moves the count past its message, and the end of the turn is read
   after all of them. *)
LEMMA CountRead ==
  ASSUME NEW w \in Seq(Line), w # <<>>, NEW sent \in Nat, NEW before \in Nat, NEW how,
         CountedFrom(w, before, sent, how)
  PROVE  LET next == before + Messages(Head(w))
         IN  /\ next <= sent /\ CountedFrom(Tail(w), next, sent, how)
             /\ Ends(Head(w)) => how = Head(w).says /\ next = sent
<1> DEFINE next == before + Messages(Head(w))
<1>1. PICK count \in [0..Len(w) -> 0..sent] : count[0] = before /\ Counted(w, count, sent, how)
  BY DEF CountedFrom
<1>2. /\ Len(w) \in Nat \ {0} /\ Head(w) = w[1] /\ Len(Tail(w)) = Len(w) - 1
      /\ \A i \in 1..Len(Tail(w)) : Tail(w)[i] = w[i + 1]
  BY HeadTailProperties, EmptySeq, LenProperties
<1>3. 1 \in 1..Len(w) /\ count[1] = next
  BY <1>1, <1>2 DEF Counted
<1> DEFINE rest == [i \in 0..Len(Tail(w)) |-> count[i + 1]]
<1>4. rest \in [0..Len(Tail(w)) -> 0..sent] /\ rest[0] = next
  BY <1>1, <1>2, <1>3
<1>5. Counted(Tail(w), rest, sent, how)
  <2>1. rest[Len(Tail(w))] = sent
    BY <1>1, <1>2 DEF Counted
  <2>2. ASSUME NEW i \in 1..Len(Tail(w))
        PROVE  /\ rest[i] = rest[i - 1] + Messages(Tail(w)[i])
               /\ Ends(Tail(w)[i]) => how = Tail(w)[i].says /\ rest[i] = sent
    <3>1. /\ i + 1 \in 1..Len(w) /\ i - 1 \in 0..Len(Tail(w)) /\ i \in 0..Len(Tail(w))
          /\ (i - 1) + 1 = i /\ (i + 1) - 1 = i
      BY <1>2
    <3>2. rest[i] = count[i + 1] /\ rest[i - 1] = count[i] /\ Tail(w)[i] = w[i + 1]
      BY <1>2, <3>1
    <3> HIDE DEF rest
    <3>3. /\ count[i + 1] = count[i] + Messages(w[i + 1])
          /\ Ends(w[i + 1]) => how = w[i + 1].says /\ count[i + 1] = sent
      BY <1>1, <3>1 DEF Counted
    <3> QED
      BY <3>2, <3>3
  <2> QED
    BY <2>1, <2>2 DEF Counted
<1>6. CountedFrom(Tail(w), next, sent, how)
  <2> HIDE DEF rest, next
  <2> QED
    BY <1>4, <1>5 DEF CountedFrom
<1>7. next <= sent /\ (Ends(Head(w)) => how = Head(w).says /\ next = sent)
  BY <1>1, <1>2, <1>3 DEF Counted
<1> QED
  BY <1>6, <1>7

(* A line is counted when it is written. *)
LEMMA CountWritten ==
  ASSUME NEW w \in Seq(Line), NEW m \in Line, NEW sent \in Nat, NEW before, NEW how,
         CountedFrom(w, before, sent, how), NEW now, Ends(m) => now = m.says,
         (\A i \in 1..Len(w) : ~Ends(w[i])) \/ (now = how /\ Messages(m) = 0)
  PROVE  CountedFrom(Append(w, m), before, sent + Messages(m), now)
<1> DEFINE v == Append(w, m)
           all == sent + Messages(m)
<1>1. PICK count \in [0..Len(w) -> 0..sent] : count[0] = before /\ Counted(w, count, sent, how)
  BY DEF CountedFrom
<1>2. /\ Len(w) \in Nat /\ Len(v) = Len(w) + 1 /\ v[Len(w) + 1] = m
      /\ \A i \in 1..Len(w) : v[i] = w[i]
  BY AppendProperties, LenProperties
<1>3. all \in Nat /\ sent <= all
  BY DEF Messages
<1> HIDE DEF v
<1> DEFINE more == [i \in 0..Len(v) |-> IF i <= Len(w) THEN count[i] ELSE all]
<1>4. more \in [0..Len(v) -> 0..all] /\ more[0] = before
  BY <1>1, <1>2, <1>3
<1>5. more[Len(v)] = all
  BY <1>2
<1>6. ASSUME NEW i \in 1..Len(v)
      PROVE  /\ more[i] = more[i - 1] + Messages(v[i])
             /\ Ends(v[i]) => now = v[i].says /\ more[i] = all
  <2>1. CASE i \in 1..Len(w)
    <3>1. more[i] = count[i] /\ more[i - 1] = count[i - 1] /\ v[i] = w[i]
      BY <1>2, <2>1
    <3>2. /\ count[i] = count[i - 1] + Messages(w[i])
          /\ Ends(w[i]) => how = w[i].says /\ count[i] = sent
      BY <1>1, <2>1 DEF Counted
    <3> HIDE DEF more
    <3> QED
      BY <2>1, <3>1, <3>2
  <2>2. CASE i = Len(w) + 1
    <3>1. more[i] = all /\ more[i - 1] = count[Len(w)] /\ v[i] = m
      BY <1>2, <2>2
    <3>2. count[Len(w)] = sent
      BY <1>1 DEF Counted
    <3> HIDE DEF more
    <3> QED
      BY <3>1, <3>2
  <2> QED
    BY <1>2, <2>1, <2>2
<1> HIDE DEF more, all
<1>7. Counted(v, more, all, now)
  BY <1>5, <1>6 DEF Counted
<1>8. CountedFrom(v, before, all, now)
  BY <1>4, <1>7 DEF CountedFrom
<1> QED
  BY <1>8 DEF v, all

(* As long as the turn goes on, its end is not on the pipe, and how it goes on does
   not matter to the count. *)
LEMMA EndNotWritten ==
  ASSUME NEW w \in Seq(Line), NEW before, NEW sent, NEW how, CountedFrom(w, before, sent, how),
         how \notin {"completed", "failed"}
  PROVE  /\ \A i \in 1..Len(w) : ~Ends(w[i])
         /\ \A now : CountedFrom(w, before, sent, now)
<1>1. PICK count \in [0..Len(w) -> 0..sent] : count[0] = before /\ Counted(w, count, sent, how)
  BY DEF CountedFrom
<1>2. ASSUME NEW m \in Line, Ends(m) PROVE m.says \in {"completed", "failed"}
  BY <1>2 DEF Line, Answer, Notice, Note, Ended, Foreign, Ends
<1>3. \A i \in 1..Len(w) : w[i] \in Line
  BY ElementOfSeq
<1>4. \A i \in 1..Len(w) : ~Ends(w[i])
  BY <1>1, <1>2, <1>3 DEF Counted
<1>5. \A now : Counted(w, count, sent, now)
  BY <1>1, <1>4 DEF Counted
<1> QED
  BY <1>1, <1>4, <1>5 DEF CountedFrom

(* An empty pipe leaves nothing to count. *)
LEMMA CountNothing ==
  ASSUME NEW sent \in Nat, NEW how
  PROVE  CountedFrom(<<>>, sent, sent, how)
<1> DEFINE count == [i \in 0..0 |-> sent]
<1>1. Len(<<>>) = 0 /\ count \in [0..0 -> 0..sent] /\ count[0] = sent
  BY EmptySeq
<1> HIDE DEF count
<1>2. Counted(<<>>, count, sent, how)
  BY <1>1 DEF Counted
<1> QED
  BY <1>1, <1>2 DEF CountedFrom



(* The lines an app-server writes are lines. *)
LEMMA NoticeIs ==
  /\ \A kind \in {"started", "item", "ask"} :
       /\ Note(kind) \in Line /\ ~Ends(Note(kind))
       /\ Messages(Note(kind)) = IF kind = "item" THEN 1 ELSE 0
  /\ \A says \in {"completed", "failed"} :
       /\ Ended(says) \in Line /\ Ended(says).says = says
       /\ Messages(Ended(says)) = 0
  /\ Foreign \in Line /\ ~Ends(Foreign) /\ Messages(Foreign) = 0
  /\ \A a \in Answer : a \in Line /\ ~Ends(a) /\ Messages(a) = 0
BY DEF Line, Answer, Notice, Note, Ended, Foreign, Ends, Messages

(* An outcome settles. *)
LEMMA OutcomeSettles ==
  ASSUME TypeOK, Decided
  PROVE  /\ \A v \in {"paused", "completed", "input"} : Finish(v) => Settled'
         /\ Or(stopped, "paused") \in {"paused", "input"}
         /\ armed => stopped \in {"paused", "input"}
         /\ Outcome \in {"paused", "completed", "input"}
BY DEF Finish, Settled, Or, Outcome, TypeOK, Decided, Stop

(* Outside the turn, and before its outcome, there is nothing to count. *)
LEMMA NothingYet ==
  ASSUME TypeOK, Shaped, Waiting, Tally, ~Settled, ~Listening
  PROVE  phase \in {"opening", "preflight"} /\ turn = "none" /\ items = 0 /\ posts.queued = 0
<1>1. phase \in {"opening", "preflight"} /\ turn = "none"
  BY DEF TypeOK, Waiting, Listening
<1> QED
  BY <1>1 DEF Tally, TypeOK

(* A pipe that is emptied then has nothing missing. *)
LEMMA Emptied ==
  ASSUME TypeOK, Shaped, Waiting, Tally, ~Settled, ~Listening, wire' = wire \/ wire' = <<>>,
         UNCHANGED <<turn, items, posts>>
  PROVE  CountedFrom(wire', posts'.queued, items', turn')
<1>1. turn = "none" /\ items = 0 /\ posts.queued = 0
  BY NothingYet
<1> QED
  BY <1>1, CountNothing DEF Tally


(* What a line adds is counted, whether a client is there to read it or not. *)
LEMMA Written ==
  ASSUME wire \in Seq(Line), items \in Nat, CountedFrom(wire, posts.queued, items, turn),
         NEW m \in Line, Emit(m), Ends(m) => turn' = m.says,
         turn \notin {"completed", "failed"} \/ (turn' = turn /\ Messages(m) = 0),
         client = "open" \/ Messages(m) = 0
  PROVE  CountedFrom(wire', posts.queued, items + Messages(m), turn')
<1>1. CASE client = "open"
  <2>1. wire' = Append(wire, m)
    BY <1>1 DEF Emit
  <2>2. (\A i \in 1..Len(wire) : ~Ends(wire[i])) \/ (turn' = turn /\ Messages(m) = 0)
    BY EndNotWritten
  <2> QED
    BY <2>1, <2>2, CountWritten
<1>2. CASE client # "open"
  <2>1. wire' = wire /\ items + Messages(m) = items
    BY <1>2 DEF Emit
  <2> QED
    BY <2>1, EndNotWritten
<1> QED
  BY <1>1, <1>2

(* What settles the turn, or happens when nothing is counted yet, may empty the pipe. *)
LEMMA Dropped ==
  ASSUME TypeOK, Shaped, Waiting, Tally, UNCHANGED <<turn, items, posts>>,
         wire' = wire \/ wire' = <<>>, Listening => Settled', Settled => Settled'
  PROVE  Tally'
<1>1. ASSUME ~Settled' PROVE CountedFrom(wire', posts'.queued, items', turn')
  BY <1>1, Emptied
<1> QED
  BY <1>1 DEF Tally


(* No message is lost between the app-server and the chain. *)
LEMMA TallyStep == TypeOK /\ Shaped /\ Waiting /\ Tally /\ Decided /\ [Next]_vars => Tally'
<1> SUFFICES ASSUME TypeOK /\ Shaped /\ Waiting /\ Tally /\ Decided, [Next]_vars PROVE Tally'
  OBVIOUS
<1> FlagsTyped /\ RequestsTyped /\ ChainTyped /\ wire \in Seq(Line)
  BY TypeParts
<1> USE DEF Tally, Settled, server, pipe, local
<1>1. CASE Receive
  <2>1. CASE ReceiveReply
    <3> DEFINE next == posts.queued + Messages(Head(wire))
    <3>1. ~Settled => next <= items /\ CountedFrom(Tail(wire), next, items, turn)
      BY <2>1, CountRead DEF ReceiveReply, ChainTyped, FlagsTyped
    <3>2. /\ UNCHANGED <<turn, items>> /\ wire' = Tail(wire)
          /\ Settled => Settled' /\ posts' = posts
      BY <2>1 DEF ReceiveReply, Listening
    <3>3. ~Settled => posts'.queued = next
      BY <2>1, <3>1 DEF ReceiveReply, Messages, ChainTyped
    <3> HIDE DEF next
    <3> QED
      BY <3>1, <3>2, <3>3
  <2>2. CASE ReceiveUnheard
    <3> DEFINE next == posts.queued + Messages(Head(wire))
    <3>1. ~Settled => next <= items /\ CountedFrom(Tail(wire), next, items, turn)
      BY <2>2, CountRead DEF ReceiveUnheard, ChainTyped, FlagsTyped
    <3>2. /\ UNCHANGED <<turn, items>> /\ wire' = Tail(wire)
          /\ Settled => Settled' /\ posts' = posts
      BY <2>2 DEF ReceiveUnheard, Listening
    <3>3. ~Settled => posts'.queued = next
      BY <2>2, <3>1, NothingYet DEF ReceiveUnheard, Messages, ChainTyped
    <3> HIDE DEF next
    <3> QED
      BY <3>1, <3>2, <3>3
  <2>3. CASE ReceiveActivity
    <3> DEFINE next == posts.queued + Messages(Head(wire))
    <3>1. ~Settled => next <= items /\ CountedFrom(Tail(wire), next, items, turn)
      BY <2>3, CountRead DEF ReceiveActivity, ChainTyped, FlagsTyped
    <3>2. /\ UNCHANGED <<turn, items>> /\ wire' = Tail(wire)
          /\ Settled => Settled' /\ posts' = posts
      BY <2>3 DEF ReceiveActivity, Listening
    <3>3. ~Settled => posts'.queued = next
      BY <2>3, <3>1 DEF ReceiveActivity, Messages, ChainTyped
    <3> HIDE DEF next
    <3> QED
      BY <3>1, <3>2, <3>3
  <2>4. CASE ReceiveAsk
    <3> DEFINE next == posts.queued + Messages(Head(wire))
    <3>1. ~Settled => next <= items /\ CountedFrom(Tail(wire), next, items, turn)
      BY <2>4, CountRead DEF ReceiveAsk, Halt, ChainTyped, FlagsTyped
    <3>2. /\ UNCHANGED <<turn, items>> /\ wire' = Tail(wire)
          /\ Settled => Settled' /\ posts' = posts
      BY <2>4 DEF ReceiveAsk, Halt, Listening
    <3>3. ~Settled => posts'.queued = next
      BY <2>4, <3>1 DEF ReceiveAsk, Halt, Messages, ChainTyped
    <3> HIDE DEF next
    <3> QED
      BY <3>1, <3>2, <3>3
  <2>5. CASE ReceiveCompleted
    <3> DEFINE next == posts.queued + Messages(Head(wire))
    <3>1. ~Settled => next <= items /\ CountedFrom(Tail(wire), next, items, turn)
      BY <2>5, CountRead DEF ReceiveCompleted, ChainTyped, FlagsTyped
    <3>2. /\ UNCHANGED <<turn, items>> /\ wire' = Tail(wire)
          /\ Settled => Settled' /\ posts' = posts
      BY <2>5 DEF ReceiveCompleted, Listening
    <3>3. ~Settled => posts'.queued = next
      BY <2>5, <3>1 DEF ReceiveCompleted, Messages, ChainTyped
    <3> HIDE DEF next
    <3> QED
      BY <3>1, <3>2, <3>3
  <2> QED
    BY <1>1, <2>1, <2>2, <2>3, <2>4, <2>5 DEF Receive
<1>2. CASE Callback
  <2> PICK a \in answers : Continue(a) \/ ContinueInterrupt(a)
    BY <1>2 DEF Callback
  <2>1. CASE Continue(a)
    <3>1. CASE ContinueBudget(a)
      <4>1. /\ ~Settled /\ turn = "none" /\ UNCHANGED <<wire, items, posts>>
            /\ turn' = "none" => turn = "none"
        BY <2>1, <3>1, LessOne, Names DEF Continue, ContinueBudget, Waiting, FlagsTyped
      <4> QED
        BY <4>1, EndNotWritten
    <3>2. CASE ContinueOpening(a) /\ UNCHANGED turn
      BY <2>1, <3>2 DEF Continue, ContinueOpening
    <3>3. CASE ContinueStart(a) /\ UNCHANGED turn
      <4>1. UNCHANGED <<wire, turn, items, posts>> /\ (Settled => Settled')
        BY <2>1, <3>3, FinishSettles DEF Continue, ContinueStart
      <4> QED
        BY <4>1
    <3>4. CASE ContinueLate(a) /\ UNCHANGED turn
      <4>1. UNCHANGED <<wire, turn, items, posts>> /\ (Settled => Settled')
        BY <2>1, <3>4, FinishSettles DEF Continue, ContinueLate
      <4> QED
        BY <4>1
    <3>5. CASE ContinuePoll(a) /\ UNCHANGED turn
      BY <2>1, <3>5 DEF Continue, ContinuePoll, Halt
    <3>6. CASE a.about = "interrupt" /\ AskNothing({a}) /\ UNCHANGED <<phase, local, turn>>
      BY <2>1, <3>6 DEF Continue, AskNothing, local
    <3> QED
      BY <2>1, <3>1, <3>2, <3>3, <3>4, <3>5, <3>6 DEF Continue
  <2>2. CASE ContinueInterrupt(a)
    <3>1. /\ UNCHANGED <<turn, items, posts>> /\ (wire' = wire \/ wire' = <<>>)
          /\ Settled => Settled'
      BY <2>2, FinishSettles DEF ContinueInterrupt, CloseClient, Fail, Broken
    <3>2. Listening => Settled'
      BY <2>2, OutcomeSettles DEF ContinueInterrupt, Broken, Listening
    <3> QED
      BY <3>1, <3>2, Dropped
  <2> QED
    BY <2>1, <2>2
<1>3. CASE Chain
  <2>1. CASE \E ok \in BOOLEAN : Publish(ok)
    BY <2>1 DEF Publish, Halt
  <2>2. CASE Conclude
    <3>1. UNCHANGED <<wire, turn, items, posts>> /\ (Settled => Settled')
      BY <2>2, FinishSettles DEF Conclude
    <3> QED
      BY <3>1
  <2>3. CASE Resolve
    BY <2>3 DEF Resolve
  <2> QED
    BY <1>3, <2>1, <2>2, <2>3 DEF Chain
<1>4. CASE Server
  <2>1. CASE ServerBegins
    <3>1. /\ ~Settled /\ Emit(Note("started")) /\ Note("started") \in Line
          /\ items' = items + Messages(Note("started"))
          /\ UNCHANGED <<posts, value>> /\ (Ends(Note("started")) => turn' = Note("started").says)
          /\ client = "open" \/ Messages(Note("started")) = 0
          /\ items' \in Nat /\ items <= items'
          /\ (turn' = "none" => turn = "none" /\ items' = items)
          /\ \/ turn \notin {"completed", "failed"}
             \/ turn' = turn /\ Messages(Note("started")) = 0
      BY <2>1, NoticeIs DEF ServerBegins, ServerKeeps, CanWrite, FlagsTyped
    <3>2. CountedFrom(wire', posts.queued, items + Messages(Note("started")), turn')
      BY <3>1, Written DEF FlagsTyped
    <3>3. posts'.queued <= items'
      BY <3>1 DEF ChainTyped, FlagsTyped
    <3> QED
      BY <3>1, <3>2, <3>3
  <2>2. CASE ServerDies
    <3>1. /\ UNCHANGED <<wire, items, posts, value>> /\ (turn' = "none" => turn = "none")
          /\ turn' = turn \/ turn \notin {"completed", "failed"}
      BY <2>2 DEF ServerDies, ServerKeeps, Lost
    <3> QED
      BY <3>1, EndNotWritten
  <2>3. CASE ServerStrays
    <3>1. /\ ~Settled /\ Emit(Foreign) /\ Foreign \in Line
          /\ items' = items + Messages(Foreign)
          /\ UNCHANGED <<posts, value>> /\ (Ends(Foreign) => turn' = Foreign.says)
          /\ client = "open" \/ Messages(Foreign) = 0
          /\ items' \in Nat /\ items <= items'
          /\ (turn' = "none" => turn = "none" /\ items' = items)
          /\ \/ turn \notin {"completed", "failed"}
             \/ turn' = turn /\ Messages(Foreign) = 0
      BY <2>3, NoticeIs DEF ServerStrays, ServerKeeps, CanWrite, FlagsTyped
    <3>2. CountedFrom(wire', posts.queued, items + Messages(Foreign), turn')
      BY <3>1, Written DEF FlagsTyped
    <3>3. posts'.queued <= items'
      BY <3>1 DEF ChainTyped, FlagsTyped
    <3> QED
      BY <3>1, <3>2, <3>3
  <2>4. CASE \E r \in Request : ServerAnswers(r)
    <3> PICK r \in Request, says \in Result : ServerAnswers(r) /\ Emit(Reply(r, says))
      BY <2>4, SaysResult DEF ServerAnswers
    <3>1. /\ ~Settled /\ Emit(Reply(r, says)) /\ Reply(r, says) \in Line
          /\ items' = items + Messages(Reply(r, says))
          /\ UNCHANGED <<posts, value>> /\ (Ends(Reply(r, says)) => turn' = Reply(r, says).says)
          /\ client = "open" \/ Messages(Reply(r, says)) = 0
          /\ items' \in Nat /\ items <= items'
          /\ (turn' = "none" => turn = "none" /\ items' = items)
          /\ \/ turn \notin {"completed", "failed"}
             \/ turn' = turn /\ Messages(Reply(r, says)) = 0
      BY NoticeIs, AnswerIs DEF ServerAnswers, ServerKeeps, CanWrite, FlagsTyped
    <3>2. CountedFrom(wire', posts.queued, items + Messages(Reply(r, says)), turn')
      BY <3>1, Written DEF FlagsTyped
    <3>3. posts'.queued <= items'
      BY <3>1 DEF ChainTyped, FlagsTyped
    <3> QED
      BY <3>1, <3>2, <3>3
  <2>5. CASE \E kind \in {"item", "ask"} : ServerSends(kind)
    <3> PICK kind \in {"item", "ask"} : ServerSends(kind)
      BY <2>5
    <3>1. /\ ~Settled /\ Emit(Note(kind)) /\ Note(kind) \in Line
          /\ items' = items + Messages(Note(kind))
          /\ UNCHANGED <<posts, value>> /\ (Ends(Note(kind)) => turn' = Note(kind).says)
          /\ client = "open" \/ Messages(Note(kind)) = 0
          /\ items' \in Nat /\ items <= items'
          /\ (turn' = "none" => turn = "none" /\ items' = items)
          /\ \/ turn \notin {"completed", "failed"}
             \/ turn' = turn /\ Messages(Note(kind)) = 0
      BY NoticeIs DEF ServerSends, ServerKeeps, CanWrite, FlagsTyped
    <3>2. CountedFrom(wire', posts.queued, items + Messages(Note(kind)), turn')
      BY <3>1, Written DEF FlagsTyped
    <3>3. posts'.queued <= items'
      BY <3>1 DEF ChainTyped, FlagsTyped
    <3> QED
      BY <3>1, <3>2, <3>3
  <2>6. CASE \E says \in {"completed", "failed"} : ServerEnds(says)
    <3> PICK says \in {"completed", "failed"} : ServerEnds(says)
      BY <2>6
    <3>1. CASE Settled
      BY <3>1 DEF ServerEnds, ServerKeeps
    <3>2. CASE ~Settled
      <4>1. /\ ~Settled /\ Emit(Ended(says)) /\ Ended(says) \in Line
            /\ items' = items + Messages(Ended(says))
            /\ UNCHANGED <<posts, value>> /\ (Ends(Ended(says)) => turn' = Ended(says).says)
            /\ client = "open" \/ Messages(Ended(says)) = 0
            /\ items' \in Nat /\ items <= items'
            /\ (turn' = "none" => turn = "none" /\ items' = items)
            /\ \/ turn \notin {"completed", "failed"}
               \/ turn' = turn /\ Messages(Ended(says)) = 0
        BY <3>2, NoticeIs DEF ServerEnds, ServerKeeps, CanWrite, FlagsTyped
      <4>2. CountedFrom(wire', posts.queued, items + Messages(Ended(says)), turn')
        BY <4>1, Written DEF FlagsTyped
      <4>3. posts'.queued <= items'
        BY <4>1 DEF ChainTyped, FlagsTyped
      <4> QED
        BY <4>1, <4>2, <4>3
    <3> QED
      BY <3>1, <3>2
  <2> QED
    BY <1>4, <2>1, <2>2, <2>3, <2>4, <2>5, <2>6 DEF Server
<1>5. CASE Poll
  BY <1>5 DEF Poll
<1>6. CASE Breaks
  <2>1. /\ UNCHANGED <<turn, items, posts>> /\ (wire' = wire \/ wire' = <<>>)
        /\ Settled => Settled'
    BY <1>6, FinishSettles DEF Breaks, CloseClient, Fail, Broken
  <2>2. Listening => Settled'
    BY <1>6, OutcomeSettles DEF Breaks, Broken, Listening
  <2> QED
    BY <2>1, <2>2, Dropped
<1>7. CASE \E r \in Request : Timeout(r)
  BY <1>7 DEF Timeout
<1>8. CASE Stall
  BY <1>8 DEF Stall, Halt
<1>9. CASE InterruptExpired
  <2>1. /\ UNCHANGED <<turn, items, posts>> /\ (wire' = wire \/ wire' = <<>>)
        /\ Settled => Settled'
    BY <1>9, FinishSettles DEF InterruptExpired, CloseClient, Fail, Broken
  <2>2. Listening => Settled'
    BY <1>9, OutcomeSettles DEF InterruptExpired, Broken, Listening
  <2> QED
    BY <2>1, <2>2, Dropped
<1>10. CASE Terminate
  <2>1. /\ UNCHANGED <<wire, items, posts, value>> /\ (turn' = "none" => turn = "none")
        /\ turn' = turn \/ turn \notin {"completed", "failed"}
    BY <1>10 DEF Terminate, Lost
  <2> QED
    BY <2>1, EndNotWritten
<1>11. CASE Cancel
  <2>1. /\ UNCHANGED <<turn, items, posts>> /\ (wire' = wire \/ wire' = <<>>)
        /\ Settled => Settled'
    BY <1>11, FinishSettles DEF Cancel, CloseClient, Fail, Broken
  <2>2. Listening => Settled'
    BY <1>11, OutcomeSettles DEF Cancel, Broken, Listening
  <2> QED
    BY <2>1, <2>2, Dropped
<1>12. CASE CloseSession
  <2>1. /\ UNCHANGED <<turn, items, posts>> /\ (wire' = wire \/ wire' = <<>>)
        /\ Settled => Settled'
    BY <1>12, FinishSettles DEF CloseSession, CloseClient, Fail, Broken
  <2>2. Listening => Settled'
    BY <1>12, OutcomeSettles DEF CloseSession, Broken, Listening
  <2> QED
    BY <2>1, <2>2, Dropped
<1>13. CASE Unlock
  BY <1>13 DEF Unlock
<1>14. CASE UNCHANGED vars
  BY <1>14 DEF vars, server, pipe, local
<1> QED
  BY <1>1, <1>2, <1>3, <1>4, <1>5, <1>6, <1>7, <1>8, <1>9, <1>10, <1>11, <1>12, <1>13, <1>14 DEF
     Next, Over
-----------------------------------------------------------------------------


(* The end of the turn says how it ended. *)
LEMMA EndSays == \A m \in Line : Ends(m) => m.says \in {"completed", "failed"}
BY DEF Line, Answer, Notice, Note, Ended, Foreign, Ends

(* A line that is read while the outcome is open. *)
LEMMA LineRead ==
  ASSUME IInv, Listening, wire # <<>>
  PROVE  /\ Head(wire) \in Line /\ posts.queued \in Nat /\ items \in Nat
         /\ posts.queued + Messages(Head(wire)) <= items
         /\ Ends(Head(wire)) =>
              /\ turn = Head(wire).says /\ posts.queued = items
              /\ Head(wire).says \in {"completed", "failed"}
<1>1. ~Settled /\ wire \in Seq(Line) /\ posts.queued \in Nat /\ items \in Nat
  BY DEF IInv, Listening, TypeOK, Shaped
<1>2. CountedFrom(wire, posts.queued, items, turn) /\ posts.queued <= items
  BY <1>1 DEF IInv, Tally
<1>3. Head(wire) \in Line
  BY <1>1, Lines
<1>4. /\ posts.queued + Messages(Head(wire)) <= items
      /\ Ends(Head(wire)) => turn = Head(wire).says /\ posts.queued + Messages(Head(wire)) = items
  BY <1>1, <1>2, CountRead
<1>5. Ends(Head(wire)) => Messages(Head(wire)) = 0
  BY DEF Ends, Messages
<1> QED
  BY <1>1, <1>3, <1>4, <1>5, EndSays

(* An outcome is typed. *)
LEMMA FinishTyped ==
  ASSUME ChainTyped, NEW v \in {"refused", "completed"} \union Stop, Finish(v)
  PROVE  ChainTyped'
<1>1. CASE Settled
  <2>1. UNCHANGED <<posts, ending, value>>
    BY <1>1 DEF Finish
  <2> QED
    BY <2>1 DEF ChainTyped
<1>2. CASE ~Settled
  <2>1. UNCHANGED <<posts, ending>> /\ value' = [is |-> v, at |-> posts.queued]
    BY <1>2 DEF Finish
  <2> QED
    BY <2>1 DEF ChainTyped
<1> QED
  BY <1>1, <1>2


(* The chain of publications, the completion and the outcome keep their type. *)
LEMMA ChainTypedStep == IInv /\ [Next]_vars => ChainTyped'
<1> SUFFICES ASSUME IInv, [Next]_vars PROVE ChainTyped'
  OBVIOUS
<1> FlagsTyped /\ RequestsTyped /\ ChainTyped /\ TypeOK /\ Decided
  BY TypeParts DEF IInv
<1> USE DEF ChainTyped, server, pipe, local
<1>1. CASE Receive
  <2>1. CASE ReceiveReply
    BY <2>1 DEF ReceiveReply
  <2>2. CASE ReceiveUnheard
    BY <2>2 DEF ReceiveUnheard
  <2>3. CASE ReceiveActivity
    <3>1. /\ UNCHANGED <<ending, value>>
          /\ \/ posts' = posts
             \/ /\ Messages(Head(wire)) = 1
                /\ posts' = [posts EXCEPT !.queued = posts.queued + 1]
      BY <2>3 DEF ReceiveActivity, Messages
    <3>2. posts.queued + Messages(Head(wire)) <= items
      BY <2>3, LineRead DEF ReceiveActivity
    <3>3. CASE posts' = posts
      BY <3>1, <3>3
    <3>4. CASE Messages(Head(wire)) = 1 /\ posts' = [posts EXCEPT !.queued = posts.queued + 1]
      <4>1. posts.queued + 1 \in 0..MaxItems
        BY <3>2, <3>4, BoundsAssumption DEF FlagsTyped
      <4> QED
        BY <3>1, <3>4, <4>1
    <3> QED
      BY <3>1, <3>3, <3>4
  <2>4. CASE ReceiveAsk
    BY <2>4 DEF ReceiveAsk
  <2>5. CASE ReceiveCompleted
    <3>1. CASE Completes(Head(wire))
      <4>1. Ends(Head(wire)) /\ ending' = [is |-> Head(wire).says, at |-> posts.queued]
        BY <2>5, <3>1 DEF ReceiveCompleted, Completes, Ends
      <4>2. Head(wire).says \in {"completed", "failed"} /\ UNCHANGED <<posts, value>>
        BY <2>5, <4>1, LineRead DEF ReceiveCompleted
      <4> QED
        BY <4>1, <4>2
    <3>2. CASE ~Completes(Head(wire))
      BY <2>5, <3>2 DEF ReceiveCompleted
    <3> QED
      BY <3>1, <3>2
  <2> QED
    BY <1>1, <2>1, <2>2, <2>3, <2>4, <2>5 DEF Receive
<1>2. CASE Callback
  <2> PICK a \in answers : Continue(a) \/ ContinueInterrupt(a)
    BY <1>2 DEF Callback
  <2>1. CASE Continue(a)
    <3>1. CASE ContinueBudget(a)
      <4>1. CASE a.says = "ok"
        BY <2>1, <3>1, <4>1 DEF Continue, ContinueBudget, Stop
      <4>2. CASE ~(a.says = "ok")
        BY <2>1, <3>1, <4>2 DEF Continue, ContinueBudget, Stop
      <4> QED
        BY <4>1, <4>2
    <3>2. CASE ContinueOpening(a) /\ UNCHANGED turn
      BY <2>1, <3>2 DEF Continue, ContinueOpening
    <3>3. CASE ContinueStart(a) /\ UNCHANGED turn
      <4>1. CASE UNCHANGED <<posts, ending, value>>
        BY <4>1
      <4>2. CASE \E v \in {"paused", "completed", "input"} : Finish(v)
        BY <4>2, FinishTyped DEF Stop
      <4>3. \/ UNCHANGED <<posts, ending, value>>
            \/ \E v \in {"paused", "completed", "input"} : Finish(v)
        BY <2>1, <3>3, OutcomeSettles DEF Continue, ContinueStart
      <4> QED
        BY <4>1, <4>2, <4>3
    <3>4. CASE ContinueLate(a) /\ UNCHANGED turn
      <4>1. CASE UNCHANGED <<posts, ending, value>>
        BY <4>1
      <4>2. CASE \E v \in {"paused", "completed", "input"} : Finish(v)
        BY <4>2, FinishTyped DEF Stop
      <4>3. \/ UNCHANGED <<posts, ending, value>>
            \/ \E v \in {"paused", "completed", "input"} : Finish(v)
        BY <2>1, <3>4, OutcomeSettles DEF Continue, ContinueLate
      <4> QED
        BY <4>1, <4>2, <4>3
    <3>5. CASE ContinuePoll(a) /\ UNCHANGED turn
      BY <2>1, <3>5 DEF Continue, ContinuePoll
    <3>6. CASE a.about = "interrupt" /\ AskNothing({a}) /\ UNCHANGED <<phase, local, turn>>
      BY <2>1, <3>6 DEF Continue, AskNothing, local
    <3> QED
      BY <2>1, <3>1, <3>2, <3>3, <3>4, <3>5, <3>6 DEF Continue
  <2>2. CASE ContinueInterrupt(a)
    <3>1. CASE UNCHANGED <<posts, ending, value>>
      BY <3>1
    <3>2. CASE \E v \in {"paused", "completed", "input"} : Finish(v)
      BY <3>2, FinishTyped DEF Stop
    <3>3. \/ UNCHANGED <<posts, ending, value>>
          \/ \E v \in {"paused", "completed", "input"} : Finish(v)
      BY <2>2, OutcomeSettles DEF ContinueInterrupt, Broken
    <3> QED
      BY <3>1, <3>2, <3>3
  <2> QED
    BY <2>1, <2>2
<1>3. CASE Chain
  <2>1. CASE \E ok \in BOOLEAN : Publish(ok)
    <3> PICK ok \in BOOLEAN : Publish(ok)
      BY <2>1
    <3>1. /\ posts.settled < posts.queued /\ UNCHANGED <<ending, value>>
          /\ \/ posts' = [posts EXCEPT !.settled = posts.settled + 1]
             \/ posts' = [posts EXCEPT !.settled = posts.settled + 1, !.failed = posts.failed + 1]
      BY DEF Publish
    <3>2. CASE posts' = [posts EXCEPT !.settled = posts.settled + 1]
      BY <3>1, <3>2
    <3>3. CASE posts' = [posts EXCEPT !.settled = posts.settled + 1, !.failed = posts.failed + 1]
      <4>1. posts' = [queued |-> posts.queued, settled |-> posts.settled + 1,
                         failed |-> posts.failed + 1]
        BY <3>3
      <4> QED
        BY <3>1, <4>1
    <3> QED
      BY <3>1, <3>2, <3>3
  <2>2. CASE Conclude
    <3>1. CASE UNCHANGED <<posts, ending, value>>
      BY <3>1
    <3>2. CASE \E v \in {"paused", "completed", "input"} : Finish(v)
      BY <3>2, FinishTyped DEF Stop
    <3>3. \/ UNCHANGED <<posts, ending, value>>
          \/ \E v \in {"paused", "completed", "input"} : Finish(v)
      BY <2>2, OutcomeSettles DEF Conclude
    <3> QED
      BY <3>1, <3>2, <3>3
  <2>3. CASE Resolve
    BY <2>3 DEF Resolve
  <2> QED
    BY <1>3, <2>1, <2>2, <2>3 DEF Chain
<1>4. CASE Server
  <2>1. CASE ServerBegins
    BY <2>1 DEF ServerBegins, ServerKeeps, CanWrite
  <2>2. CASE ServerDies
    BY <2>2 DEF ServerDies, Lost, ServerKeeps
  <2>3. CASE ServerStrays
    BY <2>3 DEF ServerStrays, ServerKeeps, CanWrite
  <2>4. CASE \E r \in Request : ServerAnswers(r)
    BY <2>4 DEF ServerAnswers, ServerKeeps, CanWrite
  <2>5. CASE \E kind \in {"item", "ask"} : ServerSends(kind)
    BY <2>5 DEF ServerSends, ServerKeeps, CanWrite
  <2>6. CASE \E says \in {"completed", "failed"} : ServerEnds(says)
    BY <2>6 DEF ServerEnds, ServerKeeps, CanWrite
  <2> QED
    BY <1>4, <2>1, <2>2, <2>3, <2>4, <2>5, <2>6 DEF Server
<1>5. CASE Poll
  BY <1>5 DEF Poll
<1>6. CASE Breaks
  <2>1. CASE UNCHANGED <<posts, ending, value>>
    BY <2>1
  <2>2. CASE \E v \in {"paused", "completed", "input"} : Finish(v)
    BY <2>2, FinishTyped DEF Stop
  <2>3. \/ UNCHANGED <<posts, ending, value>>
        \/ \E v \in {"paused", "completed", "input"} : Finish(v)
    BY <1>6, OutcomeSettles DEF Breaks, Broken
  <2> QED
    BY <2>1, <2>2, <2>3
<1>7. CASE \E r \in Request : Timeout(r)
  BY <1>7 DEF Timeout
<1>8. CASE Stall
  BY <1>8 DEF Stall
<1>9. CASE InterruptExpired
  <2>1. CASE UNCHANGED <<posts, ending, value>>
    BY <2>1
  <2>2. CASE \E v \in {"paused", "completed", "input"} : Finish(v)
    BY <2>2, FinishTyped DEF Stop
  <2>3. \/ UNCHANGED <<posts, ending, value>>
        \/ \E v \in {"paused", "completed", "input"} : Finish(v)
    BY <1>9, OutcomeSettles DEF InterruptExpired
  <2> QED
    BY <2>1, <2>2, <2>3
<1>10. CASE Terminate
  BY <1>10 DEF Terminate
<1>11. CASE Cancel
  <2>1. CASE UNCHANGED <<posts, ending, value>>
    BY <2>1
  <2>2. CASE \E v \in {"paused", "completed", "input"} : Finish(v)
    BY <2>2, FinishTyped DEF Stop
  <2>3. \/ UNCHANGED <<posts, ending, value>>
        \/ \E v \in {"paused", "completed", "input"} : Finish(v)
    BY <1>11, OutcomeSettles DEF Cancel, Broken
  <2> QED
    BY <2>1, <2>2, <2>3
<1>12. CASE CloseSession
  BY <1>12 DEF CloseSession
<1>13. CASE Unlock
  BY <1>13 DEF Unlock
<1>14. CASE UNCHANGED vars
  BY <1>14 DEF vars, server, pipe, local
<1> QED
  BY <1>1, <1>2, <1>3, <1>4, <1>5, <1>6, <1>7, <1>8, <1>9, <1>10, <1>11, <1>12, <1>13, <1>14 DEF
     Next, Over

(* A completion that was heard stays the last word of the turn. *)
LEMMA HeardStep == IInv /\ [Next]_vars => Heard'
<1> SUFFICES ASSUME IInv, [Next]_vars PROVE Heard'
  OBVIOUS
<1> FlagsTyped /\ RequestsTyped /\ ChainTyped /\ TypeOK /\ Heard /\ Waiting
  BY TypeParts DEF IInv
<1> USE DEF Heard, server, pipe, local
<1>1. CASE Receive
  <2>1. CASE ReceiveReply
    BY <2>1 DEF ReceiveReply
  <2>2. CASE ReceiveUnheard
    BY <2>2 DEF ReceiveUnheard
  <2>3. CASE ReceiveActivity
    <3>1. /\ UNCHANGED <<ending, turn, items>> /\ posts.queued + Messages(Head(wire)) <= items
          /\ posts.queued \in Nat /\ items \in Nat
          /\ posts'.queued = posts.queued + Messages(Head(wire)) /\ Messages(Head(wire)) \in 0..1
      BY <2>3, LineRead DEF ReceiveActivity, Messages, ChainTyped
    <3> QED
      BY <3>1
  <2>4. CASE ReceiveAsk
    BY <2>4 DEF ReceiveAsk
  <2>5. CASE ReceiveCompleted
    <3>1. CASE Completes(Head(wire))
      <4>1. Ends(Head(wire)) /\ ending' = [is |-> Head(wire).says, at |-> posts.queued]
        BY <2>5, <3>1 DEF ReceiveCompleted, Completes, Ends
      <4>2. turn = Head(wire).says /\ posts.queued = items /\ UNCHANGED <<posts, turn, items>>
        BY <2>5, <4>1, LineRead DEF ReceiveCompleted
      <4> QED
        BY <4>1, <4>2
    <3>2. CASE ~Completes(Head(wire))
      BY <2>5, <3>2 DEF ReceiveCompleted
    <3> QED
      BY <3>1, <3>2
  <2> QED
    BY <1>1, <2>1, <2>2, <2>3, <2>4, <2>5 DEF Receive
<1>2. CASE Callback
  <2> PICK a \in answers : Continue(a) \/ ContinueInterrupt(a)
    BY <1>2 DEF Callback
  <2>1. CASE Continue(a)
    <3>1. CASE ContinueBudget(a)
      <4>1. turn = "none" /\ UNCHANGED <<posts, ending, items>>
        BY <2>1, <3>1, LessOne, Names DEF Continue, ContinueBudget, Waiting, FlagsTyped
      <4> QED
        BY <4>1
    <3>2. CASE ContinueOpening(a) /\ UNCHANGED turn
      BY <2>1, <3>2 DEF Continue, ContinueOpening
    <3>3. CASE ContinueStart(a) /\ UNCHANGED turn
      <4>1. UNCHANGED <<posts, ending, turn, items>>
        BY <2>1, <3>3, FinishSettles DEF Continue, ContinueStart
      <4> QED
        BY <4>1
    <3>4. CASE ContinueLate(a) /\ UNCHANGED turn
      <4>1. UNCHANGED <<posts, ending, turn, items>>
        BY <2>1, <3>4, FinishSettles DEF Continue, ContinueLate
      <4> QED
        BY <4>1
    <3>5. CASE ContinuePoll(a) /\ UNCHANGED turn
      BY <2>1, <3>5 DEF Continue, ContinuePoll
    <3>6. CASE a.about = "interrupt" /\ AskNothing({a}) /\ UNCHANGED <<phase, local, turn>>
      BY <2>1, <3>6 DEF Continue, AskNothing, local
    <3> QED
      BY <2>1, <3>1, <3>2, <3>3, <3>4, <3>5, <3>6 DEF Continue
  <2>2. CASE ContinueInterrupt(a)
    <3>1. UNCHANGED <<posts, ending, turn, items>>
      BY <2>2, FinishSettles DEF ContinueInterrupt, Broken
    <3> QED
      BY <3>1
  <2> QED
    BY <2>1, <2>2
<1>3. CASE Chain
  <2>1. CASE \E ok \in BOOLEAN : Publish(ok)
    <3> PICK ok \in BOOLEAN : Publish(ok)
      BY <2>1
    <3>1. UNCHANGED <<ending, turn, items>> /\ posts'.queued = posts.queued
      BY DEF Publish, ChainTyped
    <3> QED
      BY <3>1
  <2>2. CASE Conclude
    <3>1. UNCHANGED <<posts, ending, turn, items>>
      BY <2>2, FinishSettles DEF Conclude
    <3> QED
      BY <3>1
  <2>3. CASE Resolve
    BY <2>3 DEF Resolve
  <2> QED
    BY <1>3, <2>1, <2>2, <2>3 DEF Chain
<1>4. CASE Server
  <2>1. CASE ServerBegins
    BY <2>1 DEF ServerBegins, ServerKeeps, CanWrite
  <2>2. CASE ServerDies
    BY <2>2 DEF ServerDies, Lost, ServerKeeps
  <2>3. CASE ServerStrays
    BY <2>3 DEF ServerStrays, ServerKeeps, CanWrite
  <2>4. CASE \E r \in Request : ServerAnswers(r)
    BY <2>4 DEF ServerAnswers, ServerKeeps, CanWrite
  <2>5. CASE \E kind \in {"item", "ask"} : ServerSends(kind)
    BY <2>5 DEF ServerSends, ServerKeeps, CanWrite
  <2>6. CASE \E says \in {"completed", "failed"} : ServerEnds(says)
    BY <2>6 DEF ServerEnds, ServerKeeps, CanWrite
  <2> QED
    BY <1>4, <2>1, <2>2, <2>3, <2>4, <2>5, <2>6 DEF Server
<1>5. CASE Poll
  BY <1>5 DEF Poll
<1>6. CASE Breaks
  <2>1. UNCHANGED <<posts, ending, turn, items>>
    BY <1>6, FinishSettles DEF Breaks, Broken
  <2> QED
    BY <2>1
<1>7. CASE \E r \in Request : Timeout(r)
  BY <1>7 DEF Timeout
<1>8. CASE Stall
  BY <1>8 DEF Stall
<1>9. CASE InterruptExpired
  <2>1. UNCHANGED <<posts, ending, turn, items>>
    BY <1>9, FinishSettles DEF InterruptExpired
  <2> QED
    BY <2>1
<1>10. CASE Terminate
  BY <1>10 DEF Terminate, Lost
<1>11. CASE Cancel
  <2>1. UNCHANGED <<posts, ending, turn, items>>
    BY <1>11, FinishSettles DEF Cancel, Broken
  <2> QED
    BY <2>1
<1>12. CASE CloseSession
  BY <1>12 DEF CloseSession
<1>13. CASE Unlock
  BY <1>13 DEF Unlock
<1>14. CASE UNCHANGED vars
  BY <1>14 DEF vars, server, pipe, local
<1> QED
  BY <1>1, <1>2, <1>3, <1>4, <1>5, <1>6, <1>7, <1>8, <1>9, <1>10, <1>11, <1>12, <1>13, <1>14 DEF
     Next, Over
-----------------------------------------------------------------------------


(* What an outcome is decided from. *)
LEMMA FinishDecides ==
  ASSUME Decided, NEW v, Finish(v),
         Listening => v # "completed" /\ (stopped # "none" => v = stopped)
  PROVE  Listening \/ Settled => Decided'
<1>1. CASE Settled
  <2>1. UNCHANGED <<posts, ending, value, stopped>> /\ armed' = FALSE
    BY <1>1 DEF Finish
  <2> QED
    BY <1>1, <2>1 DEF Decided, StopPrevails, Settled
<1>2. CASE Listening
  <2>1. /\ UNCHANGED <<posts, ending, stopped>> /\ armed' = FALSE
        /\ value' = [is |-> v, at |-> posts.queued]
    BY <1>2 DEF Finish, Listening
  <2>2. value'.is = v
    BY <2>1
  <2> QED
    BY <1>2, <2>1, <2>2 DEF Decided, StopPrevails, Settled, Listening
<1> QED
  BY <1>1, <1>2

(* A stop before the outcome decides nothing yet. *)
LEMMA HaltDecides ==
  ASSUME Decided, NEW why \in Stop, NEW isKnown, NEW done, Halt(why, isKnown, done),
         UNCHANGED <<ending, value>>,
         posts' = posts \/ value.is # "completed"
  PROVE  Decided'
<1>1. CASE stopped # "none" \/ Settled
  BY <1>1 DEF Halt, Decided, StopPrevails, Settled
<1>2. CASE ~(stopped # "none" \/ Settled)
  <2>1. stopped' = why /\ why # "none"
    BY <1>2 DEF Halt, Stop
  <2> QED
    BY <1>2, <2>1 DEF Decided, StopPrevails, Settled
<1> QED
  BY <1>1, <1>2


(* The first stop, or the completion with all its messages, decides the outcome. *)
LEMMA DecidedStep == IInv /\ [Next]_vars => Decided'
<1> SUFFICES ASSUME IInv, [Next]_vars PROVE Decided'
  OBVIOUS
<1> FlagsTyped /\ RequestsTyped /\ ChainTyped /\ TypeOK /\ Decided /\ Heard /\ Waiting
  BY TypeParts DEF IInv
<1> USE DEF Decided, StopPrevails, Settled, server, pipe, local
<1>1. CASE Receive
  <2>1. CASE ReceiveReply
    BY <2>1 DEF ReceiveReply
  <2>2. CASE ReceiveUnheard
    BY <2>2 DEF ReceiveUnheard
  <2>3. CASE ReceiveActivity
    <3>1. /\ UNCHANGED <<stopped, armed, ending, value>> /\ ~Settled
          /\ posts'.failed = posts.failed
      BY <2>3 DEF ReceiveActivity, ChainTyped, Listening
    <3> QED
      BY <3>1
  <2>4. CASE ReceiveAsk
    <3>1. Halt("input", TRUE, {}) /\ UNCHANGED <<posts, ending, value>>
      BY <2>4 DEF ReceiveAsk
    <3> HIDE DEF Decided
    <3> QED
      BY <3>1, HaltDecides DEF Stop
  <2>5. CASE ReceiveCompleted
    <3>1. UNCHANGED <<stopped, armed, posts, value>> /\ ~Settled
      BY <2>5 DEF ReceiveCompleted, Listening
    <3> QED
      BY <3>1
  <2> QED
    BY <1>1, <2>1, <2>2, <2>3, <2>4, <2>5 DEF Receive
<1>2. CASE Callback
  <2> PICK a \in answers : Continue(a) \/ ContinueInterrupt(a)
    BY <1>2 DEF Callback
  <2>1. CASE Continue(a)
    <3>1. CASE ContinueBudget(a)
      <4>1. stopped = "none" /\ UNCHANGED <<stopped, armed, posts, ending>>
        BY <2>1, <3>1, LessOne, Names DEF Continue, ContinueBudget, Waiting, FlagsTyped
      <4>2. value' = value \/ value'.is = "paused"
        BY <2>1, <3>1 DEF ContinueBudget
      <4> QED
        BY <4>1, <4>2
    <3>2. CASE ContinueOpening(a) /\ UNCHANGED turn
      BY <2>1, <3>2 DEF Continue, ContinueOpening, Waiting
    <3>3. CASE ContinueStart(a) /\ UNCHANGED turn
      <4>1. CASE UNCHANGED <<stopped, armed, posts, ending, value>>
        BY <4>1
      <4>2. CASE Finish(Or(stopped, "paused")) /\ (Listening \/ Settled)
        <5>1. /\ Or(stopped, "paused") # "completed"
              /\ stopped # "none" => Or(stopped, "paused") = stopped
          BY OutcomeSettles DEF Or
        <5> HIDE DEF Decided
        <5> QED
          BY <4>2, <5>1, FinishDecides
      <4>3. \/ UNCHANGED <<stopped, armed, posts, ending, value>>
            \/ Finish(Or(stopped, "paused")) /\ (Listening \/ Settled)
        BY <2>1, <3>3, LessOne, Names DEF Continue, ContinueStart, FlagsTyped, Waiting, Listening
      <4> QED
        BY <4>1, <4>2, <4>3
    <3>4. CASE ContinueLate(a) /\ UNCHANGED turn
      <4>1. CASE UNCHANGED <<stopped, armed, posts, ending, value>>
        BY <4>1
      <4>2. CASE Finish(Or(stopped, "paused")) /\ (Listening \/ Settled)
        <5>1. /\ Or(stopped, "paused") # "completed"
              /\ stopped # "none" => Or(stopped, "paused") = stopped
          BY OutcomeSettles DEF Or
        <5> HIDE DEF Decided
        <5> QED
          BY <4>2, <5>1, FinishDecides
      <4>3. \/ UNCHANGED <<stopped, armed, posts, ending, value>>
            \/ Finish(Or(stopped, "paused")) /\ (Listening \/ Settled)
        BY <2>1, <3>4, LessOne, Names DEF Continue, ContinueLate, FlagsTyped, Waiting, Listening
      <4> QED
        BY <4>1, <4>2, <4>3
    <3>5. CASE ContinuePoll(a) /\ UNCHANGED turn
      <4>1. /\ UNCHANGED <<posts, ending, value>>
            /\ UNCHANGED <<stopped, armed>> \/ Halt("paused", known, {a})
        BY <2>1, <3>5 DEF ContinuePoll
      <4>2. CASE UNCHANGED <<stopped, armed>>
        BY <4>1, <4>2
      <4>3. CASE Halt("paused", known, {a})
        <5> HIDE DEF Decided
        <5> QED
          BY <4>1, <4>3, HaltDecides DEF Stop
      <4> QED
        BY <4>1, <4>2, <4>3
    <3>6. CASE a.about = "interrupt" /\ AskNothing({a}) /\ UNCHANGED <<phase, local, turn>>
      BY <2>1, <3>6 DEF Continue, AskNothing, local
    <3> QED
      BY <2>1, <3>1, <3>2, <3>3, <3>4, <3>5, <3>6 DEF Continue
  <2>2. CASE ContinueInterrupt(a)
    <3>1. CASE UNCHANGED <<stopped, armed, posts, ending, value>>
      BY <3>1
    <3>2. CASE Finish(Or(stopped, "paused")) /\ (Listening \/ Settled)
      <4>1. /\ Or(stopped, "paused") # "completed"
            /\ stopped # "none" => Or(stopped, "paused") = stopped
        BY OutcomeSettles DEF Or
      <4> HIDE DEF Decided
      <4> QED
        BY <3>2, <4>1, FinishDecides
    <3>3. \/ UNCHANGED <<stopped, armed, posts, ending, value>>
          \/ Finish(Or(stopped, "paused")) /\ (Listening \/ Settled)
      BY <2>2, LessOne, Names DEF ContinueInterrupt, Broken, FlagsTyped, Waiting, Listening
    <3> QED
      BY <3>1, <3>2, <3>3
  <2> QED
    BY <2>1, <2>2
<1>3. CASE Chain
  <2>1. CASE \E ok \in BOOLEAN : Publish(ok)
    <3> PICK ok \in BOOLEAN : Publish(ok)
      BY <2>1
    <3>1. posts.settled < posts.queued /\ UNCHANGED <<ending, value>> /\ value.is # "completed"
      BY DEF Publish, ChainTyped
    <3>2. CASE ok
      <4>1. posts'.failed = posts.failed /\ UNCHANGED <<stopped, armed>>
        BY <3>2 DEF Publish, ChainTyped
      <4> QED
        BY <3>1, <4>1
    <3>3. CASE ~ok
      <4>1. Halt("paused", known, {})
        BY <3>3 DEF Publish
      <4> HIDE DEF Decided
      <4> QED
        BY <3>1, <4>1, HaltDecides DEF Stop
    <3> QED
      BY <3>2, <3>3
  <2>2. CASE Conclude
    <3>1. /\ Listening /\ ending.is # "none" /\ posts.settled >= ending.at /\ Finish(Outcome)
      BY <2>2 DEF Conclude
    <3>2. CASE stopped # "none"
      <4>1. Outcome = stopped /\ Outcome # "completed"
        BY <3>2 DEF Outcome, Or, FlagsTyped, Stop
      <4> HIDE DEF Decided
      <4> QED
        BY <3>1, <3>2, <4>1, FinishDecides
    <3>3. CASE stopped = "none" /\ ending.is # "completed"
      <4>1. Outcome = "paused"
        BY <3>3 DEF Outcome, Or
      <4> HIDE DEF Decided
      <4> QED
        BY <3>1, <3>3, <4>1, FinishDecides
    <3>4. CASE stopped = "none" /\ ending.is = "completed"
      <4>1. posts.settled = posts.queued /\ posts.failed = 0
        BY <3>1, <3>4 DEF Heard, ChainTyped, Listening
      <4>2. UNCHANGED <<stopped, posts, ending>> /\ armed' = FALSE
        BY <3>1 DEF Finish
      <4> QED
        BY <3>4, <4>1, <4>2
    <3> QED
      BY <3>2, <3>3, <3>4
  <2>3. CASE Resolve
    BY <2>3 DEF Resolve
  <2> QED
    BY <1>3, <2>1, <2>2, <2>3 DEF Chain
<1>4. CASE Server
  <2>1. CASE ServerBegins
    BY <2>1 DEF ServerBegins, ServerKeeps, CanWrite
  <2>2. CASE ServerDies
    BY <2>2 DEF ServerDies, Lost, ServerKeeps
  <2>3. CASE ServerStrays
    BY <2>3 DEF ServerStrays, ServerKeeps, CanWrite
  <2>4. CASE \E r \in Request : ServerAnswers(r)
    BY <2>4 DEF ServerAnswers, ServerKeeps, CanWrite
  <2>5. CASE \E kind \in {"item", "ask"} : ServerSends(kind)
    BY <2>5 DEF ServerSends, ServerKeeps, CanWrite
  <2>6. CASE \E says \in {"completed", "failed"} : ServerEnds(says)
    BY <2>6 DEF ServerEnds, ServerKeeps, CanWrite
  <2> QED
    BY <1>4, <2>1, <2>2, <2>3, <2>4, <2>5, <2>6 DEF Server
<1>5. CASE Poll
  BY <1>5 DEF Poll
<1>6. CASE Breaks
  <2>1. CASE UNCHANGED <<stopped, armed, posts, ending, value>>
    BY <2>1
  <2>2. CASE Finish(Or(stopped, "paused")) /\ (Listening \/ Settled)
    <3>1. /\ Or(stopped, "paused") # "completed"
          /\ stopped # "none" => Or(stopped, "paused") = stopped
      BY OutcomeSettles DEF Or
    <3> HIDE DEF Decided
    <3> QED
      BY <2>2, <3>1, FinishDecides
  <2>3. \/ UNCHANGED <<stopped, armed, posts, ending, value>>
        \/ Finish(Or(stopped, "paused")) /\ (Listening \/ Settled)
    BY <1>6, LessOne, Names DEF Breaks, Broken, FlagsTyped, Waiting, Listening
  <2> QED
    BY <2>1, <2>2, <2>3
<1>7. CASE \E r \in Request : Timeout(r)
  BY <1>7 DEF Timeout
<1>8. CASE Stall
  <2>1. Halt("paused", known, {}) /\ UNCHANGED <<posts, ending, value>>
    BY <1>8 DEF Stall
  <2> HIDE DEF Decided
  <2> QED
    BY <2>1, HaltDecides DEF Stop
<1>9. CASE InterruptExpired
  <2>1. Listening /\ stopped # "none" /\ stopped # "completed" /\ Finish(stopped)
    BY <1>9 DEF InterruptExpired, FlagsTyped, Stop
  <2> HIDE DEF Decided
  <2> QED
    BY <2>1, FinishDecides
<1>10. CASE Terminate
  BY <1>10 DEF Terminate, Lost
<1>11. CASE Cancel
  <2>1. CASE UNCHANGED <<stopped, armed, posts, ending, value>>
    BY <2>1
  <2>2. CASE Finish(Or(stopped, "paused")) /\ (Listening \/ Settled)
    <3>1. /\ Or(stopped, "paused") # "completed"
          /\ stopped # "none" => Or(stopped, "paused") = stopped
      BY OutcomeSettles DEF Or
    <3> HIDE DEF Decided
    <3> QED
      BY <2>2, <3>1, FinishDecides
  <2>3. \/ UNCHANGED <<stopped, armed, posts, ending, value>>
        \/ Finish(Or(stopped, "paused")) /\ (Listening \/ Settled)
    BY <1>11, LessOne, Names DEF Cancel, Broken, FlagsTyped, Waiting, Listening
  <2> QED
    BY <2>1, <2>2, <2>3
<1>12. CASE CloseSession
  BY <1>12 DEF CloseSession
<1>13. CASE Unlock
  BY <1>13 DEF Unlock
<1>14. CASE UNCHANGED vars
  BY <1>14 DEF vars, server, pipe, local
<1> QED
  BY <1>1, <1>2, <1>3, <1>4, <1>5, <1>6, <1>7, <1>8, <1>9, <1>10, <1>11, <1>12, <1>13, <1>14 DEF
     Next, Over

(* What a termination says stays true. *)
LEMMA OwnershipStep == Ownership /\ [Next]_vars => Ownership'
<1> SUFFICES ASSUME Ownership, [Next]_vars PROVE Ownership'
  OBVIOUS
<1> USE DEF Ownership, server, pipe, local
<1>1. CASE Receive
  <2>1. CASE ReceiveReply
    BY <2>1 DEF ReceiveReply
  <2>2. CASE ReceiveUnheard
    BY <2>2 DEF ReceiveUnheard
  <2>3. CASE ReceiveActivity
    BY <2>3 DEF ReceiveActivity
  <2>4. CASE ReceiveAsk
    BY <2>4 DEF ReceiveAsk
  <2>5. CASE ReceiveCompleted
    BY <2>5 DEF ReceiveCompleted
  <2> QED
    BY <1>1, <2>1, <2>2, <2>3, <2>4, <2>5 DEF Receive
<1>2. CASE Callback
  <2> PICK a \in answers : Continue(a) \/ ContinueInterrupt(a)
    BY <1>2 DEF Callback
  <2>1. CASE Continue(a)
    <3>1. CASE ContinueBudget(a)
      BY <2>1, <3>1 DEF Continue, ContinueBudget
    <3>2. CASE ContinueOpening(a) /\ UNCHANGED turn
      BY <2>1, <3>2 DEF Continue, ContinueOpening
    <3>3. CASE ContinueStart(a) /\ UNCHANGED turn
      BY <2>1, <3>3 DEF Continue, ContinueStart
    <3>4. CASE ContinueLate(a) /\ UNCHANGED turn
      BY <2>1, <3>4 DEF Continue, ContinueLate
    <3>5. CASE ContinuePoll(a) /\ UNCHANGED turn
      BY <2>1, <3>5 DEF Continue, ContinuePoll
    <3>6. CASE a.about = "interrupt" /\ AskNothing({a}) /\ UNCHANGED <<phase, local, turn>>
      BY <2>1, <3>6 DEF Continue, AskNothing, local
    <3> QED
      BY <2>1, <3>1, <3>2, <3>3, <3>4, <3>5, <3>6 DEF Continue
  <2>2. CASE ContinueInterrupt(a)
    BY <2>2 DEF ContinueInterrupt
  <2> QED
    BY <2>1, <2>2
<1>3. CASE Chain
  <2>1. CASE \E ok \in BOOLEAN : Publish(ok)
    BY <2>1 DEF Publish
  <2>2. CASE Conclude
    BY <2>2 DEF Conclude
  <2>3. CASE Resolve
    BY <2>3 DEF Resolve
  <2> QED
    BY <1>3, <2>1, <2>2, <2>3 DEF Chain
<1>4. CASE Server
  <2>1. CASE ServerBegins
    BY <2>1 DEF ServerBegins, ServerKeeps, CanWrite
  <2>2. CASE ServerDies
    BY <2>2 DEF ServerDies, Lost, ServerKeeps
  <2>3. CASE ServerStrays
    BY <2>3 DEF ServerStrays, ServerKeeps, CanWrite
  <2>4. CASE \E r \in Request : ServerAnswers(r)
    BY <2>4 DEF ServerAnswers, ServerKeeps, CanWrite
  <2>5. CASE \E kind \in {"item", "ask"} : ServerSends(kind)
    BY <2>5 DEF ServerSends, ServerKeeps, CanWrite
  <2>6. CASE \E says \in {"completed", "failed"} : ServerEnds(says)
    BY <2>6 DEF ServerEnds, ServerKeeps, CanWrite
  <2> QED
    BY <1>4, <2>1, <2>2, <2>3, <2>4, <2>5, <2>6 DEF Server
<1>5. CASE Poll
  BY <1>5 DEF Poll
<1>6. CASE Breaks
  BY <1>6 DEF Breaks, Fail
<1>7. CASE \E r \in Request : Timeout(r)
  BY <1>7 DEF Timeout
<1>8. CASE Stall
  BY <1>8 DEF Stall
<1>9. CASE InterruptExpired
  BY <1>9 DEF InterruptExpired, CloseClient, Fail
<1>10. CASE Terminate
  BY <1>10 DEF Terminate, Lost
<1>11. CASE Cancel
  BY <1>11 DEF Cancel, CloseClient, Fail
<1>12. CASE CloseSession
  BY <1>12 DEF CloseSession, CloseClient, Fail
<1>13. CASE Unlock
  BY <1>13 DEF Unlock
<1>14. CASE UNCHANGED vars
  BY <1>14 DEF vars, server, pipe, local
<1> QED
  BY <1>1, <1>2, <1>3, <1>4, <1>5, <1>6, <1>7, <1>8, <1>9, <1>10, <1>11, <1>12, <1>13, <1>14 DEF
     Next, Over
-----------------------------------------------------------------------------


(* The initial state satisfies the invariant. *)
LEMMA InitInv == Init => IInv
<1> SUFFICES ASSUME Init PROVE IInv
  OBVIOUS
<1>1. FlagsTyped /\ ChainTyped
  <2>1. 0 \in 0..MaxItems /\ 0 \in 0..MaxPolls /\ 0 \in 0..0
    BY BoundsAssumption
  <2>2. FlagsTyped
    BY <2>1 DEF Init, FlagsTyped
  <2>3. posts.queued = 0 /\ posts.settled = 0 /\ posts.failed = 0
        /\ ending.is = "none" /\ ending.at = 0 /\ value.is = "none" /\ value.at = 0
    BY DEF Init
  <2>4. posts \in [queued : Nat, settled : Nat, failed : Nat]
    BY DEF Init
  <2> QED
    BY <2>1, <2>2, <2>3, <2>4 DEF ChainTyped
<1>2. Startup[1] \in Opening /\ Startup[1] = "initialize" /\ Opening \subseteq Request
  BY Names DEF Startup, Opening, Request
<1>3. RequestsTyped /\ wire \in Seq(Line)
  BY <1>2, Lines DEF Init, RequestsTyped
<1>4. Waiting
  <2>1. Outstanding = {Startup[1]} /\ Unique
    BY DEF Init, Outstanding, Unique
  <2> QED
    BY <1>2, <2>1 DEF Init, Waiting, Settled
<1>5. Tally
  <2>1. CountedFrom(<<>>, 0, 0, turn)
    BY CountNothing
  <2> QED
    BY <2>1 DEF Init, Tally
<1>6. Heard /\ Decided /\ Ownership
  BY DEF Init, Heard, Decided, Ownership, StopPrevails, Settled
<1> QED
  BY <1>1, <1>3, <1>4, <1>5, <1>6, TypeParts DEF IInv

(* And every step keeps it. *)
LEMMA StepInv == IInv /\ [Next]_vars => IInv'
<1> SUFFICES ASSUME IInv, [Next]_vars PROVE IInv'
  OBVIOUS
<1>1. TypeOK /\ Shaped /\ FlagsTyped /\ RequestsTyped /\ wire \in Seq(Line)
  BY TypeParts DEF IInv
<1>2. FlagsTyped' /\ RequestsTyped' /\ ChainTyped' /\ (wire \in Seq(Line))'
  BY <1>1, FlagsTypedStep, RequestsTypedStep, ChainTypedStep, WireStep
<1>3. (TypeOK /\ Shaped)'
  BY <1>2, AnswerOnly DEF TypeOK, Shaped, FlagsTyped, RequestsTyped, ChainTyped
<1>4. Waiting' /\ Tally' /\ Heard' /\ Decided' /\ Ownership'
  BY WaitingStep, TallyStep, HeardStep, DecidedStep, OwnershipStep DEF IInv
<1> QED
  BY <1>3, <1>4 DEF IInv

(* The invariant holds in every reachable state. *)
THEOREM Invariant == Spec => []IInv
<1>1. Init => IInv
  BY InitInv
<1>2. IInv /\ [Next]_vars => IInv'
  BY StepInv
<1> QED
  BY <1>1, <1>2, PTL DEF Spec

(* Every variable of the client, the turn and the app-server keeps its type, and
   the chain of publications its bounds. *)
THEOREM TypeCorrect == Spec => []TypeOK
<1>1. IInv => TypeOK
  BY DEF IInv
<1> QED
  BY <1>1, Invariant, PTL

(* runTurn reports completed only what the app-server completed: neither the end
   of another turn, nor a stop, a failure or a timeout becomes a completion
   (codex-loop.mjs 457-462, 491-496). *)
THEOREM CompletionOwn == Spec => []OutcomeOfOwnTurn
<1>1. IInv => OutcomeOfOwnTurn
  BY DEF IInv, Decided, Heard, OutcomeOfOwnTurn
<1> QED
  BY <1>1, Invariant, PTL

(* When runTurn has returned completed, every message the app-server sent in the
   turn is published, and none failed (codex-loop.mjs 483-497). *)
THEOREM CompletionPublished == Spec => []PublishedFirst
<1>1. IInv => PublishedFirst
  BY DEF IInv, Decided, Heard, PublishedFirst
<1> QED
  BY <1>1, Invariant, PTL

(* The first stop that came before the outcome is the outcome (codex-loop.mjs
   491-496). *)
THEOREM StopDecides == Spec => []StopPrevails
<1>1. IInv => StopPrevails
  BY DEF IInv, Decided
<1> QED
  BY <1>1, Invariant, PTL

(* The account lock is never free while a process of the session may live
   (codex-client.mjs 540-557). *)
THEOREM LockRetained == Spec => []LockOutlivesServer
<1>1. IInv => LockOutlivesServer
  BY DEF IInv, Ownership, LockOutlivesServer
<1> QED
  BY <1>1, Invariant, PTL
=============================================================================
