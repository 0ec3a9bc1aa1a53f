---------------------- MODULE ArchitectureReviewProofs ----------------------
(***************************************************************************)
(* Proofs about ArchitectureReview for any base, any revisions and checks, *)
(* and any number of incidents.  The properties rest on what a review has  *)
(* behind it at each step (Reviewed, Gated), on when the head was green    *)
(* (Greened), and on how the manifest of an evidence, its threads and its  *)
(* verdict agree (Threading, Reporting).                                   *)
(***************************************************************************)
EXTENDS ArchitectureReview, TLAPS, SequenceTheorems

\* The steps at which a turn is prepared, run and settled, and the evidence decided on.
Spending == {"client", "thread", "save", "turn", "running", "settle"}
Decided  == {"assemble", "report"} \union Spending

\* Only an incident is a new commit.
Bounded == pr.head <= incidents + 1

\* What a review checked out exists, and passed the deterministic rules.
Reviewed == proc.at # "idle" => proc.head \in 1..pr.head /\ proc.rev \in Passing

\* The steps toward a turn come after the gate.
Gated == proc.at \in Spending => proc.gate /\ proc.view = "complete"

\* All checks having passed was noted of the head, and of the review's head as soon as
\* its evidence is decided: before, the head may move.
Greened ==
  /\ Passed(checks) /\ ~other => pr.head \in green
  /\ proc.view = "complete" /\ proc.at \in Decided => proc.head \in green
  /\ proc.view = "complete" /\ proc.at = "recheck" /\ pr.head = proc.head => proc.head \in green

\* A manifest names a thread of its evidence, and a thread with a rollout is named by
\* its manifest; so is the thread of the review from the save on.
Paired ==
  /\ \A e \in DOMAIN manifests : threads[manifests[e].thread].of = e
  /\ \A t \in 1..Len(threads) :
       threads[t].rolled => threads[t].of \in DOMAIN manifests /\ manifests[threads[t].of].thread = t
Working ==
  /\ proc.at \in {"save", "turn", "running", "settle"} =>
       /\ proc.thread \in 1..Len(threads) /\ threads[proc.thread].of = Fingerprint
       /\ Fingerprint \in DOMAIN manifests => manifests[Fingerprint].thread = proc.thread
  /\ proc.at \in {"turn", "running", "settle"} => Fingerprint \in DOMAIN manifests
Threading == Paired /\ Working

\* A verdict is that of a completed manifest, and such a manifest has one; no review
\* spends a turn on a completed one, and what it reports is the saved verdict.
Kept ==
  /\ \A v \in verdicts : /\ v.of \in DOMAIN manifests /\ manifests[v.of].status = "completed"
                         /\ manifests[v.of].verdict = v.says
  /\ \A e \in DOMAIN manifests :
       manifests[e].status = "completed" => manifests[e].verdict \in Verdict
Telling ==
  /\ proc.at \in Spending => ~Completed(Fingerprint)
  /\ proc.at = "report" => /\ Completed(Fingerprint) /\ proc.verdict \in Verdict
                           /\ manifests[Fingerprint].verdict = proc.verdict
Reporting == Kept /\ Telling

IInv == TypeOK /\ Bounded /\ Reviewed /\ Gated /\ Greened /\ Threading /\ Reporting
-----------------------------------------------------------------------------

(* What the rules are for: of a base with a generated index whose markers resolve, a
   revision that passes is traceable in its records and markers themselves. *)
LEMMA RulesTraceable ==
  ASSUME NEW base, IndexEqual(base), Resolved(base), NEW rev, RulesPass(base, rev)
  PROVE  Traceable(base, rev)
<1>1. rev.index = Derived(rev) /\ base.index = Derived(base)
  BY DEF RulesPass, IndexEqual
<1>2. rev.index.primitives = rev.primitives /\ base.index.primitives = base.primitives
  BY <1>1 DEF Derived
<1>3. ASSUME NEW r, r.index = Derived(r)
      PROVE  /\ Ids(r.index.decisions) = Ids(r.decisions)
             /\ \A d \in r.decisions : \E e \in r.index.decisions :
                  e.id = d.id /\ e.requires = d.requires /\ e.supersedes = d.supersedes
  <2> DEFINE Entry(d) == [id |-> d.id, domains |-> d.domains, requires |-> d.requires,
                          supersedes |-> d.supersedes,
                          primitives |-> Ids(Implementing(r.primitives, d.id))]
  <2>1. r.index.decisions = {Entry(d) : d \in r.decisions}
    BY <1>3 DEF Derived
  <2>2. \A d \in r.decisions : /\ Entry(d).id = d.id /\ Entry(d).requires = d.requires
                               /\ Entry(d).supersedes = d.supersedes
    OBVIOUS
  <2> HIDE DEF Entry
  <2>3. Ids(r.index.decisions) = Ids(r.decisions)
    BY <2>1, <2>2 DEF Ids
  <2> QED
    BY <2>1, <2>2, <2>3
<1>4. ASSUME NEW d \in rev.decisions
      PROVE  /\ d.supersedes \intersect Ids(rev.decisions) = {}
             /\ d.requires \subseteq {p.enforcement : p \in Implementing(rev.primitives, d.id)}
  <2>1. PICK e \in rev.index.decisions :
          e.id = d.id /\ e.requires = d.requires /\ e.supersedes = d.supersedes
    BY <1>1, <1>3
  <2>2. d.supersedes \intersect Ids(rev.decisions) = {}
    BY <2>1 DEF RulesPass, NoneSuperseded
  <2>3. \A required \in d.requires :
          \E p \in Implementing(rev.primitives, d.id) : p.enforcement = required
    BY <1>2, <2>1 DEF RulesPass, Enforced
  <2> QED
    BY <2>2, <2>3
<1>5. UNION {p.adrs : p \in rev.primitives} \subseteq Ids(rev.decisions)
  BY <1>1, <1>2, <1>3 DEF RulesPass, Resolved
<1>6. ASSUME NEW p \in base.primitives, ~(p.adrs \subseteq Ids(rev.decisions))
      PROVE  p.id \in Ids(rev.primitives) \union rev.edited
                        \union UNION {q.replaces : q \in rev.primitives}
  <2>1. PICK d \in p.adrs : d \notin Ids(rev.decisions)
    BY <1>6
  <2>2. d \in Ids(base.decisions)
    BY <1>1, <1>2, <1>3, <2>1 DEF Resolved
  <2> DEFINE removed == Ids(base.decisions) \ Ids(rev.decisions)
             before  == UNION {Ids(Implementing(base.index.primitives, e)) : e \in removed}
  <2>3. p.id \in Ids(Implementing(base.index.primitives, d))
    BY <1>2, <2>1 DEF Ids, Implementing
  <2>4. p.id \in before
    BY <2>1, <2>2, <2>3
  <2>5. \A id \in before : \/ id \in Ids(rev.primitives) \/ id \in rev.edited
                           \/ \E q \in rev.primitives : id \in q.replaces
    BY <1>2 DEF RulesPass, RemovalSettled
  <2> HIDE DEF before
  <2> QED
    BY <2>4, <2>5
<1> QED
  BY <1>4, <1>5, <1>6 DEF Traceable

(* A revision of the pull request that passes is traceable. *)
LEMMA PassingTraceable == \A name \in Passing : Traceable(Base, Revisions[name])
BY BaseAssumption, RulesTraceable DEF Passing

(* The checks are complete only if every one passed and no other job runs. *)
LEMMA CompletePassed == ASSUME checks \in [Checks -> Status], Complete PROVE Passed(checks) /\ ~other
<1>1. Missing(checks) = {} /\ Pending(checks) = {} /\ Failed(checks) = {}
  BY DEF Complete, PreliminaryReady, Ready
<1>2. WrongWorkflow(checks, TRUE) = {}
  BY DEF Complete, FailedChecks
<1>3. \A c \in Checks : checks[c] \notin {"missing", "pending", "failure", "foreign"}
  BY <1>1, <1>2 DEF Missing, Pending, Failed, WrongWorkflow
<1>4. Passed(checks)
  BY <1>3 DEF Passed, Status
<1> QED
  BY <1>4 DEF Complete, AllRunsComplete

(* Checks that nobody has started have not passed. *)
LEMMA UncheckedNotPassed == ~Passed(Unchecked) /\ Unchecked \in [Checks -> Status]
BY ChecksAssumption DEF Passed, Unchecked, Status

(* What a write leaves: the new manifest and all the others. *)
LEMMA Written ==
  ASSUME NEW status, NEW thread, NEW verdict, Write(status, thread, verdict)
  PROVE  /\ DOMAIN manifests' = DOMAIN manifests \union {Fingerprint}
         /\ manifests'[Fingerprint] = [status |-> status, thread |-> thread, verdict |-> verdict]
         /\ \A e \in DOMAIN manifests : e # Fingerprint => manifests'[e] = manifests[e]
BY DEF Write, Location

-----------------------------------------------------------------------------
(* The type invariant, in parts. *)
PullType ==
  /\ pr \in [open : BOOLEAN, head : Nat \ {0}, rev : DOMAIN Revisions, body : Nat] /\ pr.body <= pr.head
  /\ green \subseteq 1..pr.head /\ other \in BOOLEAN
  /\ checks \in [Checks -> Status] /\ incidents \in 0..MaxIncidents
ProcType ==
  proc \in [at : Steps, head : 0..pr.head, rev : {"none"} \union DOMAIN Revisions,
            body : 0..pr.head, gate : BOOLEAN, view : View,
            thread : 0..Len(threads), verdict : Verdict \union {"none", "inconclusive"}]
SavedType ==
  /\ DOMAIN manifests \subseteq Evidence
  /\ \A e \in DOMAIN manifests :
       manifests[e] \in [status : {"in-progress", "interrupted", "retryable", "completed"},
                         thread : 1..Len(threads),
                         verdict : Verdict \union {"none"}]
ThreadType == threads \in Seq([of : Evidence, rolled : BOOLEAN])
VerdictType == verdicts \subseteq [of : Evidence, says : Verdict]

LEMMA TypeParts == TypeOK <=> PullType /\ ProcType /\ SavedType /\ ThreadType /\ VerdictType
BY DEF TypeOK, PullType, ProcType, SavedType, ThreadType, VerdictType

(* The evidence of a review that runs is an evidence. *)
LEMMA FingerprintType ==
  ASSUME PullType, ProcType, Bounded, Reviewed, proc.at # "idle" PROVE Fingerprint \in Evidence
<1>1. /\ proc.head \in 1..pr.head /\ proc.body \in 0..pr.head /\ proc.view \in View
      /\ pr.head \in Nat /\ pr.head <= MaxIncidents + 1 /\ MaxIncidents \in Nat
  BY BoundsAssumption DEF PullType, ProcType, Bounded, Reviewed
<1>2. proc.head \in 1..(MaxIncidents + 1) /\ proc.body \in 0..(MaxIncidents + 1)
  BY <1>1
<1> QED
  BY <1>1, <1>2 DEF Fingerprint, Evidence

(* The pull request and its checks keep their types, and only an incident is a commit. *)
LEMMA PullStep ==
  (PullType /\ Bounded) /\ [Next]_vars
    => (PullType /\ Bounded)' /\ pr.head <= pr'.head
<1> SUFFICES ASSUME (PullType /\ Bounded), [Next]_vars
             PROVE  (PullType /\ Bounded)' /\ pr.head <= pr'.head
  OBVIOUS
<1> USE BoundsAssumption DEF PullType, Bounded, github, disk, Happens
<1>1. CASE Review
  <2>1. CASE Start
    BY <2>1 DEF Start
  <2>2. CASE Read
    BY <2>2 DEF Read
  <2>3. CASE Wait
    BY <2>3 DEF Wait
  <2>4. CASE Recheck
    BY <2>4 DEF Recheck
  <2>5. CASE Assemble
    BY <2>5 DEF Assemble
  <2>6. CASE Client
    BY <2>6 DEF Client
  <2>7. CASE OpenThread
    BY <2>7 DEF OpenThread, Write
  <2>8. CASE Save
    BY <2>8 DEF Save
  <2>9. CASE Turn
    BY <2>9 DEF Turn, Interrupt
  <2>10. CASE EndTurn
    <3>1. incidents' \in 0..MaxIncidents /\ incidents <= incidents'
      <4>1. CASE Interrupt
        BY <4>1 DEF Interrupt
      <4>2. CASE \E v \in Verdict \union {"inconclusive"} :
                   IF v = "inconclusive" THEN Happens ELSE UNCHANGED incidents
        BY <4>2
      <4> QED
        BY <2>10, <4>1, <4>2 DEF EndTurn
    <3>2. UNCHANGED github
      BY <2>10 DEF EndTurn
    <3> QED
      BY <3>1, <3>2
  <2>11. CASE Settle
    BY <2>11 DEF Settle
  <2>12. CASE Report
    BY <2>12 DEF Report
  <2> QED
    BY <1>1, <2>1, <2>2, <2>3, <2>4, <2>5, <2>6, <2>7, <2>8, <2>9, <2>10, <2>11, <2>12 DEF
       Review
<1>2. CASE Prune
  BY <1>2 DEF Prune
<1>3. CASE Kill
  BY <1>3 DEF Kill
<1>4. CASE PushCommit
  <2>1. PICK rev \in DOMAIN Revisions : pr' = [pr EXCEPT !.head = @ + 1, !.rev = rev]
    BY <1>4 DEF PushCommit
  <2>2. pr' = [open |-> pr.open, head |-> pr.head + 1, rev |-> rev, body |-> pr.body]
    BY <2>1
  <2>3. checks' = Unchecked /\ other' = FALSE /\ green' \subseteq green /\ incidents' = incidents + 1
        /\ incidents < MaxIncidents
    BY <1>4 DEF PushCommit
  <2>4. pr.head \in Nat \ {0} /\ pr.body \in Nat /\ pr.open \in BOOLEAN /\ pr.body <= pr.head /\ incidents \in Nat
    OBVIOUS
  <2>5. pr'.head = pr.head + 1 /\ pr'.body = pr.body
    BY <2>2
  <2>6. green' \subseteq 1..pr'.head
    BY <2>3, <2>4, <2>5
  <2>7. pr' \in [open : BOOLEAN, head : Nat \ {0}, rev : DOMAIN Revisions, body : Nat] /\ pr'.body <= pr'.head
    BY <2>2, <2>4, <2>5
  <2>8. incidents' \in 0..MaxIncidents /\ pr'.head <= incidents' + 1
    BY <2>3, <2>4, <2>5
  <2>9. pr.head <= pr'.head
    BY <2>4, <2>5
  <2> QED
    BY <2>3, <2>6, <2>7, <2>8, <2>9, UncheckedNotPassed
<1>5. CASE EditBody
  BY <1>5 DEF EditBody
<1>6. CASE CloseOrReopen
  <2>1. pr' = [pr EXCEPT !.open = ~@] /\ UNCHANGED <<checks, other, green>> /\ incidents' = incidents + 1
        /\ incidents < MaxIncidents
    BY <1>6 DEF CloseOrReopen
  <2>2. /\ pr'.open = ~pr.open /\ pr'.head = pr.head /\ pr'.rev = pr.rev /\ pr'.body = pr.body
        /\ DOMAIN pr' = {"open", "head", "rev", "body"}
    BY <2>1
  <2>3. pr.open \in BOOLEAN /\ pr.head \in Nat \ {0} /\ pr.rev \in DOMAIN Revisions /\ pr.body \in Nat
        /\ incidents \in Nat
    OBVIOUS
  <2>4. pr'.open \in BOOLEAN
    BY <2>2, <2>3
  <2>5. pr' = [open |-> pr'.open, head |-> pr.head, rev |-> pr.rev, body |-> pr.body]
    BY <2>1, <2>2
  <2>6. pr' \in [open : BOOLEAN, head : Nat \ {0}, rev : DOMAIN Revisions, body : Nat]
    BY <2>3, <2>4, <2>5
  <2>7. incidents' \in 0..MaxIncidents /\ pr'.head <= incidents' + 1
    BY <2>1, <2>2, <2>3
  <2>8. pr'.body <= pr'.head /\ green' \subseteq 1..pr'.head
    BY <2>1, <2>2
  <2> QED
    BY <2>1, <2>6, <2>7, <2>8
<1>7. CASE CheckMoves
  <2>1. checks' \in [Checks -> Status] /\ other' \in BOOLEAN /\ incidents' \in 0..MaxIncidents /\ incidents <= incidents'
    <3>1. ASSUME NEW c \in Checks, NEW to \in Following(checks[c]) PROVE to \in Status
      BY DEF Following, Status
    <3>2. CASE \E c \in Checks : \E to \in Following(checks[c]) :
                 /\ checks' = [checks EXCEPT ![c] = to] /\ UNCHANGED other
                 /\ IF checks[c] \in {"missing", "pending"} THEN UNCHANGED incidents ELSE Happens
      BY <3>1, <3>2
    <3>3. CASE other' = FALSE /\ UNCHANGED <<checks, incidents>>
      <4>1. other' \in BOOLEAN
        BY <3>3
      <4>2. checks' = checks /\ incidents' = incidents
        BY <3>3
      <4>3. checks \in [Checks -> Status] /\ incidents \in 0..MaxIncidents
        OBVIOUS
      <4> QED
        BY <4>1, <4>2, <4>3
    <3>4. CASE ~other /\ other' = TRUE /\ Happens /\ UNCHANGED checks
      BY <3>4
    <3> QED
      BY <1>7, <3>2, <3>3, <3>4 DEF CheckMoves
  <2>2. green' \subseteq green \union {pr.head} /\ pr' = pr
    BY <1>7 DEF CheckMoves
  <2>3. pr.head \in 1..pr.head /\ incidents \in Nat /\ incidents' \in Nat /\ pr.head \in Nat
    BY <2>1
  <2>4. green' \subseteq 1..pr.head
    BY <2>2, <2>3
  <2>5. pr.head <= incidents' + 1
    BY <2>1, <2>3
  <2> QED
    BY <2>1, <2>2, <2>4, <2>5
<1>8. CASE UNCHANGED vars
  BY <1>8 DEF vars
<1> QED
  BY <1>1, <1>2, <1>3, <1>4, <1>5, <1>6, <1>7, <1>8 DEF Next

(* Marking one thread, or some, keeps the others and the evidence of each. *)
LEMMA ThreadTypes ==
  ASSUME ThreadType
  PROVE  /\ Len(threads) \in Nat /\ DOMAIN threads = 1..Len(threads)
         /\ \A t \in 1..Len(threads) : threads[t] \in [of : Evidence, rolled : BOOLEAN]
BY LenProperties DEF ThreadType

(* A thread is appended, or marked; it stays a thread of its evidence. *)
LEMMA ThreadStep ==
  (PullType /\ ProcType /\ Bounded /\ Reviewed /\ ThreadType) /\ [Next]_vars
    => (ThreadType' /\ Len(threads) <= Len(threads') /\ \A t \in 1..Len(threads) : threads'[t].of = threads[t].of)
<1> SUFFICES ASSUME (PullType /\ ProcType /\ Bounded /\ Reviewed /\ ThreadType), [Next]_vars
             PROVE  (ThreadType' /\ Len(threads) <= Len(threads') /\ \A t \in 1..Len(threads) : threads'[t].of = threads[t].of)
  OBVIOUS
<1> USE ThreadTypes DEF ThreadType, disk
<1>1. CASE Review
  <2>1. CASE Start
    BY <2>1 DEF Start
  <2>2. CASE Read
    BY <2>2 DEF Read
  <2>3. CASE Wait
    BY <2>3 DEF Wait
  <2>4. CASE Recheck
    BY <2>4 DEF Recheck
  <2>5. CASE Assemble
    BY <2>5 DEF Assemble
  <2>6. CASE Client
    BY <2>6 DEF Client
  <2>7. CASE OpenThread
    <3>1. CASE UNCHANGED threads
      BY <3>1
    <3>2. CASE threads' = Append(threads, [of |-> Fingerprint, rolled |-> FALSE])
      <4> DEFINE new == [of |-> Fingerprint, rolled |-> FALSE]
      <4>1. new \in [of : Evidence, rolled : BOOLEAN]
        BY <2>7, FingerprintType DEF OpenThread
      <4> HIDE DEF new
      <4>2. threads' = Append(threads, new)
        BY <3>2 DEF new
      <4> QED
        BY <4>1, <4>2, AppendProperties
    <3> QED
      BY <2>7, <3>1, <3>2 DEF OpenThread
  <2>8. CASE Save
    BY <2>8 DEF Save
  <2>9. CASE Turn
    <3>1. CASE UNCHANGED threads
      BY <3>1
    <3>2. CASE threads' = [threads EXCEPT ![proc.thread].rolled = TRUE]
      <4>1. DOMAIN threads' = 1..Len(threads)
        BY <3>2
      <4>2. \A t \in 1..Len(threads) :
              threads'[t] = IF t = proc.thread THEN [threads[t] EXCEPT !.rolled = TRUE] ELSE threads[t]
        BY <3>2
      <4>3. \A t \in 1..Len(threads) :
              threads'[t] \in [of : Evidence, rolled : BOOLEAN] /\ threads'[t].of = threads[t].of
        BY <4>2
      <4>4. threads' = [t \in 1..Len(threads) |-> threads'[t]]
        BY <3>2
      <4>5. threads' \in Seq([of : Evidence, rolled : BOOLEAN]) /\ Len(threads') = Len(threads)
        BY <4>1, <4>3, <4>4, SeqDef, LenProperties
      <4> QED
        BY <4>3, <4>5
    <3> QED
      BY <2>9, <3>1, <3>2 DEF Turn
  <2>10. CASE EndTurn
    <3>1. UNCHANGED threads
      BY <2>10 DEF EndTurn
    <3> QED
      BY <3>1
  <2>11. CASE Settle
    BY <2>11 DEF Settle
  <2>12. CASE Report
    BY <2>12 DEF Report
  <2> QED
    BY <1>1, <2>1, <2>2, <2>3, <2>4, <2>5, <2>6, <2>7, <2>8, <2>9, <2>10, <2>11, <2>12 DEF
       Review
<1>2. CASE Prune
  <2>1. PICK e \in DOMAIN manifests :
          threads' = [t \in 1..Len(threads) |->
                       IF threads[t].of = e THEN [threads[t] EXCEPT !.rolled = FALSE] ELSE threads[t]]
    BY <1>2 DEF Prune
  <2>2. \A t \in 1..Len(threads) :
          threads'[t] \in [of : Evidence, rolled : BOOLEAN] /\ threads'[t].of = threads[t].of
    BY <2>1
  <2>3. DOMAIN threads' = 1..Len(threads) /\ threads' = [t \in 1..Len(threads) |-> threads'[t]]
    BY <2>1
  <2>4. threads' \in Seq([of : Evidence, rolled : BOOLEAN]) /\ Len(threads') = Len(threads)
    BY <2>2, <2>3, SeqDef, LenProperties
  <2> QED
    BY <2>2, <2>4
<1>3. CASE Kill
  BY <1>3 DEF Kill
<1>4. CASE PushCommit
  BY <1>4 DEF PushCommit
<1>5. CASE EditBody
  BY <1>5 DEF EditBody
<1>6. CASE CloseOrReopen
  BY <1>6 DEF CloseOrReopen
<1>7. CASE CheckMoves
  BY <1>7 DEF CheckMoves
<1>8. CASE UNCHANGED vars
  BY <1>8 DEF vars
<1> QED
  BY <1>1, <1>2, <1>3, <1>4, <1>5, <1>6, <1>7, <1>8 DEF Next

(* What a step of a review does to it, and what it may hold of h commits and n threads. *)
Proc(h, n) ==
  [at : Steps, head : 0..h, rev : {"none"} \union DOMAIN Revisions,
   body : 0..h, gate : BOOLEAN, view : View,
   thread : 0..n, verdict : Verdict \union {"none", "inconclusive"}]
LEMMA ProcFields ==
  ASSUME NEW h \in Nat, NEW n \in Nat, NEW p \in Proc(h, n)
  PROVE  /\ Idle \in Proc(h, n)
         /\ \A step \in Steps : [p EXCEPT !.at = step] \in Proc(h, n)
         /\ \A step \in Steps, view \in View : [p EXCEPT !.at = step, !.view = view] \in Proc(h, n)
         /\ \A step \in Steps, body \in 0..h : [p EXCEPT !.at = step, !.body = body] \in Proc(h, n)
         /\ \A step \in Steps, body \in 0..h, view \in View :
              [p EXCEPT !.at = step, !.body = body, !.view = view] \in Proc(h, n)
         /\ \A step \in Steps, t \in 0..n : [p EXCEPT !.at = step, !.thread = t] \in Proc(h, n)
         /\ \A step \in Steps, v \in Verdict \union {"none", "inconclusive"} :
              [p EXCEPT !.at = step, !.verdict = v] \in Proc(h, n)
<1>1. Idle \in Proc(h, n)
  BY DEF Proc, Idle, Steps, View
<1> QED
  BY <1>1 DEF Proc

(* The review keeps its type: what it names exists. *)
LEMMA ProcStep ==
  (PullType /\ ProcType /\ SavedType /\ ThreadType /\ Bounded /\ Reviewed) /\ [Next]_vars
    => ProcType'
<1> SUFFICES ASSUME PullType, ProcType, SavedType, ThreadType, Bounded, Reviewed,
                    [Next]_vars
             PROVE  ProcType'
  OBVIOUS
<1>a. ThreadType' /\ Len(threads) <= Len(threads') /\ Len(threads') \in Nat /\ Len(threads) \in Nat
  BY ThreadStep, ThreadTypes, LenProperties DEF ThreadType
<1>b. pr.head \in Nat /\ pr'.head \in Nat /\ pr.body \in 0..pr.head
  BY PullStep DEF PullType
<1>c. pr.head <= pr'.head
  BY PullStep
<1> DEFINE P == Proc(pr'.head, Len(threads'))
<1>d. proc \in P /\ pr.body \in 0..pr'.head
  BY <1>a, <1>b, <1>c DEF Proc, ProcType
<1>e. SUFFICES proc' \in P
  BY DEF Proc, ProcType
<1>f. /\ Idle \in P
      /\ \A step \in Steps : [proc EXCEPT !.at = step] \in P
      /\ \A step \in Steps, view \in View : [proc EXCEPT !.at = step, !.view = view] \in P
      /\ \A step \in Steps, body \in 0..pr'.head : [proc EXCEPT !.at = step, !.body = body] \in P
      /\ \A step \in Steps, body \in 0..pr'.head, view \in View :
           [proc EXCEPT !.at = step, !.body = body, !.view = view] \in P
      /\ \A step \in Steps, t \in 0..Len(threads') : [proc EXCEPT !.at = step, !.thread = t] \in P
      /\ \A step \in Steps, v \in Verdict \union {"none", "inconclusive"} :
           [proc EXCEPT !.at = step, !.verdict = v] \in P
  BY <1>a, <1>b, <1>d, ProcFields
<1> HIDE DEF P
<1> USE DEF End, Proceed
<1>1. CASE Review
  <2>1. CASE Start
    <3>1. PICK gate \in BOOLEAN : proc' = [Idle EXCEPT !.at = "read", !.head = pr.head, !.rev = pr.rev,
                                              !.body = pr.body, !.gate = gate]
      BY <2>1 DEF Start
    <3>2. pr'.head = pr.head
      BY <2>1 DEF Start, github
    <3>3. pr.rev \in DOMAIN Revisions /\ pr.head \in 0..pr'.head
      BY <3>2, <1>b DEF PullType
    <3>4. proc' = [at |-> "read", head |-> pr.head, rev |-> pr.rev, body |-> pr.body, gate |-> gate,
                   view |-> "unread", thread |-> 0, verdict |-> "none"]
      BY <3>1 DEF Idle
    <3>5. 0 \in 0..Len(threads') /\ pr.body \in 0..pr'.head
      BY <1>a, <1>d
    <3> QED
      BY <3>3, <3>4, <3>5 DEF P, Proc, Steps, View
  <2>2. CASE Read
    <3>1. CASE End
      BY <3>1, <1>f DEF End
    <3>2. CASE ~End
      <4> DEFINE step == IF proc.gate THEN "wait" ELSE "assemble"
                  view == CASE proc.gate -> "unread" [] Complete -> "complete"
                            [] FailedChecks # {} -> "failed" [] OTHER -> "late"
      <4>1. step \in Steps /\ view \in View
        BY DEF Steps, View
      <4>2. proc' = [proc EXCEPT !.at = step, !.body = pr.body, !.view = view]
        BY <2>2, <3>2 DEF Read
      <4> HIDE DEF step, view
      <4> QED
        BY <4>1, <4>2, <1>d, <1>f
    <3> QED
      BY <3>1, <3>2
  <2>3. CASE Wait
    BY <2>3, <1>d, <1>f DEF Wait, Seen, Steps, View
  <2>4. CASE Recheck
    <3>1. proc' = [proc EXCEPT !.at = "assemble", !.body = pr.body] \/ proc' = Idle
      BY <2>4 DEF Recheck
    <3>2. "assemble" \in Steps
      BY DEF Steps
    <3> QED
      BY <3>1, <3>2, <1>d, <1>f
  <2>5. CASE Assemble
    <3>1. CASE Completed(Fingerprint)
      <4>1. Manifest(Fingerprint).verdict \in Verdict \union {"none"}
        BY <3>1 DEF Completed, Saved, Location, Manifest, SavedType
      <4> QED
        BY <2>5, <3>1, <4>1, <1>d, <1>f DEF Assemble, Steps
    <3>2. CASE ~Completed(Fingerprint)
      BY <2>5, <3>2, <1>d, <1>f DEF Assemble, Steps
    <3> QED
      BY <3>1, <3>2
  <2>6. CASE Client
    BY <2>6, <1>d, <1>f DEF Client, Steps
  <2>7. CASE OpenThread
    <3>1. CASE End
      BY <3>1, <1>f DEF End
    <3>2. CASE \E t \in 0..Len(threads') : proc' = [proc EXCEPT !.at = "save", !.thread = t]
      BY <3>2, <1>d, <1>f DEF Steps
    <3>3. CASE CanResume(Fingerprint)
      <4>1. Manifest(Fingerprint).thread \in 1..Len(threads)
        BY <3>3 DEF CanResume, Saved, Location, Manifest, SavedType
      <4>2. Manifest(Fingerprint).thread \in 0..Len(threads')
        BY <4>1, <1>a
      <4> QED
        BY <2>7, <3>1, <3>2, <3>3, <4>2 DEF OpenThread
    <3>4. CASE ~CanResume(Fingerprint)
      <4>1. /\ threads' = Append(threads, [of |-> Fingerprint, rolled |-> FALSE])
            /\ proc' = [proc EXCEPT !.at = "save", !.thread = Len(threads) + 1]
        BY <2>7, <3>4 DEF OpenThread
      <4>2. Len(threads) + 1 \in 0..Len(threads')
        BY <4>1, <1>a
      <4> QED
        BY <3>2, <4>1, <4>2
    <3> QED
      BY <3>3, <3>4
  <2>8. CASE Save
    BY <2>8, <1>d, <1>f DEF Save, Steps
  <2>9. CASE Turn
    BY <2>9, <1>d, <1>f DEF Turn, Steps, Interrupt
  <2>10. CASE EndTurn
    <3>1. CASE End
      BY <3>1, <1>f
    <3>2. CASE \E v \in Verdict \union {"inconclusive"} : proc' = [proc EXCEPT !.at = "settle", !.verdict = v]
      <4>1. "settle" \in Steps
        BY DEF Steps
      <4>2. PICK v \in Verdict \union {"none", "inconclusive"} :
              proc' = [proc EXCEPT !.at = "settle", !.verdict = v]
        BY <3>2
      <4>3. [proc EXCEPT !.at = "settle", !.verdict = v] \in P
        BY <4>1, <1>f
      <4> QED
        BY <4>2, <4>3
    <3> QED
      BY <2>10, <3>1, <3>2 DEF EndTurn, Interrupt
  <2>11. CASE Settle
    BY <2>11, <1>d, <1>f DEF Settle, Steps
  <2>12. CASE Report
    BY <2>12, <1>d, <1>f DEF Report, Steps
  <2> QED
    BY <1>1, <2>1, <2>2, <2>3, <2>4, <2>5, <2>6, <2>7, <2>8, <2>9, <2>10, <2>11, <2>12 DEF
       Review
<1>2. CASE Prune
  BY <1>2, <1>d, <1>f DEF Prune
<1>3. CASE Kill
  BY <1>3, <1>d, <1>f DEF Kill
<1>4. CASE PushCommit
  BY <1>4, <1>d, <1>f DEF PushCommit
<1>5. CASE EditBody
  BY <1>5, <1>d, <1>f DEF EditBody
<1>6. CASE CloseOrReopen
  BY <1>6, <1>d, <1>f DEF CloseOrReopen
<1>7. CASE CheckMoves
  BY <1>7, <1>d, <1>f DEF CheckMoves
<1>8. CASE UNCHANGED vars
  BY <1>8, <1>d DEF vars
<1> QED
  BY <1>1, <1>2, <1>3, <1>4, <1>5, <1>6, <1>7, <1>8 DEF Next

(* A review that goes on keeps what it looked at; one that ends is idle. *)
LEMMA Proceeds ==
  ASSUME ProcType, NEW step, Proceed(step)
  PROVE  /\ proc'.at = step /\ proc'.head = proc.head /\ proc'.rev = proc.rev /\ proc'.body = proc.body
         /\ proc'.gate = proc.gate /\ proc'.view = proc.view /\ proc'.thread = proc.thread
         /\ proc'.verdict = proc.verdict /\ Fingerprint' = Fingerprint
BY DEF ProcType, Proceed, Fingerprint

LEMMA Ended == End => proc'.at = "idle"
BY DEF End, Idle

(* What the steps of a review that change more than its step leave of it. *)
LEMMA Moves ==
  ASSUME ProcType
  PROVE  /\ Read => \/ End
                    \/ /\ proc'.at = IF proc.gate THEN "wait" ELSE "assemble"
                       /\ proc'.head = proc.head /\ proc'.rev = proc.rev /\ proc'.gate = proc.gate
                       /\ proc'.view = "complete" => Complete
                       /\ pr.head = proc.head
         /\ Wait => /\ proc'.at = "recheck" /\ proc'.head = proc.head /\ proc'.rev = proc.rev
                    /\ proc'.gate = proc.gate /\ (proc'.view = "complete" => Complete)
         /\ Recheck => \/ End
                       \/ /\ proc'.at = "assemble" /\ proc'.head = proc.head /\ proc'.rev = proc.rev
                          /\ proc'.gate = proc.gate /\ proc'.view = proc.view /\ pr.head = proc.head
<1>1. Read => \/ End
              \/ /\ proc'.at = IF proc.gate THEN "wait" ELSE "assemble"
                 /\ proc'.head = proc.head /\ proc'.rev = proc.rev /\ proc'.gate = proc.gate
                 /\ proc'.view = "complete" => Complete
                 /\ pr.head = proc.head
  <2> SUFFICES ASSUME Read, ~End
               PROVE  /\ proc'.at = IF proc.gate THEN "wait" ELSE "assemble"
                      /\ proc'.head = proc.head /\ proc'.rev = proc.rev /\ proc'.gate = proc.gate
                      /\ proc'.view = "complete" => Complete
                      /\ pr.head = proc.head
    OBVIOUS
  <2> DEFINE step == IF proc.gate THEN "wait" ELSE "assemble"
             view == CASE proc.gate -> "unread" [] Complete -> "complete"
                       [] FailedChecks # {} -> "failed" [] OTHER -> "late"
  <2>1. proc' = [proc EXCEPT !.at = step, !.body = pr.body, !.view = view] /\ pr.head = proc.head
    BY DEF Read
  <2>2. view = "complete" => Complete
    OBVIOUS
  <2> HIDE DEF view
  <2> QED
    BY <2>1, <2>2 DEF ProcType
<1>2. Wait => /\ proc'.at = "recheck" /\ proc'.head = proc.head /\ proc'.rev = proc.rev
              /\ proc'.gate = proc.gate /\ (proc'.view = "complete" => Complete)
  <2> SUFFICES ASSUME Wait
               PROVE  /\ proc'.at = "recheck" /\ proc'.head = proc.head /\ proc'.rev = proc.rev
                      /\ proc'.gate = proc.gate /\ (proc'.view = "complete" => Complete)
    OBVIOUS
  <2>1. PICK view \in View : Seen(view) /\ (view = "complete" => Complete)
    BY DEF Wait, View
  <2> QED
    BY <2>1 DEF ProcType, Seen
<1>3. Recheck => \/ End
                 \/ /\ proc'.at = "assemble" /\ proc'.head = proc.head /\ proc'.rev = proc.rev
                    /\ proc'.gate = proc.gate /\ proc'.view = proc.view /\ pr.head = proc.head
  <2> SUFFICES ASSUME Recheck, ~End
               PROVE  /\ proc'.at = "assemble" /\ proc'.head = proc.head /\ proc'.rev = proc.rev
                      /\ proc'.gate = proc.gate /\ proc'.view = proc.view /\ pr.head = proc.head
    OBVIOUS
  <2>1. proc' = [proc EXCEPT !.at = "assemble", !.body = pr.body] /\ pr.head = proc.head
    BY DEF Recheck
  <2> QED
    BY <2>1 DEF ProcType
<1> QED
  BY <1>1, <1>2, <1>3

(* A review keeps the commit and the revision that it checked out, and turns come after the
   gate. *)
LEMMA ReviewedStep ==
  (PullType /\ ProcType /\ Bounded /\ Reviewed /\ Gated) /\ [Next]_vars
    => (Reviewed /\ Gated)'
<1> SUFFICES ASSUME (PullType /\ ProcType /\ Bounded /\ Reviewed /\ Gated), [Next]_vars
             PROVE  (Reviewed /\ Gated)'
  OBVIOUS
<1>a. PullType' /\ pr.head <= pr'.head /\ pr.head \in Nat /\ pr'.head \in Nat
  BY PullStep DEF PullType
<1> USE Ended DEF Reviewed, Gated, Spending, github, disk
<1>1. CASE Review
  <2>1. CASE Start
    <3>1. PICK gate \in BOOLEAN : proc' = [Idle EXCEPT !.at = "read", !.head = pr.head, !.rev = pr.rev,
                                              !.body = pr.body, !.gate = gate]
      BY <2>1 DEF Start
    <3>2. proc'.at = "read" /\ proc'.head = pr.head /\ proc'.rev = pr.rev
      BY <3>1 DEF Idle
    <3>3. pr'.head = pr.head /\ pr.head \in 1..pr.head
      BY <2>1 DEF Start, PullType
    <3> QED
      BY <2>1, <3>2, <3>3 DEF Start, Deterministic
  <2>2. CASE Read
    BY <2>2, <1>a, Moves DEF Read
  <2>3. CASE Wait
    BY <2>3, <1>a, Moves DEF Wait
  <2>4. CASE Recheck
    BY <2>4, <1>a, Moves DEF Recheck
  <2>5. CASE Assemble
    <3>1. CASE Completed(Fingerprint)
      BY <2>5, <3>1, <1>a DEF Assemble, ProcType
    <3>2. CASE ~Completed(Fingerprint)
      BY <2>5, <3>2, <1>a, Proceeds DEF Assemble, GatePassed
    <3> QED
      BY <3>1, <3>2
  <2>6. CASE Client
    BY <2>6, <1>a, Proceeds DEF Client
  <2>7. CASE OpenThread
    <3>1. CASE End
      BY <3>1
    <3>2. CASE \E t : proc' = [proc EXCEPT !.at = "save", !.thread = t]
      BY <2>7, <3>2, <1>a DEF OpenThread, ProcType
    <3> QED
      BY <2>7, <3>1, <3>2 DEF OpenThread
  <2>8. CASE Save
    BY <2>8, <1>a, Proceeds DEF Save
  <2>9. CASE Turn
    BY <2>9, <1>a, Proceeds DEF Turn, Interrupt
  <2>10. CASE EndTurn
    <3>1. CASE End
      BY <3>1
    <3>2. CASE \E v \in Verdict \union {"inconclusive"} : proc' = [proc EXCEPT !.at = "settle", !.verdict = v]
      BY <2>10, <3>2, <1>a DEF EndTurn, ProcType
    <3> QED
      BY <2>10, <3>1, <3>2 DEF EndTurn, Interrupt
  <2>11. CASE Settle
    BY <2>11, <1>a, Proceeds DEF Settle
  <2>12. CASE Report
    BY <2>12, <1>a, Proceeds DEF Report
  <2> QED
    BY <1>1, <2>1, <2>2, <2>3, <2>4, <2>5, <2>6, <2>7, <2>8, <2>9, <2>10, <2>11, <2>12 DEF
       Review
<1>2. CASE Prune
  BY <1>2, <1>a DEF Prune
<1>3. CASE Kill
  BY <1>3, <1>a DEF Kill
<1>4. CASE PushCommit
  BY <1>4, <1>a DEF PushCommit
<1>5. CASE EditBody
  BY <1>5, <1>a DEF EditBody
<1>6. CASE CloseOrReopen
  BY <1>6, <1>a DEF CloseOrReopen
<1>7. CASE CheckMoves
  BY <1>7, <1>a DEF CheckMoves
<1>8. CASE UNCHANGED vars
  BY <1>8, <1>a DEF vars
<1> QED
  BY <1>1, <1>2, <1>3, <1>4, <1>5, <1>6, <1>7, <1>8 DEF Next

(* The head is noted as green when all its checks have passed, and the head of a review that
   saw them complete stays so noted. *)
LEMMA GreenStep ==
  (PullType /\ ProcType /\ Bounded /\ Reviewed /\ Greened) /\ [Next]_vars
    => Greened'
<1> SUFFICES ASSUME (PullType /\ ProcType /\ Bounded /\ Reviewed /\ Greened), [Next]_vars
             PROVE  Greened'
  OBVIOUS
<1>a. PullType' /\ pr.head \in Nat /\ checks \in [Checks -> Status]
  BY PullStep DEF PullType
<1>b. ASSUME UNCHANGED github, proc'.at \notin Decided \union {"recheck"} PROVE Greened'
  BY <1>b DEF Greened, github
<1>c. ASSUME UNCHANGED github, proc'.head = proc.head, proc'.view = proc.view, proc.at \in Decided,
             proc'.at \in Decided
      PROVE  Greened'
  <2>1. "recheck" \notin Decided
    BY DEF Decided, Spending
  <2> QED
    BY <1>c, <2>1 DEF Greened, github
<1>d. "idle" \notin Decided \union {"recheck"} /\ "read" \notin Decided \union {"recheck"}
      /\ "wait" \notin Decided \union {"recheck"}
      /\ {"client", "thread", "save", "turn", "running", "settle", "report", "assemble"} \subseteq Decided
  BY DEF Decided, Spending
<1>e. Complete => pr.head \in green
  BY <1>a, CompletePassed DEF Greened
<1>f. ASSUME UNCHANGED github, End PROVE Greened'
  BY <1>b, <1>d, <1>f, Ended
<1>1. CASE Review
  <2>1. CASE Start
    <3>1. proc'.at = "read"
      BY <2>1 DEF Start, Idle
    <3>2. UNCHANGED github
      BY <2>1 DEF Start
    <3> QED
      BY <3>1, <3>2, <1>b, <1>d
  <2>2. CASE Read
    <3>1. UNCHANGED github
      BY <2>2 DEF Read
    <3>2. CASE End
      BY <3>1, <3>2, <1>f
    <3>3. CASE ~End
      <4>1. proc'.at # "recheck"
        BY <2>2, <3>3, Moves
      <4>2. proc'.view = "complete" => proc'.head \in green
        BY <2>2, <3>3, <1>e, Moves
      <4> QED
        BY <3>1, <4>1, <4>2 DEF Greened, github
    <3> QED
      BY <3>2, <3>3
  <2>3. CASE Wait
    <3>1. UNCHANGED github
      BY <2>3 DEF Wait
    <3>2. proc'.at = "recheck" /\ (proc'.view = "complete" => pr.head \in green)
      BY <2>3, <1>e, Moves
    <3>3. "recheck" \notin Decided
      BY DEF Decided, Spending
    <3> QED
      BY <3>1, <3>2, <3>3 DEF Greened, github
  <2>4. CASE Recheck
    <3>1. UNCHANGED github
      BY <2>4 DEF Recheck
    <3>2. CASE End
      BY <3>1, <3>2, <1>f
    <3>3. CASE ~End
      <4>1. proc'.at = "assemble" /\ proc'.head = proc.head /\ proc'.view = proc.view /\ pr.head = proc.head
        BY <2>4, <3>3, Moves
      <4>2. proc.at = "recheck"
        BY <2>4 DEF Recheck
      <4> QED
        BY <3>1, <4>1, <4>2, <1>d DEF Greened, github
    <3> QED
      BY <3>2, <3>3
  <2>5. CASE Assemble
    <3>1. UNCHANGED github /\ proc.at \in Decided
      BY <2>5, <1>d DEF Assemble
    <3>2. CASE Completed(Fingerprint)
      <4>1. proc'.head = proc.head /\ proc'.view = proc.view /\ proc'.at \in Decided
        BY <2>5, <3>2, <1>d DEF Assemble, ProcType
      <4> QED
        BY <3>1, <4>1, <1>c
    <3>3. CASE ~Completed(Fingerprint) /\ GatePassed
      <4>1. Proceed("client")
        BY <2>5, <3>3 DEF Assemble
      <4> QED
        BY <3>1, <4>1, <1>c, <1>d, Proceeds
    <3>4. CASE ~Completed(Fingerprint) /\ ~GatePassed
      BY <2>5, <3>1, <3>4, <1>f DEF Assemble
    <3> QED
      BY <3>2, <3>3, <3>4
  <2>6. CASE Client
    <3>1. UNCHANGED github /\ proc.at \in Decided
      BY <2>6, <1>d DEF Client
    <3>2. CASE End
      BY <3>1, <3>2, <1>f
    <3>3. CASE Proceed("thread")
      BY <3>1, <3>3, <1>c, <1>d, Proceeds
    <3> QED
      BY <2>6, <3>2, <3>3 DEF Client
  <2>7. CASE OpenThread
    <3>1. UNCHANGED github /\ proc.at \in Decided
      BY <2>7, <1>d DEF OpenThread
    <3>2. CASE End
      BY <3>1, <3>2, <1>f
    <3>3. CASE \E t : proc' = [proc EXCEPT !.at = "save", !.thread = t]
      <4>1. proc'.head = proc.head /\ proc'.view = proc.view /\ proc'.at \in Decided
        BY <3>3, <1>d DEF ProcType
      <4> QED
        BY <3>1, <4>1, <1>c
    <3> QED
      BY <2>7, <3>2, <3>3 DEF OpenThread
  <2>8. CASE Save
    <3>1. UNCHANGED github /\ proc.at \in Decided
      BY <2>8, <1>d DEF Save
    <3>2. CASE End
      BY <3>1, <3>2, <1>f
    <3>3. CASE Proceed("turn")
      BY <3>1, <3>3, <1>c, <1>d, Proceeds
    <3> QED
      BY <2>8, <3>2, <3>3 DEF Save
  <2>9. CASE Turn
    <3>1. UNCHANGED github /\ proc.at \in Decided
      BY <2>9, <1>d DEF Turn
    <3>2. CASE End
      BY <3>1, <3>2, <1>f
    <3>3. CASE Proceed("running")
      BY <3>1, <3>3, <1>c, <1>d, Proceeds
    <3> QED
      BY <2>9, <3>2, <3>3 DEF Turn, Interrupt
  <2>10. CASE EndTurn
    <3>1. UNCHANGED github /\ proc.at \in Decided
      BY <2>10, <1>d DEF EndTurn
    <3>2. CASE End
      BY <3>1, <3>2, <1>f
    <3>3. CASE \E v : proc' = [proc EXCEPT !.at = "settle", !.verdict = v]
      <4>1. proc'.head = proc.head /\ proc'.view = proc.view /\ proc'.at \in Decided
        BY <3>3, <1>d DEF ProcType
      <4> QED
        BY <3>1, <4>1, <1>c
    <3> QED
      BY <2>10, <3>2, <3>3 DEF EndTurn, Interrupt
  <2>11. CASE Settle
    <3>1. UNCHANGED github /\ proc.at \in Decided
      BY <2>11, <1>d DEF Settle
    <3>2. CASE End
      BY <3>1, <3>2, <1>f
    <3>3. CASE Proceed("report")
      BY <3>1, <3>3, <1>c, <1>d, Proceeds
    <3> QED
      BY <2>11, <3>2, <3>3 DEF Settle
  <2>12. CASE Report
    BY <2>12, <1>f DEF Report
  <2> QED
    BY <1>1, <2>1, <2>2, <2>3, <2>4, <2>5, <2>6, <2>7, <2>8, <2>9, <2>10, <2>11, <2>12 DEF
       Review
<1>2. CASE Prune
  <2>1. UNCHANGED <<github, proc>>
    BY <1>2 DEF Prune
  <2> QED
    BY <2>1 DEF Greened, github
<1>3. CASE Kill
  BY <1>3, <1>f DEF Kill
<1>4. CASE PushCommit
  <2>1. pr'.head = pr.head + 1 /\ proc' = proc /\ checks' = Unchecked /\ green' = green \intersect {proc.head}
    BY <1>4 DEF PushCommit, PullType
  <2>2. ~Passed(checks')
    BY <2>1, UncheckedNotPassed
  <2>3. proc.at = "recheck" => pr'.head # proc.head
    BY <2>1, <1>a DEF Reviewed
  <2> QED
    BY <2>1, <2>2, <2>3 DEF Greened
<1>5. CASE EditBody
  <2>1. pr'.head = pr.head /\ UNCHANGED <<checks, other, green, proc>>
    BY <1>5 DEF EditBody, PullType
  <2> QED
    BY <2>1 DEF Greened
<1>6. CASE CloseOrReopen
  <2>1. pr'.head = pr.head /\ UNCHANGED <<checks, other, green, proc>>
    BY <1>6 DEF CloseOrReopen, PullType
  <2> QED
    BY <2>1 DEF Greened
<1>7. CASE CheckMoves
  <2>1. /\ green \subseteq green' /\ (Passed(checks') /\ ~other' => pr.head \in green')
        /\ pr' = pr /\ proc' = proc
    BY <1>7 DEF CheckMoves
  <2> QED
    BY <2>1 DEF Greened
<1>8. CASE UNCHANGED vars
  BY <1>8 DEF vars, github, Greened
<1> QED
  BY <1>1, <1>2, <1>3, <1>4, <1>5, <1>6, <1>7, <1>8 DEF Next

-----------------------------------------------------------------------------
(* What a write keeps: types, the links of manifests and threads, the verdicts. *)
LEMMA WriteTypes ==
  ASSUME PullType, ProcType, SavedType, Bounded, Reviewed, proc.at # "idle",
         NEW status \in {"in-progress", "interrupted", "retryable", "completed"},
         NEW thread \in 1..Len(threads), NEW verdict \in Verdict \union {"none"},
         Write(status, thread, verdict), UNCHANGED threads
  PROVE  SavedType'
<1>1. Fingerprint \in Evidence
  BY FingerprintType
<1>2. /\ DOMAIN manifests' = DOMAIN manifests \union {Fingerprint}
      /\ manifests'[Fingerprint] = [status |-> status, thread |-> thread, verdict |-> verdict]
      /\ \A e \in DOMAIN manifests : e # Fingerprint => manifests'[e] = manifests[e]
  BY Written
<1>3. manifests'[Fingerprint] \in [status : {"in-progress", "interrupted", "retryable", "completed"},
                                   thread : 1..Len(threads), verdict : Verdict \union {"none"}]
  BY <1>2
<1> QED
  BY <1>1, <1>2, <1>3 DEF SavedType

LEMMA WritePairs ==
  ASSUME SavedType, Paired, NEW status, NEW thread \in 1..Len(threads), NEW verdict,
         threads[thread].of = Fingerprint,
         Fingerprint \in DOMAIN manifests => manifests[Fingerprint].thread = thread,
         Write(status, thread, verdict), UNCHANGED threads
  PROVE  Paired'
<1>1. /\ DOMAIN manifests' = DOMAIN manifests \union {Fingerprint}
      /\ manifests'[Fingerprint] = [status |-> status, thread |-> thread, verdict |-> verdict]
      /\ \A e \in DOMAIN manifests : e # Fingerprint => manifests'[e] = manifests[e]
  BY Written
<1>2. \A e \in DOMAIN manifests : manifests'[e].thread = manifests[e].thread
  BY <1>1
<1>3. manifests'[Fingerprint].thread = thread
  BY <1>1
<1> QED
  BY <1>1, <1>2, <1>3 DEF Paired

LEMMA WriteKeeps ==
  ASSUME Kept, ~Completed(Fingerprint), NEW status, NEW thread, NEW verdict,
         status = "completed" => verdict \in Verdict,
         Write(status, thread, verdict), UNCHANGED verdicts
  PROVE  Kept'
<1>1. /\ DOMAIN manifests' = DOMAIN manifests \union {Fingerprint}
      /\ manifests'[Fingerprint] = [status |-> status, thread |-> thread, verdict |-> verdict]
      /\ \A e \in DOMAIN manifests : e # Fingerprint => manifests'[e] = manifests[e]
  BY Written
<1>2. \A v \in verdicts : v.of # Fingerprint
  BY DEF Kept, Completed, Saved, Location, Manifest
<1> QED
  BY <1>1, <1>2 DEF Kept

(* The threads that a resumed review and an interrupted one write of. *)
LEMMA ResumedThread ==
  ASSUME SavedType, Paired, CanResume(Fingerprint)
  PROVE  /\ Fingerprint \in DOMAIN manifests
         /\ Manifest(Fingerprint) = manifests[Fingerprint]
         /\ manifests[Fingerprint].thread \in 1..Len(threads)
         /\ threads[manifests[Fingerprint].thread].of = Fingerprint
BY DEF CanResume, Saved, Location, Manifest, SavedType, Paired

(* A manifest stays one, of an evidence and with a thread. *)
LEMMA SavedStep ==
  (PullType /\ ProcType /\ SavedType /\ ThreadType
   /\ Bounded /\ Reviewed /\ Threading /\ Reporting) /\ [Next]_vars
    => SavedType'
<1> SUFFICES ASSUME PullType, ProcType, SavedType, ThreadType, Bounded, Reviewed,
                    Threading, Reporting, [Next]_vars
             PROVE  SavedType'
  OBVIOUS
<1>a. ASSUME UNCHANGED manifests PROVE SavedType'
  <2>1. Len(threads) \in Nat /\ Len(threads') \in Nat /\ Len(threads) <= Len(threads')
    BY ThreadStep, LenProperties DEF ThreadType
  <2> QED
    BY <1>a, <2>1 DEF SavedType
<1> USE DEF disk
<1>1. CASE Review
  <2>1. CASE Start
    BY <2>1, <1>a DEF Start
  <2>2. CASE Read
    BY <2>2, <1>a DEF Read
  <2>3. CASE Wait
    BY <2>3, <1>a DEF Wait
  <2>4. CASE Recheck
    BY <2>4, <1>a DEF Recheck
  <2>5. CASE Assemble
    BY <2>5, <1>a DEF Assemble
  <2>6. CASE Client
    BY <2>6, <1>a DEF Client
  <2>7. CASE OpenThread
    <3>1. CASE UNCHANGED manifests
      BY <3>1, <1>a
    <3>2. CASE ~UNCHANGED manifests
      <4>1. CanResume(Fingerprint) /\ UNCHANGED threads /\ Write("interrupted", Manifest(Fingerprint).thread, "none")
        BY <2>7, <3>2 DEF OpenThread
      <4>2. Manifest(Fingerprint).thread \in 1..Len(threads)
        BY <4>1, ResumedThread DEF Threading
      <4>3. proc.at # "idle"
        BY <2>7 DEF OpenThread
      <4> QED
        BY <4>1, <4>2, <4>3, WriteTypes
    <3> QED
      BY <3>1, <3>2
  <2>8. CASE Save
    <3>1. proc.at # "idle" /\ proc.thread \in 1..Len(threads)
      BY <2>8 DEF Save, Threading, Working
    <3>2. ASSUME NEW status \in {"in-progress", "interrupted", "retryable", "completed"},
                NEW verdict \in Verdict \union {"none"}, Write(status, proc.thread, verdict), UNCHANGED threads
         PROVE  SavedType'
      BY <3>1, <3>2, WriteTypes
    <3>3. ASSUME UNCHANGED manifests PROVE SavedType'
      BY <3>3, <1>a
    <3> QED
      BY <2>8, <3>2, <3>3 DEF Save
  <2>9. CASE Turn
    <3>1. proc.at # "idle" /\ proc.thread \in 1..Len(threads)
      BY <2>9 DEF Turn, Threading, Working
    <3>2. ASSUME NEW status \in {"in-progress", "interrupted", "retryable", "completed"},
                NEW verdict \in Verdict \union {"none"}, Write(status, proc.thread, verdict), UNCHANGED threads
         PROVE  SavedType'
      BY <3>1, <3>2, WriteTypes
    <3>3. ASSUME UNCHANGED manifests PROVE SavedType'
      BY <3>3, <1>a
    <3> QED
      BY <2>9, <3>2, <3>3 DEF Turn, Interrupt
  <2>10. CASE EndTurn
    <3>1. proc.at # "idle" /\ proc.thread \in 1..Len(threads)
      BY <2>10 DEF EndTurn, Threading, Working
    <3>2. ASSUME NEW status \in {"in-progress", "interrupted", "retryable", "completed"},
                NEW verdict \in Verdict \union {"none"}, Write(status, proc.thread, verdict), UNCHANGED threads
         PROVE  SavedType'
      BY <3>1, <3>2, WriteTypes
    <3>3. ASSUME UNCHANGED manifests PROVE SavedType'
      BY <3>3, <1>a
    <3> QED
      BY <2>10, <3>2, <3>3 DEF EndTurn, Interrupt
  <2>11. CASE Settle
    <3>1. proc.at # "idle" /\ proc.thread \in 1..Len(threads)
      BY <2>11 DEF Settle, Threading, Working
    <3>2. ASSUME NEW status \in {"in-progress", "interrupted", "retryable", "completed"},
                NEW verdict \in Verdict \union {"none"}, Write(status, proc.thread, verdict), UNCHANGED threads
         PROVE  SavedType'
      BY <3>1, <3>2, WriteTypes
    <3>3. ASSUME UNCHANGED manifests PROVE SavedType'
      BY <3>3, <1>a
    <3> QED
      BY <2>11, <3>2, <3>3 DEF Settle
  <2>12. CASE Report
    BY <2>12, <1>a DEF Report
  <2> QED
    BY <1>1, <2>1, <2>2, <2>3, <2>4, <2>5, <2>6, <2>7, <2>8, <2>9, <2>10, <2>11, <2>12 DEF
       Review
<1>2. CASE Prune
  <2>1. PICK e \in DOMAIN manifests : manifests' = [m \in DOMAIN manifests \ {e} |-> manifests[m]]
    BY <1>2 DEF Prune
  <2>2. Len(threads) \in Nat /\ Len(threads') \in Nat /\ Len(threads) <= Len(threads')
    BY ThreadStep, LenProperties DEF ThreadType
  <2> QED
    BY <2>1, <2>2 DEF SavedType
<1>3. CASE Kill
  BY <1>3, <1>a DEF Kill
<1>4. CASE PushCommit
  BY <1>4, <1>a DEF PushCommit
<1>5. CASE EditBody
  BY <1>5, <1>a DEF EditBody
<1>6. CASE CloseOrReopen
  BY <1>6, <1>a DEF CloseOrReopen
<1>7. CASE CheckMoves
  BY <1>7, <1>a DEF CheckMoves
<1>8. CASE UNCHANGED vars
  BY <1>8, <1>a DEF vars
<1> QED
  BY <1>1, <1>2, <1>3, <1>4, <1>5, <1>6, <1>7, <1>8 DEF Next

(* The manifest of an evidence names its thread, and no other thread of it has a rollout. *)
LEMMA PairedStep ==
  (PullType /\ ProcType /\ SavedType /\ ThreadType
   /\ Bounded /\ Reviewed /\ Threading /\ Reporting) /\ [Next]_vars
    => Paired'
<1> SUFFICES ASSUME PullType, ProcType, SavedType, ThreadType, Bounded, Reviewed,
                    Threading, Reporting, [Next]_vars
             PROVE  Paired'
  OBVIOUS
<1>a. ASSUME UNCHANGED <<manifests, threads>> PROVE Paired'
  BY <1>a DEF Paired, Threading
<1>b. Len(threads) \in Nat /\ DOMAIN threads = 1..Len(threads)
      /\ \A t \in 1..Len(threads) : threads[t] \in [of : Evidence, rolled : BOOLEAN]
  BY ThreadTypes
<1> USE DEF disk, Threading
<1>1. CASE Review
  <2>1. CASE Start
    BY <2>1, <1>a DEF Start
  <2>2. CASE Read
    BY <2>2, <1>a DEF Read
  <2>3. CASE Wait
    BY <2>3, <1>a DEF Wait
  <2>4. CASE Recheck
    BY <2>4, <1>a DEF Recheck
  <2>5. CASE Assemble
    BY <2>5, <1>a DEF Assemble
  <2>6. CASE Client
    BY <2>6, <1>a DEF Client
  <2>7. CASE OpenThread
    <3>1. CASE UNCHANGED <<manifests, threads>>
      BY <3>1, <1>a
    <3>2. CASE CanResume(Fingerprint) /\ ~UNCHANGED <<manifests, threads>>
      <4>1. UNCHANGED threads /\ Write("interrupted", Manifest(Fingerprint).thread, "none")
        BY <2>7, <3>2 DEF OpenThread
      <4> QED
        BY <3>2, <4>1, ResumedThread, WritePairs
    <3>3. CASE ~CanResume(Fingerprint)
      <4> DEFINE new == [of |-> Fingerprint, rolled |-> FALSE]
      <4>1. UNCHANGED manifests /\ threads' = Append(threads, new)
        BY <2>7, <3>3 DEF OpenThread
      <4>2. new \in [of : Evidence, rolled : BOOLEAN] /\ ~new.rolled
        BY <2>7, FingerprintType DEF OpenThread
      <4> HIDE DEF new
      <4>3. /\ Len(threads') = Len(threads) + 1 /\ threads'[Len(threads) + 1] = new
            /\ \A t \in 1..Len(threads) : threads'[t] = threads[t]
        BY <4>1, <4>2, AppendProperties DEF ThreadType
      <4>4. \A e \in DOMAIN manifests : manifests[e].thread \in 1..Len(threads)
        BY DEF SavedType
      <4>5. \A t \in 1..Len(threads') : t = Len(threads) + 1 \/ t \in 1..Len(threads)
        BY <4>3, <1>b
      <4> QED
        BY <4>1, <4>2, <4>3, <4>4, <4>5 DEF Paired
    <3> QED
      BY <2>7, <3>1, <3>2, <3>3
  <2>8. CASE Save
    <3>1. /\ proc.thread \in 1..Len(threads) /\ threads[proc.thread].of = Fingerprint
          /\ Fingerprint \in DOMAIN manifests => manifests[Fingerprint].thread = proc.thread
      BY <2>8 DEF Save, Working
    <3>2. ASSUME NEW status, NEW verdict, Write(status, proc.thread, verdict), UNCHANGED threads
         PROVE  Paired'
      BY <3>1, <3>2, WritePairs
    <3>3. ASSUME UNCHANGED <<manifests, threads>> PROVE Paired'
      BY <3>3, <1>a
    <3> QED
      BY <2>8, <3>2, <3>3 DEF Save
  <2>9. CASE Turn
    <3>1. /\ proc.thread \in 1..Len(threads) /\ threads[proc.thread].of = Fingerprint
          /\ Fingerprint \in DOMAIN manifests /\ manifests[Fingerprint].thread = proc.thread
      BY <2>9 DEF Turn, Working
    <3>2. CASE Interrupt /\ UNCHANGED threads
      BY <3>1, <3>2, WritePairs DEF Interrupt
    <3>3. CASE threads' = [threads EXCEPT ![proc.thread].rolled = TRUE] /\ UNCHANGED manifests
      <4>1. DOMAIN threads' = 1..Len(threads) /\ Len(threads') = Len(threads)
        BY <3>3, <1>b, ThreadStep DEF ThreadType
      <4>2. \A t \in 1..Len(threads) : threads'[t].of = threads[t].of
        BY ThreadStep
      <4>3. \A t \in 1..Len(threads) : t # proc.thread => threads'[t] = threads[t]
        BY <3>3, <1>b
      <4>4. \A e \in DOMAIN manifests : manifests[e].thread \in 1..Len(threads)
        BY DEF SavedType
      <4> QED
        BY <3>1, <3>3, <4>1, <4>2, <4>3, <4>4 DEF Paired
    <3> QED
      BY <2>9, <3>2, <3>3 DEF Turn
  <2>10. CASE EndTurn
    <3>1. /\ proc.thread \in 1..Len(threads) /\ threads[proc.thread].of = Fingerprint
          /\ Fingerprint \in DOMAIN manifests => manifests[Fingerprint].thread = proc.thread
      BY <2>10 DEF EndTurn, Working
    <3>2. ASSUME NEW status, NEW verdict, Write(status, proc.thread, verdict), UNCHANGED threads
         PROVE  Paired'
      BY <3>1, <3>2, WritePairs
    <3>3. ASSUME UNCHANGED <<manifests, threads>> PROVE Paired'
      BY <3>3, <1>a
    <3> QED
      BY <2>10, <3>2, <3>3 DEF EndTurn, Interrupt
  <2>11. CASE Settle
    <3>1. /\ proc.thread \in 1..Len(threads) /\ threads[proc.thread].of = Fingerprint
          /\ Fingerprint \in DOMAIN manifests => manifests[Fingerprint].thread = proc.thread
      BY <2>11 DEF Settle, Working
    <3>2. ASSUME NEW status, NEW verdict, Write(status, proc.thread, verdict), UNCHANGED threads
         PROVE  Paired'
      BY <3>1, <3>2, WritePairs
    <3>3. ASSUME UNCHANGED <<manifests, threads>> PROVE Paired'
      BY <3>3, <1>a
    <3> QED
      BY <2>11, <3>2, <3>3 DEF Settle
  <2>12. CASE Report
    BY <2>12, <1>a DEF Report
  <2> QED
    BY <1>1, <2>1, <2>2, <2>3, <2>4, <2>5, <2>6, <2>7, <2>8, <2>9, <2>10, <2>11, <2>12 DEF
       Review
<1>2. CASE Prune
  <2>1. PICK e \in DOMAIN manifests :
            /\ manifests' = [m \in DOMAIN manifests \ {e} |-> manifests[m]]
            /\ threads' = [t \in 1..Len(threads) |->
                         IF threads[t].of = e THEN [threads[t] EXCEPT !.rolled = FALSE] ELSE threads[t]]
    BY <1>2 DEF Prune
  <2>2. \A t \in 1..Len(threads) : /\ threads'[t].of = threads[t].of
                                  /\ threads'[t].rolled => threads[t].rolled /\ threads[t].of # e
    BY <2>1, <1>b
  <2>3. Len(threads') = Len(threads)
    <3>1. threads' \in [1..Len(threads) -> [of : Evidence, rolled : BOOLEAN]]
      BY <2>1, <1>b
    <3> QED
      BY <3>1, <1>b, ThreadStep, LenProperties DEF ThreadType
  <2>4. \A m \in DOMAIN manifests : manifests[m].thread \in 1..Len(threads)
    BY DEF SavedType
  <2> QED
    BY <2>1, <2>2, <2>3, <2>4 DEF Paired
<1>3. CASE Kill
  BY <1>3, <1>a DEF Kill
<1>4. CASE PushCommit
  BY <1>4, <1>a DEF PushCommit
<1>5. CASE EditBody
  BY <1>5, <1>a DEF EditBody
<1>6. CASE CloseOrReopen
  BY <1>6, <1>a DEF CloseOrReopen
<1>7. CASE CheckMoves
  BY <1>7, <1>a DEF CheckMoves
<1>8. CASE UNCHANGED vars
  BY <1>8, <1>a DEF vars
<1> QED
  BY <1>1, <1>2, <1>3, <1>4, <1>5, <1>6, <1>7, <1>8 DEF Next

(* From the save on, the thread of a review is the one its manifest names. *)
LEMMA WorkingStep ==
  (PullType /\ ProcType /\ SavedType /\ ThreadType
   /\ Bounded /\ Reviewed /\ Threading /\ Reporting) /\ [Next]_vars
    => Working'
<1> SUFFICES ASSUME PullType, ProcType, SavedType, ThreadType, Bounded, Reviewed,
                    Threading, Reporting, [Next]_vars
             PROVE  Working'
  OBVIOUS
<1>a. ASSUME proc'.at \notin {"save", "turn", "running", "settle"} PROVE Working'
  BY <1>a DEF Working
<1>b. ASSUME End PROVE Working'
  BY <1>a, <1>b, Ended
<1>c. ASSUME UNCHANGED <<proc, manifests, threads>> PROVE Working'
  BY <1>c DEF Working, Threading, Fingerprint
<1> USE DEF disk, Threading
<1>1. CASE Review
  <2>1. CASE Start
    <3>1. proc'.at = "read"
      BY <2>1 DEF Start, Idle
    <3> QED
      BY <3>1, <1>a
  <2>2. CASE Read
    <3>1. proc'.at \in {"wait", "assemble"} \/ End
      BY <2>2, Moves
    <3> QED
      BY <3>1, <1>a, <1>b
  <2>3. CASE Wait
    <3>1. proc'.at = "recheck"
      BY <2>3, Moves
    <3> QED
      BY <3>1, <1>a
  <2>4. CASE Recheck
    <3>1. proc'.at = "assemble" \/ End
      BY <2>4, Moves
    <3> QED
      BY <3>1, <1>a, <1>b
  <2>5. CASE Assemble
    <3>1. proc' = [proc EXCEPT !.at = "report", !.verdict = Manifest(Fingerprint).verdict]
          \/ Proceed("client") \/ End
      BY <2>5 DEF Assemble
    <3>2. proc'.at \in {"report", "client"} \/ End
      BY <3>1, Proceeds DEF ProcType
    <3> QED
      BY <3>2, <1>a, <1>b
  <2>6. CASE Client
    <3>1. proc'.at = "thread" \/ End
      BY <2>6, Proceeds DEF Client
    <3> QED
      BY <3>1, <1>a, <1>b
  <2>7. CASE OpenThread
    <3>1. CASE End
      BY <3>1, <1>b
    <3>2. CASE CanResume(Fingerprint) /\ ~End
      <4>1. /\ proc' = [proc EXCEPT !.at = "save", !.thread = Manifest(Fingerprint).thread]
            /\ UNCHANGED <<manifests, threads>>
        BY <2>7, <3>2 DEF OpenThread
      <4>2. proc'.thread = manifests[Fingerprint].thread /\ Fingerprint' = Fingerprint /\ proc'.at = "save"
        BY <3>2, <4>1, ResumedThread DEF ProcType, Fingerprint
      <4> QED
        BY <3>2, <4>1, <4>2, ResumedThread DEF Working
    <3>3. CASE ~CanResume(Fingerprint)
      <4> DEFINE new == [of |-> Fingerprint, rolled |-> FALSE]
      <4>1. /\ UNCHANGED manifests /\ threads' = Append(threads, new)
            /\ proc' = [proc EXCEPT !.at = "save", !.thread = Len(threads) + 1]
        BY <2>7, <3>3 DEF OpenThread
      <4>2. new \in [of : Evidence, rolled : BOOLEAN] /\ new.of = Fingerprint
        BY <2>7, FingerprintType DEF OpenThread
      <4> HIDE DEF new
      <4>3. Len(threads') = Len(threads) + 1 /\ threads'[Len(threads) + 1] = new /\ Len(threads) \in Nat
        BY <4>1, <4>2, AppendProperties, ThreadTypes DEF ThreadType
      <4>4. proc'.thread = Len(threads) + 1 /\ Fingerprint' = Fingerprint /\ proc'.at = "save"
        BY <4>1 DEF ProcType, Fingerprint
      <4>5. Fingerprint \notin DOMAIN manifests
        BY <2>7, <3>3 DEF OpenThread, CanResume, Completed, Saved, Location, Reporting, Telling, Spending
      <4> QED
        BY <4>1, <4>2, <4>3, <4>4, <4>5 DEF Working
    <3> QED
      BY <3>1, <3>2, <3>3
  <2>8. CASE Save
    <3>1. Write("in-progress", proc.thread, "none") /\ UNCHANGED threads /\ Proceed("turn")
      BY <2>8 DEF Save
    <3>2. /\ Fingerprint \in DOMAIN manifests'
          /\ manifests'[Fingerprint] = [status |-> "in-progress", thread |-> proc.thread, verdict |-> "none"]
      BY <3>1, Written
    <3>3. manifests'[Fingerprint].thread = proc.thread
      BY <3>2
    <3>4. proc'.thread = proc.thread /\ Fingerprint' = Fingerprint
      BY <3>1, Proceeds
    <3>5. proc.thread \in 1..Len(threads) /\ threads[proc.thread].of = Fingerprint
      BY <2>8 DEF Save, Working
    <3> QED
      BY <3>1, <3>2, <3>3, <3>4, <3>5 DEF Working
  <2>9. CASE Turn
    <3>1. CASE End
      BY <3>1, <1>b
    <3>2. CASE ~End
      <4>1. /\ threads' = [threads EXCEPT ![proc.thread].rolled = TRUE] /\ Proceed("running")
            /\ UNCHANGED manifests
        BY <2>9, <3>2 DEF Turn, Interrupt
      <4>2. /\ Len(threads') \in Nat /\ Len(threads) \in Nat /\ Len(threads) <= Len(threads')
            /\ \A t \in 1..Len(threads) : threads'[t].of = threads[t].of
        BY ThreadStep, LenProperties DEF ThreadType
      <4>3. proc'.thread = proc.thread /\ Fingerprint' = Fingerprint
        BY <4>1, Proceeds
      <4>4. /\ proc.thread \in 1..Len(threads) /\ threads[proc.thread].of = Fingerprint
            /\ Fingerprint \in DOMAIN manifests /\ manifests[Fingerprint].thread = proc.thread
        BY <2>9 DEF Turn, Working
      <4> QED
        BY <4>1, <4>2, <4>3, <4>4 DEF Working
    <3> QED
      BY <3>1, <3>2
  <2>10. CASE EndTurn
    <3>1. CASE End
      BY <3>1, <1>b
    <3>2. CASE ~End
      <4>1. /\ UNCHANGED <<manifests, threads>>
            /\ \E v : proc' = [proc EXCEPT !.at = "settle", !.verdict = v]
        BY <2>10, <3>2 DEF EndTurn, Interrupt
      <4>2. proc'.thread = proc.thread /\ Fingerprint' = Fingerprint
        BY <4>1 DEF ProcType, Fingerprint
      <4>3. /\ proc.thread \in 1..Len(threads) /\ threads[proc.thread].of = Fingerprint
            /\ Fingerprint \in DOMAIN manifests /\ manifests[Fingerprint].thread = proc.thread
        BY <2>10 DEF EndTurn, Working
      <4> QED
        BY <4>1, <4>2, <4>3 DEF Working
    <3> QED
      BY <3>1, <3>2
  <2>11. CASE Settle
    <3>1. proc'.at = "report" \/ End
      BY <2>11, Proceeds DEF Settle
    <3> QED
      BY <3>1, <1>a, <1>b
  <2>12. CASE Report
    BY <2>12, <1>b DEF Report
  <2> QED
    BY <1>1, <2>1, <2>2, <2>3, <2>4, <2>5, <2>6, <2>7, <2>8, <2>9, <2>10, <2>11, <2>12 DEF
       Review
<1>2. CASE Prune
  <2>1. proc' = proc /\ proc.at = "assemble"
    BY <1>2 DEF Prune
  <2> QED
    BY <2>1, <1>a
<1>3. CASE Kill
  BY <1>3, <1>b DEF Kill
<1>4. CASE PushCommit
  BY <1>4, <1>c DEF PushCommit
<1>5. CASE EditBody
  BY <1>5, <1>c DEF EditBody
<1>6. CASE CloseOrReopen
  BY <1>6, <1>c DEF CloseOrReopen
<1>7. CASE CheckMoves
  BY <1>7, <1>c DEF CheckMoves
<1>8. CASE UNCHANGED vars
  BY <1>8, <1>c DEF vars
<1> QED
  BY <1>1, <1>2, <1>3, <1>4, <1>5, <1>6, <1>7, <1>8 DEF Next

(* A verdict that was reported stays that of its completed manifest. *)
LEMMA KeptStep ==
  (PullType /\ ProcType /\ SavedType /\ ThreadType
   /\ Bounded /\ Reviewed /\ Threading /\ Reporting) /\ [Next]_vars
    => Kept'
<1> SUFFICES ASSUME PullType, ProcType, SavedType, ThreadType, Bounded, Reviewed,
                    Threading, Reporting, [Next]_vars
             PROVE  Kept'
  OBVIOUS
<1>a. ASSUME UNCHANGED <<manifests, verdicts>> PROVE Kept'
  BY <1>a DEF Kept, Reporting
<1> USE DEF disk, Reporting
<1>1. CASE Review
  <2>1. CASE Start
    BY <2>1, <1>a DEF Start
  <2>2. CASE Read
    BY <2>2, <1>a DEF Read
  <2>3. CASE Wait
    BY <2>3, <1>a DEF Wait
  <2>4. CASE Recheck
    BY <2>4, <1>a DEF Recheck
  <2>5. CASE Assemble
    BY <2>5, <1>a DEF Assemble
  <2>6. CASE Client
    BY <2>6, <1>a DEF Client
  <2>7. CASE OpenThread
    <3>1. ~Completed(Fingerprint) /\ UNCHANGED verdicts
      BY <2>7 DEF OpenThread, Telling, Spending
    <3>2. ASSUME NEW status, NEW thread, NEW verdict, status = "completed" => verdict \in Verdict,
                Write(status, thread, verdict)
          PROVE  Kept'
      BY <3>1, <3>2, WriteKeeps
    <3>3. ASSUME UNCHANGED manifests PROVE Kept'
      BY <3>1, <3>3, <1>a
    <3> QED
      BY <2>7, <3>2, <3>3 DEF OpenThread
  <2>8. CASE Save
    <3>1. ~Completed(Fingerprint) /\ UNCHANGED verdicts
      BY <2>8 DEF Save, Telling, Spending
    <3>2. ASSUME NEW status, NEW thread, NEW verdict, status = "completed" => verdict \in Verdict,
                Write(status, thread, verdict)
          PROVE  Kept'
      BY <3>1, <3>2, WriteKeeps
    <3>3. ASSUME UNCHANGED manifests PROVE Kept'
      BY <3>1, <3>3, <1>a
    <3> QED
      BY <2>8, <3>2, <3>3 DEF Save
  <2>9. CASE Turn
    <3>1. ~Completed(Fingerprint) /\ UNCHANGED verdicts
      BY <2>9 DEF Turn, Telling, Spending
    <3>2. ASSUME NEW status, NEW thread, NEW verdict, status = "completed" => verdict \in Verdict,
                Write(status, thread, verdict)
          PROVE  Kept'
      BY <3>1, <3>2, WriteKeeps
    <3>3. ASSUME UNCHANGED manifests PROVE Kept'
      BY <3>1, <3>3, <1>a
    <3> QED
      BY <2>9, <3>2, <3>3 DEF Turn, Interrupt
  <2>10. CASE EndTurn
    <3>1. ~Completed(Fingerprint) /\ UNCHANGED verdicts
      BY <2>10 DEF EndTurn, Telling, Spending
    <3>2. ASSUME NEW status, NEW thread, NEW verdict, status = "completed" => verdict \in Verdict,
                Write(status, thread, verdict)
          PROVE  Kept'
      BY <3>1, <3>2, WriteKeeps
    <3>3. ASSUME UNCHANGED manifests PROVE Kept'
      BY <3>1, <3>3, <1>a
    <3> QED
      BY <2>10, <3>2, <3>3 DEF EndTurn, Interrupt
  <2>11. CASE Settle
    <3>1. ~Completed(Fingerprint) /\ UNCHANGED verdicts
      BY <2>11 DEF Settle, Telling, Spending
    <3>2. ASSUME NEW status, NEW thread, NEW verdict, status = "completed" => verdict \in Verdict,
                Write(status, thread, verdict)
          PROVE  Kept'
      BY <3>1, <3>2, WriteKeeps
    <3>3. ASSUME UNCHANGED manifests PROVE Kept'
      BY <3>1, <3>3, <1>a
    <3> QED
      BY <2>11, <3>2, <3>3 DEF Settle
  <2>12. CASE Report
    <3>1. /\ UNCHANGED manifests
          /\ verdicts' = verdicts \union {[of |-> Fingerprint, says |-> proc.verdict]}
      BY <2>12 DEF Report
    <3>2. /\ Fingerprint \in DOMAIN manifests /\ manifests[Fingerprint].status = "completed"
          /\ manifests[Fingerprint].verdict = proc.verdict
      BY <2>12 DEF Report, Telling, Completed, Saved, Location, Manifest
    <3> QED
      BY <3>1, <3>2 DEF Kept
  <2> QED
    BY <1>1, <2>1, <2>2, <2>3, <2>4, <2>5, <2>6, <2>7, <2>8, <2>9, <2>10, <2>11, <2>12 DEF
       Review
<1>2. CASE Prune
  <2>1. PICK e \in DOMAIN manifests :
          /\ manifests' = [m \in DOMAIN manifests \ {e} |-> manifests[m]]
          /\ verdicts' = {v \in verdicts : v.of # e}
    BY <1>2 DEF Prune
  <2> QED
    BY <2>1 DEF Kept
<1>3. CASE Kill
  BY <1>3, <1>a DEF Kill
<1>4. CASE PushCommit
  BY <1>4, <1>a DEF PushCommit
<1>5. CASE EditBody
  BY <1>5, <1>a DEF EditBody
<1>6. CASE CloseOrReopen
  BY <1>6, <1>a DEF CloseOrReopen
<1>7. CASE CheckMoves
  BY <1>7, <1>a DEF CheckMoves
<1>8. CASE UNCHANGED vars
  BY <1>8, <1>a DEF vars
<1> QED
  BY <1>1, <1>2, <1>3, <1>4, <1>5, <1>6, <1>7, <1>8 DEF Next

(* No turn is spent on a completed manifest, and a review reports what is saved. *)
LEMMA TellingStep ==
  (PullType /\ ProcType /\ SavedType /\ ThreadType
   /\ Bounded /\ Reviewed /\ Threading /\ Reporting) /\ [Next]_vars
    => Telling'
<1> SUFFICES ASSUME PullType, ProcType, SavedType, ThreadType, Bounded, Reviewed,
                    Threading, Reporting, [Next]_vars
             PROVE  Telling'
  OBVIOUS
<1>a. ASSUME proc'.at \notin {"report"} \union Spending PROVE Telling'
  BY <1>a DEF Telling
<1>b. {"idle", "read", "wait", "recheck", "assemble"} \intersect ({"report"} \union Spending) = {}
      /\ "report" \notin Spending
  BY DEF Spending
<1>c. ASSUME End PROVE Telling'
  BY <1>a, <1>b, <1>c, Ended
<1>d. ASSUME UNCHANGED <<proc, manifests>> PROVE Telling'
  BY <1>d DEF Telling, Reporting, Completed, Saved, Location, Manifest, Fingerprint
<1>e. ASSUME Fingerprint' = Fingerprint, UNCHANGED manifests PROVE Completed(Fingerprint)' = Completed(Fingerprint)
  BY <1>e DEF Completed, Saved, Location, Manifest
<1>f. ASSUME proc.at \in Spending, proc'.at \in Spending, Fingerprint' = Fingerprint, UNCHANGED manifests
      PROVE  Telling'
  BY <1>b, <1>e, <1>f DEF Telling, Reporting
<1>g. {"client", "thread", "save", "turn", "running", "settle"} = Spending
  BY DEF Spending
<1> USE DEF disk, Reporting
<1>1. CASE Review
  <2>1. CASE Start
    <3>1. proc'.at = "read"
      BY <2>1 DEF Start, Idle
    <3> QED
      BY <3>1, <1>a, <1>b
  <2>2. CASE Read
    <3>1. proc'.at \in {"wait", "assemble"} \/ End
      BY <2>2, Moves
    <3> QED
      BY <3>1, <1>a, <1>b, <1>c
  <2>3. CASE Wait
    <3>1. proc'.at = "recheck"
      BY <2>3, Moves
    <3> QED
      BY <3>1, <1>a, <1>b
  <2>4. CASE Recheck
    <3>1. proc'.at = "assemble" \/ End
      BY <2>4, Moves
    <3> QED
      BY <3>1, <1>a, <1>b, <1>c
  <2>5. CASE Assemble
    <3>1. UNCHANGED manifests
      BY <2>5 DEF Assemble
    <3>2. CASE Completed(Fingerprint)
      <4>1. proc' = [proc EXCEPT !.at = "report", !.verdict = Manifest(Fingerprint).verdict]
        BY <2>5, <3>2 DEF Assemble
      <4>2. /\ proc'.at = "report" /\ Fingerprint' = Fingerprint
            /\ proc'.verdict = manifests[Fingerprint].verdict
        BY <4>1 DEF ProcType, Fingerprint, Manifest, Location
      <4>3. manifests[Fingerprint].verdict \in Verdict
        BY <3>2 DEF Completed, Saved, Location, Manifest, Kept
      <4> QED
        BY <3>1, <3>2, <4>2, <4>3, <1>b, <1>e DEF Telling
    <3>3. CASE ~Completed(Fingerprint) /\ GatePassed
      <4>1. Proceed("client")
        BY <2>5, <3>3 DEF Assemble
      <4>2. proc'.at = "client" /\ Fingerprint' = Fingerprint
        BY <4>1, Proceeds
      <4> QED
        BY <3>1, <3>3, <4>2, <1>e DEF Telling
    <3>4. CASE ~Completed(Fingerprint) /\ ~GatePassed
      BY <2>5, <3>4, <1>c DEF Assemble
    <3> QED
      BY <3>2, <3>3, <3>4
  <2>6. CASE Client
    <3>1. CASE End
      BY <3>1, <1>c
    <3>2. CASE Proceed("thread")
      <4>1. proc'.at = "thread" /\ Fingerprint' = Fingerprint /\ UNCHANGED manifests /\ proc.at = "client"
        BY <2>6, <3>2, Proceeds DEF Client
      <4> QED
        BY <4>1, <1>f, <1>g
    <3> QED
      BY <2>6, <3>1, <3>2 DEF Client
  <2>7. CASE OpenThread
    <3>1. CASE End
      BY <3>1, <1>c
    <3>2. CASE ~End
      <4>1. /\ UNCHANGED manifests
            /\ \E t : proc' = [proc EXCEPT !.at = "save", !.thread = t]
        BY <2>7, <3>2 DEF OpenThread
      <4>2. proc'.at = "save" /\ Fingerprint' = Fingerprint /\ proc.at = "thread"
        BY <2>7, <4>1 DEF OpenThread, ProcType, Fingerprint
      <4> QED
        BY <4>1, <4>2, <1>f, <1>g
    <3> QED
      BY <3>1, <3>2
  <2>8. CASE Save
    <3>1. Write("in-progress", proc.thread, "none") /\ Proceed("turn")
      BY <2>8 DEF Save
    <3>2. /\ proc'.at = "turn" /\ Fingerprint' = Fingerprint
          /\ manifests'[Fingerprint] = [status |-> "in-progress", thread |-> proc.thread, verdict |-> "none"]
      BY <3>1, Written, Proceeds
    <3>3. manifests'[Fingerprint].status # "completed"
      BY <3>2
    <3> QED
      BY <3>2, <3>3 DEF Telling, Completed, Saved, Location, Manifest
  <2>9. CASE Turn
    <3>1. CASE End
      BY <3>1, <1>c
    <3>2. CASE ~End
      <4>1. Proceed("running") /\ UNCHANGED manifests /\ proc.at = "turn"
        BY <2>9, <3>2 DEF Turn, Interrupt
      <4> QED
        BY <4>1, <1>f, <1>g, Proceeds
    <3> QED
      BY <3>1, <3>2
  <2>10. CASE EndTurn
    <3>1. CASE End
      BY <3>1, <1>c
    <3>2. CASE ~End
      <4>1. /\ UNCHANGED manifests
            /\ \E v : proc' = [proc EXCEPT !.at = "settle", !.verdict = v]
        BY <2>10, <3>2 DEF EndTurn, Interrupt
      <4>2. proc'.at = "settle" /\ Fingerprint' = Fingerprint /\ proc.at = "running"
        BY <2>10, <4>1 DEF EndTurn, ProcType, Fingerprint
      <4> QED
        BY <4>1, <4>2, <1>f, <1>g
    <3> QED
      BY <3>1, <3>2
  <2>11. CASE Settle
    <3>1. CASE End
      BY <3>1, <1>c
    <3>2. CASE ~End
      <4>1. proc.verdict \in Verdict /\ Write("completed", proc.thread, proc.verdict) /\ Proceed("report")
        BY <2>11, <3>2 DEF Settle
      <4>2. /\ proc'.at = "report" /\ proc'.verdict = proc.verdict /\ Fingerprint' = Fingerprint
            /\ Fingerprint \in DOMAIN manifests'
            /\ manifests'[Fingerprint] = [status |-> "completed", thread |-> proc.thread, verdict |-> proc.verdict]
        BY <4>1, Written, Proceeds
      <4>3. manifests'[Fingerprint].status = "completed" /\ manifests'[Fingerprint].verdict = proc.verdict
        BY <4>2
      <4> QED
        BY <4>1, <4>2, <4>3, <1>b DEF Telling, Completed, Saved, Location, Manifest
    <3> QED
      BY <3>1, <3>2
  <2>12. CASE Report
    BY <2>12, <1>c DEF Report
  <2> QED
    BY <1>1, <2>1, <2>2, <2>3, <2>4, <2>5, <2>6, <2>7, <2>8, <2>9, <2>10, <2>11, <2>12 DEF
       Review
<1>2. CASE Prune
  <2>1. proc' = proc /\ proc.at = "assemble"
    BY <1>2 DEF Prune
  <2> QED
    BY <2>1, <1>a, <1>b
<1>3. CASE Kill
  BY <1>3, <1>c DEF Kill
<1>4. CASE PushCommit
  BY <1>4, <1>d DEF PushCommit
<1>5. CASE EditBody
  BY <1>5, <1>d DEF EditBody
<1>6. CASE CloseOrReopen
  BY <1>6, <1>d DEF CloseOrReopen
<1>7. CASE CheckMoves
  BY <1>7, <1>d DEF CheckMoves
<1>8. CASE UNCHANGED vars
  BY <1>8, <1>d DEF vars
<1> QED
  BY <1>1, <1>2, <1>3, <1>4, <1>5, <1>6, <1>7, <1>8 DEF Next

(* What is reported is a verdict on an evidence. *)
LEMMA VerdictStep ==
  (PullType /\ ProcType /\ SavedType /\ ThreadType /\ Bounded
   /\ Reviewed /\ Threading /\ Reporting /\ VerdictType) /\ [Next]_vars
    => VerdictType'
<1> SUFFICES ASSUME PullType, ProcType, SavedType, ThreadType, Bounded, Reviewed,
                    Threading, Reporting, VerdictType, [Next]_vars
             PROVE  VerdictType'
  OBVIOUS
<1> USE DEF disk, VerdictType
<1>1. CASE Review
  <2>1. CASE Start
    BY <2>1 DEF Start
  <2>2. CASE Read
    BY <2>2 DEF Read
  <2>3. CASE Wait
    BY <2>3 DEF Wait
  <2>4. CASE Recheck
    BY <2>4 DEF Recheck
  <2>5. CASE Assemble
    BY <2>5 DEF Assemble
  <2>6. CASE Client
    BY <2>6 DEF Client
  <2>7. CASE OpenThread
    BY <2>7 DEF OpenThread
  <2>8. CASE Save
    BY <2>8 DEF Save
  <2>9. CASE Turn
    BY <2>9 DEF Turn
  <2>10. CASE EndTurn
    BY <2>10 DEF EndTurn
  <2>11. CASE Settle
    BY <2>11 DEF Settle
  <2>12. CASE Report
    <3>1. Fingerprint \in Evidence /\ proc.verdict \in Verdict
      BY <2>12, FingerprintType DEF Report, Reporting, Telling
    <3> QED
      BY <2>12, <3>1 DEF Report
  <2> QED
    BY <1>1, <2>1, <2>2, <2>3, <2>4, <2>5, <2>6, <2>7, <2>8, <2>9, <2>10, <2>11, <2>12 DEF
       Review
<1>2. CASE Prune
  BY <1>2 DEF Prune
<1>3. CASE Kill
  BY <1>3 DEF Kill
<1>4. CASE PushCommit
  BY <1>4 DEF PushCommit
<1>5. CASE EditBody
  BY <1>5 DEF EditBody
<1>6. CASE CloseOrReopen
  BY <1>6 DEF CloseOrReopen
<1>7. CASE CheckMoves
  BY <1>7 DEF CheckMoves
<1>8. CASE UNCHANGED vars
  BY <1>8 DEF vars
<1> QED
  BY <1>1, <1>2, <1>3, <1>4, <1>5, <1>6, <1>7, <1>8 DEF Next

-----------------------------------------------------------------------------
LEMMA InitInv == Init => IInv
<1> SUFFICES ASSUME Init PROVE IInv
  OBVIOUS
<1>1. /\ pr.open = TRUE /\ pr.head = 1 /\ pr.rev \in Passing /\ pr.body \in {0, 1}
      /\ pr \in [open : {TRUE}, head : {1}, rev : Passing, body : {0, 1}]
  BY DEF Init
<1>2. PullType /\ Bounded
  <2>1. Passing \subseteq DOMAIN Revisions
    BY DEF Passing
  <2>2. checks \in [Checks -> Status] /\ other \in BOOLEAN /\ green = {} /\ incidents = 0
    BY UncheckedNotPassed DEF Init
  <2>3. pr \in [open : BOOLEAN, head : Nat \ {0}, rev : DOMAIN Revisions, body : Nat] /\ pr.body <= pr.head
    <3>1. pr = [open |-> pr.open, head |-> pr.head, rev |-> pr.rev, body |-> pr.body]
      BY <1>1
    <3>2. pr.body \in Nat /\ pr.body <= pr.head /\ pr.head \in Nat \ {0}
      <4>1. pr.head = 1 /\ pr.body \in {0, 1}
        BY <1>1
      <4> QED
        BY <4>1
    <3>3. pr.open \in BOOLEAN
      <4>1. pr.open = TRUE
        BY <1>1
      <4> QED
        BY <4>1
    <3>4. pr.rev \in DOMAIN Revisions
      BY <1>1, <2>1
    <3> QED
      BY <3>1, <3>2, <3>3, <3>4
  <2> QED
    BY <1>1, <2>2, <2>3, BoundsAssumption DEF PullType, Bounded
<1>3. DOMAIN manifests = {} /\ threads = <<>> /\ Len(threads) = 0
  BY DEF Init
<1>4. ThreadType
  BY <1>3 DEF ThreadType
<1>5. proc.at = "idle" /\ proc.view = "unread" /\ proc = Idle
  BY DEF Init, Idle
<1>6. ProcType
  BY <1>1, <1>3, <1>5 DEF ProcType, Idle, Steps, View
<1>7. SavedType /\ VerdictType /\ Paired /\ Kept
  BY <1>3 DEF Init, SavedType, VerdictType, Paired, Kept
<1>8. Reviewed /\ Gated /\ Working /\ Telling
  BY <1>5 DEF Reviewed, Gated, Working, Telling, Spending
<1>9. Greened
  <2>1. ~Passed(checks)
    BY UncheckedNotPassed DEF Init
  <2> QED
    BY <1>5, <2>1 DEF Greened
<1> QED
  BY <1>2, <1>4, <1>6, <1>7, <1>8, <1>9, TypeParts DEF IInv, Threading, Reporting

LEMMA StepInv == IInv /\ [Next]_vars => IInv'
<1> SUFFICES ASSUME IInv, [Next]_vars PROVE IInv'
  OBVIOUS
<1>1. /\ PullType /\ ProcType /\ SavedType /\ ThreadType /\ VerdictType
      /\ Bounded /\ Reviewed /\ Gated /\ Greened /\ Threading /\ Reporting
  BY TypeParts DEF IInv
<1>2. (PullType /\ Bounded)' /\ ThreadType' /\ ProcType' /\ SavedType' /\ VerdictType'
  BY <1>1, PullStep, ThreadStep, ProcStep, SavedStep, VerdictStep
<1>3. TypeOK'
  BY <1>2 DEF TypeOK, PullType, ProcType, SavedType, ThreadType, VerdictType
<1>4. (Reviewed /\ Gated)' /\ Greened'
  BY <1>1, ReviewedStep, GreenStep
<1>5. Threading' /\ Reporting'
  BY <1>1, PairedStep, WorkingStep, KeptStep, TellingStep DEF Threading, Reporting
<1> QED
  BY <1>2, <1>3, <1>4, <1>5 DEF IInv

(* Every reachable state of a review satisfies the inductive invariant. *)
THEOREM Invariant == Spec => []IInv
<1>1. Init => IInv
  BY InitInv
<1>2. IInv /\ [Next]_vars => IInv'
  BY StepInv
<1> QED
  BY <1>1, <1>2, PTL DEF Spec

(* The pull request, the review, the manifests and the threads keep their types. *)
THEOREM TypeCorrect == Spec => []TypeOK
<1>1. IInv => TypeOK
  BY DEF IInv
<1> QED
  BY <1>1, Invariant, PTL

(* runArchitectureReview(): whoever re-runs a review, and wherever an earlier one was
   killed, the same evidence is told one verdict: a verdict is reported only of the
   completed manifest, which no later review of the evidence writes again. *)
THEOREM VerdictUnique == Spec => []OneVerdict
<1>1. IInv => OneVerdict
  <2> SUFFICES ASSUME IInv, NEW v \in verdicts, NEW w \in verdicts, v.of = w.of PROVE v = w
    BY DEF OneVerdict
  <2>1. v.says = w.says
    BY DEF IInv, Reporting, Kept
  <2>2. v = [of |-> v.of, says |-> v.says] /\ w = [of |-> w.of, says |-> w.says]
    BY DEF IInv, TypeOK
  <2> QED
    BY <2>1, <2>2
<1> QED
  BY <1>1, Invariant, PTL

(* The turns spent on an evidence are turns of one thread, also after a kill between
   the thread, the manifest and the turn: the manifest names the thread before a turn
   can leave a rollout, and nothing but the pruning of both forgets it. *)
THEOREM ThreadUnique == Spec => []OneThread
<1>1. IInv => OneThread
  BY DEF IInv, Threading, Paired, OneThread
<1> QED
  BY <1>1, Invariant, PTL

(* A model turn starts only for a revision that is traceable in its own records, with
   the preflight and the sandbox steps passed, and on a commit all of whose checks had
   passed at one moment: neither the wait, nor a push in the meantime, nor the resumption
   of an earlier review leads around the gate. *)
THEOREM GateHolds == Spec => TurnOnlyAfterGate
<1>1. IInv /\ [Next]_vars
        => [TurnStarts => proc.gate /\ proc.head \in green /\ Traceable(Base, Revisions[proc.rev])]_vars
  <2> SUFFICES ASSUME IInv, proc.at = "turn"
               PROVE  proc.gate /\ proc.head \in green /\ Traceable(Base, Revisions[proc.rev])
    BY DEF TurnStarts
  <2>1. proc.at \in Spending /\ proc.at \in Decided /\ proc.at # "idle"
    BY DEF Spending, Decided
  <2>2. proc.gate /\ proc.view = "complete"
    BY <2>1 DEF IInv, Gated
  <2>3. proc.head \in green
    BY <2>1, <2>2 DEF IInv, Greened
  <2>4. proc.rev \in Passing
    BY <2>1 DEF IInv, Reviewed
  <2> QED
    BY <2>2, <2>3, <2>4, PassingTraceable
<1> QED
  BY <1>1, Invariant, PTL DEF Spec, TurnOnlyAfterGate
=============================================================================
