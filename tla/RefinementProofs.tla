-------------------------- MODULE RefinementProofs --------------------------
(***************************************************************************)
(* Proofs about Refinement for any work items, any number of attempts,     *)
(* comments and faults.  The order of the audit trail rests on what the    *)
(* outbox holds at each moment (Kept); that a question is only answered by *)
(* what follows it rests on what waiting for people implies (Waiting) and  *)
(* on what a call was admitted by (Admitting); that a work item has one    *)
(* issue in the reach of a search rests on the order in which issues are   *)
(* numbered (Numbered) and on the search before each creation (Searched).  *)
(***************************************************************************)
EXTENDS Refinement, TLAPS, SequenceTheorems

Statuses == {"none", "new", "running", "ready", "paused", "awaiting-human"}
Operations ==
  [status : Statuses, phase : {"none", "refine", "requirements", "coordinate", "plan"},
   attempts : Nat, outbox : Seq(Nat), boundary : Nat, consumed : SUBSET Nat, read : SUBSET Nat,
   digested : BOOLEAN, session : BOOLEAN]
AtSteps == {"off", "admit", "wave", "begin", "posting", "brief", "session", "turn", "decompose", "plan",
          "complete", "children", "create", "link"}
Nexts == {"none", "end", "begin", "settle", "brief", "decompose", "plan", "complete"}
Calls ==
  [at : AtSteps, then : Nexts, route : {"none", "refine", "requirements", "coordinate", "resume"},
   comment : Nat, starts : BOOLEAN, was : Statuses, from : DOMAIN Transitions \union {"none"},
   ids : Seq(Nat), items : SUBSET Key, key : Key \union {"none"}]
Issues ==
  [type : AllTypes \union {"none"}, stage : DOMAIN Transitions, ready : AllReadiness]

Children == [Key -> [issues : SUBSET Nat, linked : BOOLEAN]]

\* The type invariant.
TypeOK ==
  /\ issue \in Issues /\ thread \in Seq(Nat)
  /\ child \in Children /\ opened \in Nat
  /\ saved \in Operations /\ call \in Calls
  /\ texts \in Nat /\ asked \subseteq 1..texts /\ faults \in Nat

\* The first comments of a thread with the text n.
Firsts(n, comments) ==
  {i \in DOMAIN comments : comments[i] = n /\ \A j \in 1..(i - 1) : comments[j] # n}
\* Of n texts, the outbox holds the last ones.  Those before it are in the thread, and so
\* may be its first one, of which no answer came; the texts of the thread never decrease.
Trail(comments, outbox, n) ==
  /\ Len(outbox) <= n /\ \A j \in 1..Len(outbox) : outbox[j] = n - Len(outbox) + j
  /\ \A m \in 1..(n - Len(outbox)) : Firsts(m, comments) # {}
  /\ \A i \in 1..Len(comments) :
       /\ comments[i] # Human => Firsts(comments[i], comments) # {}
       /\ comments[i] <= n /\ comments[i] <= n - Len(outbox) + 1
       /\ \A j \in 1..(i - 1) : comments[i] # Human => comments[j] <= comments[i]
Kept == Trail(thread, saved.outbox, texts)

\* Nothing is saved of an operation that was never delivered.
Unstarted == saved.status = "none" => saved = NoOperation /\ call = Off

\* What is posted is in the outbox, and something comes after it.
Sending == call.at = "posting" => saved.outbox # <<>> /\ call.then # "none"

\* An operation waits for people only with its whole question on the issue, before the
\* boundary, except while the question is posted.
Settling == call.at = "posting" /\ call.then = "settle"
Waiting ==
  saved.status = "awaiting-human" /\ ~Settling =>
    /\ call.at \in {"off", "admit", "begin"} /\ saved.outbox = <<>>
    /\ \A i \in Questions : i <= saved.boundary

\* Until its event is marked, a call finds the operation as it was, and its comment, if the
\* operation waits, is behind the boundary.
Admitting ==
  /\ call.at \in {"admit", "wave", "begin"} \/ (call.at = "posting" /\ call.then = "begin")
       => call.was = saved.status
  /\ call.at = "begin" /\ call.was = "awaiting-human" /\ call.comment # 0 => call.comment > saved.boundary

\* No child is newer than the newest issue, and a child that is to be created was searched
\* for: what was opened since does not bring an older one back.
Numbered == \A k \in Key : \A n \in child[k].issues : n <= opened
Searched == call.at = "create" => call.key \in Key /\ ~Found(call.key)

IInv ==
  /\ TypeOK /\ Unstarted /\ Kept /\ Sending /\ Waiting /\ Admitting
  /\ Numbered /\ Searched /\ OneChildPerKey
-----------------------------------------------------------------------------

(* A comment added to a thread leaves the first comments with each text, and is itself the
   first one of a text that was not there. *)
LEMMA FirstsStay ==
  ASSUME NEW c \in Seq(Nat), NEW x \in Nat
  PROVE  /\ Append(c, x) \in Seq(Nat) /\ Len(Append(c, x)) = Len(c) + 1 /\ Len(c) \in Nat
         /\ \A i \in 1..Len(c) : Append(c, x)[i] = c[i]
         /\ Append(c, x)[Len(c) + 1] = x
         /\ \A m : Firsts(m, c) # {} => Firsts(m, Append(c, x)) # {}
         /\ (\A i \in 1..Len(c) : c[i] # Human => Firsts(c[i], c) # {}) /\ x # Human
              => Firsts(x, Append(c, x)) # {}
<1> DEFINE d == Append(c, x)
<1>1. d \in Seq(Nat) /\ Len(d) = Len(c) + 1 /\ Len(c) \in Nat /\ DOMAIN d = 1..Len(d) /\ DOMAIN c = 1..Len(c)
  BY AppendProperties, LenProperties
<1>2. (\A i \in 1..Len(c) : d[i] = c[i]) /\ d[Len(c) + 1] = x
  BY AppendProperties
<1> HIDE DEF d
<1>3. ASSUME NEW m, Firsts(m, c) # {} PROVE Firsts(m, d) # {}
  <2>1. PICK i \in 1..Len(c) : c[i] = m /\ \A j \in 1..(i - 1) : c[j] # m
    BY <1>1, <1>3 DEF Firsts
  <2>2. i \in 1..Len(d) /\ d[i] = m /\ \A j \in 1..(i - 1) : j \in 1..Len(c) /\ d[j] = c[j]
    BY <1>1, <1>2, <2>1
  <2>3. i \in Firsts(m, d)
    BY <1>1, <2>1, <2>2 DEF Firsts
  <2> QED
    BY <2>3
<1>4. ASSUME \A i \in 1..Len(c) : c[i] # Human => Firsts(c[i], c) # {}, x # Human
      PROVE  Firsts(x, d) # {}
  <2>1. CASE \E i \in 1..Len(c) : c[i] = x
    BY <1>3, <1>4, <2>1
  <2>2. CASE \A i \in 1..Len(c) : c[i] # x
    <3>1. Len(c) + 1 \in 1..Len(d) /\ d[Len(c) + 1] = x
      BY <1>1, <1>2
    <3>2. \A j \in 1..((Len(c) + 1) - 1) : d[j] # x
      BY <1>1, <1>2, <2>2
    <3>3. Len(c) + 1 \in Firsts(x, d)
      BY <1>1, <3>1, <3>2 DEF Firsts
    <3> QED
      BY <3>3
  <2> QED
    BY <2>1, <2>2
<1>5. \A m : Firsts(m, c) # {} => Firsts(m, d) # {}
  BY <1>3
<1>6. (\A i \in 1..Len(c) : c[i] # Human => Firsts(c[i], c) # {}) /\ x # Human => Firsts(x, d) # {}
  BY <1>4
<1> QED
  BY <1>1, <1>2, <1>5, <1>6 DEF d

(* A human comment leaves the trail as it is. *)
LEMMA TrailWritten ==
  ASSUME NEW c \in Seq(Nat), NEW outbox \in Seq(Nat), NEW n \in Nat, Trail(c, outbox, n)
  PROVE  Trail(Append(c, Human), outbox, n)
<1> DEFINE d == Append(c, Human)
<1>1. /\ Len(d) = Len(c) + 1 /\ Len(c) \in Nat /\ Len(outbox) \in Nat /\ Human \in Nat
      /\ \A i \in 1..Len(c) : d[i] = c[i] /\ c[i] \in Nat
      /\ d[Len(c) + 1] = Human
      /\ \A m : Firsts(m, c) # {} => Firsts(m, d) # {}
  BY FirstsStay, LenProperties, ElementOfSeq DEF Human
<1> HIDE DEF d
<1>2. \A m \in 1..(n - Len(outbox)) : Firsts(m, d) # {}
  BY <1>1 DEF Trail
<1>3. Len(outbox) <= n /\ \A j \in 1..Len(outbox) : outbox[j] = n - Len(outbox) + j
  BY DEF Trail
<1>4. ASSUME NEW i \in 1..Len(d)
      PROVE  /\ d[i] # Human => Firsts(d[i], d) # {}
             /\ d[i] <= n /\ d[i] <= n - Len(outbox) + 1
             /\ \A j \in 1..(i - 1) : d[i] # Human => d[j] <= d[i]
  <2>1. CASE i \in 1..Len(c)
    <3>1. /\ c[i] # Human => Firsts(c[i], c) # {}
          /\ c[i] <= n /\ c[i] <= n - Len(outbox) + 1
          /\ \A j \in 1..(i - 1) : c[i] # Human => c[j] <= c[i]
      BY <2>1 DEF Trail
    <3>2. \A j \in 1..(i - 1) : j \in 1..Len(c)
      BY <1>1, <2>1
    <3> QED
      BY <1>1, <2>1, <3>1, <3>2
  <2>2. CASE i = Len(c) + 1
    BY <1>1, <1>3, <2>2 DEF Human
  <2> QED
    BY <1>1, <2>1, <2>2
<1>5. Trail(d, outbox, n)
  BY <1>2, <1>3, <1>4 DEF Trail
<1> QED
  BY <1>5 DEF d

(* The first text of the outbox may be posted, and then leave the outbox or not. *)
LEMMA TrailPosted ==
  ASSUME NEW c \in Seq(Nat), NEW outbox \in Seq(Nat), NEW n \in Nat, Trail(c, outbox, n), outbox # <<>>
  PROVE  /\ Trail(Append(c, outbox[1]), outbox, n)
         /\ Trail(Append(c, outbox[1]), Tail(outbox), n)
<1> DEFINE x == outbox[1]
           d == Append(c, x)
           l == Len(outbox)
<1>1. l \in Nat /\ l > 0 /\ x \in Nat
  BY EmptySeq, LenProperties, ElementOfSeq
<1>2. l <= n /\ \A j \in 1..l : outbox[j] = n - l + j
  BY DEF Trail
<1>3. x = n - l + 1 /\ x # Human
  BY <1>1, <1>2 DEF Human
<1>4. Len(Tail(outbox)) = l - 1 /\ \A j \in 1..(l - 1) : Tail(outbox)[j] = outbox[j + 1]
  BY <1>1, HeadTailProperties, EmptySeq
<1>5. \A i \in 1..Len(c) : c[i] # Human => Firsts(c[i], c) # {}
  BY DEF Trail
<1>6. /\ Len(d) = Len(c) + 1 /\ Len(c) \in Nat
      /\ \A i \in 1..Len(c) : d[i] = c[i] /\ c[i] \in Nat
      /\ d[Len(c) + 1] = x
      /\ \A m : Firsts(m, c) # {} => Firsts(m, d) # {}
      /\ Firsts(x, d) # {}
  BY <1>1, <1>3, <1>5, FirstsStay, LenProperties, ElementOfSeq
<1>7. \A i \in 1..Len(c) : /\ c[i] <= n /\ c[i] <= n - l + 1
                           /\ \A j \in 1..(i - 1) : c[i] # Human => c[j] <= c[i]
  BY DEF Trail
<1>8. \A m \in 1..(n - l) : Firsts(m, d) # {}
  BY <1>6 DEF Trail
<1> HIDE DEF x, d, l
<1>9. \A m \in 1..(n - (l - 1)) : Firsts(m, d) # {}
  <2>1. ASSUME NEW m \in 1..(n - (l - 1)) PROVE m \in 1..(n - l) \/ m = x
    BY <1>1, <1>3
  <2> QED
    BY <1>6, <1>8, <2>1
<1>10. ASSUME NEW i \in 1..Len(d)
       PROVE  /\ d[i] # Human => Firsts(d[i], d) # {}
              /\ d[i] <= n /\ d[i] <= n - l + 1 /\ d[i] <= n - (l - 1) + 1
              /\ \A j \in 1..(i - 1) : d[i] # Human => d[j] <= d[i]
  <2>1. CASE i \in 1..Len(c)
    <3>1. \A j \in 1..(i - 1) : j \in 1..Len(c)
      BY <1>6, <2>1
    <3>2. d[i] = c[i] /\ c[i] \in Nat
      BY <1>6, <2>1
    <3>3. d[i] # Human => Firsts(d[i], d) # {}
      BY <1>5, <1>6, <2>1, <3>2
    <3>4. d[i] <= n /\ d[i] <= n - l + 1 /\ d[i] <= n - (l - 1) + 1
      BY <1>1, <1>7, <2>1, <3>2
    <3>5. \A j \in 1..(i - 1) : d[i] # Human => d[j] <= d[i]
      BY <1>6, <1>7, <2>1, <3>1, <3>2
    <3> QED
      BY <3>3, <3>4, <3>5
  <2>2. CASE i = Len(c) + 1
    <3>1. \A j \in 1..(i - 1) : j \in 1..Len(c)
      BY <1>6, <2>2
    <3> QED
      BY <1>1, <1>2, <1>3, <1>6, <1>7, <2>2, <3>1
  <2> QED
    BY <1>6, <2>1, <2>2
<1>11. Trail(d, outbox, n)
  BY <1>1, <1>2, <1>8, <1>10 DEF Trail, l
<1>12. Trail(d, Tail(outbox), n)
  <2>1. \A j \in 1..(l - 1) : Tail(outbox)[j] = n - (l - 1) + j
    <3> SUFFICES ASSUME NEW j \in 1..(l - 1) PROVE Tail(outbox)[j] = n - (l - 1) + j
      OBVIOUS
    <3>1. j + 1 \in 1..l
      BY <1>1
    <3> QED
      BY <1>1, <1>2, <1>4, <3>1 DEF l
  <2>2. Len(Tail(outbox)) = l - 1 /\ l - 1 <= n
    BY <1>1, <1>2, <1>4 DEF l
  <2> QED
    BY <1>1, <1>9, <1>10, <2>1, <2>2 DEF Trail
<1> QED
  BY <1>11, <1>12 DEF d, x

(* New texts enter the outbox behind those that are in it. *)
LEMMA TrailNoted ==
  ASSUME NEW c \in Seq(Nat), NEW outbox \in Seq(Nat), NEW n \in Nat, NEW k \in Nat, Trail(c, outbox, n)
  PROVE  LET more == outbox \o [i \in 1..k |-> n + i] IN
         more \in Seq(Nat) /\ Len(more) = Len(outbox) + k /\ Trail(c, more, n + k)
<1> DEFINE new == [i \in 1..k |-> n + i]
           more == outbox \o new
           l == Len(outbox)
<1>1. new \in Seq(Nat) /\ Len(new) = k /\ \A i \in 1..k : new[i] = n + i
  <2>1. new \in [1..k -> Nat]
    OBVIOUS
  <2>2. new \in Seq(Nat)
    BY <2>1, SeqDef
  <2> QED
    BY <2>1, <2>2, LenProperties
<1> HIDE DEF new
<1>2. more \in Seq(Nat) /\ Len(more) = l + k /\ l \in Nat
  BY <1>1, ConcatProperties, LenProperties
<1>3. \A i \in 1..(l + k) : more[i] = IF i <= l THEN outbox[i] ELSE new[i - l]
  BY <1>1, ConcatProperties
<1>4. l <= n /\ \A j \in 1..l : outbox[j] = n - l + j
  BY DEF Trail
<1> HIDE DEF more, l
<1>5. \A j \in 1..(l + k) : more[j] = (n + k) - (l + k) + j
  <2> SUFFICES ASSUME NEW j \in 1..(l + k) PROVE more[j] = (n + k) - (l + k) + j
    OBVIOUS
  <2>1. CASE j <= l
    <3>1. j \in 1..l
      BY <1>2, <2>1
    <3>2. more[j] = n - l + j
      BY <1>3, <1>4, <2>1, <3>1
    <3>3. (n + k) - (l + k) + j = n - l + j
      BY <1>2
    <3> QED
      BY <3>2, <3>3
  <2>2. CASE ~(j <= l)
    <3>1. j - l \in 1..k
      BY <1>2, <2>2
    <3> QED
      BY <1>1, <1>2, <1>3, <2>2, <3>1
  <2> QED
    BY <2>1, <2>2
<1>6. (n + k) - (l + k) = n - l /\ l + k <= n + k
  BY <1>2, <1>4
<1>7. \A i \in 1..Len(c) : c[i] <= n /\ c[i] \in Nat
  BY ElementOfSeq, LenProperties DEF Trail
<1>8. Trail(c, more, n + k)
  <2>1. \A m \in 1..((n + k) - (l + k)) : Firsts(m, c) # {}
    BY <1>6 DEF Trail, l
  <2>2. ASSUME NEW i \in 1..Len(c)
        PROVE  /\ c[i] # Human => Firsts(c[i], c) # {}
               /\ c[i] <= n + k /\ c[i] <= (n + k) - (l + k) + 1
               /\ \A j \in 1..(i - 1) : c[i] # Human => c[j] <= c[i]
    <3>1. /\ c[i] # Human => Firsts(c[i], c) # {}
          /\ c[i] <= n - l + 1
          /\ \A j \in 1..(i - 1) : c[i] # Human => c[j] <= c[i]
      BY DEF Trail, l
    <3>2. c[i] <= n + k
      BY <1>7
    <3> QED
      BY <1>6, <3>1, <3>2
  <2> QED
    BY <1>2, <1>5, <1>6, <2>1, <2>2 DEF Trail
<1> QED
  BY <1>2, <1>8 DEF more, new, l

(* What the trail says of the texts, as the property has it. *)
LEMMA TrailOrdered ==
  ASSUME thread \in Seq(Nat), saved.outbox \in Seq(Nat), texts \in Nat, Kept
  PROVE  AuditKeptInOrder
<1> DEFINE l == Len(saved.outbox)
<1>1. /\ l \in Nat /\ l <= texts /\ DOMAIN saved.outbox = 1..l
      /\ \A j \in 1..l : saved.outbox[j] = texts - l + j
      /\ DOMAIN thread = 1..Len(thread) /\ Len(thread) \in Nat /\ \A i \in 1..Len(thread) : thread[i] \in Nat
  BY LenProperties, ElementOfSeq DEF Kept, Trail
<1>2. \A n : First(n) = Firsts(n, thread)
  BY DEF First, Firsts
<1>3. \A m \in 1..(texts - l) : First(m) # {}
  BY <1>2 DEF Kept, Trail
<1>4. \A i \in 1..Len(thread) :
        /\ thread[i] # Human => First(thread[i]) # {}
        /\ thread[i] <= texts - l + 1
        /\ \A j \in 1..(i - 1) : thread[i] # Human => thread[j] <= thread[i]
  BY <1>2 DEF Kept, Trail
<1>5. \A n : \A i \in First(n) : i \in 1..Len(thread) /\ thread[i] = n
  BY <1>1 DEF First
<1> HIDE DEF l
<1>6. ASSUME NEW n \in 1..texts, First(n) = {} PROVE n > texts - l
  BY <1>1, <1>3, <1>6
<1>7. ASSUME NEW n \in 1..texts PROVE First(n) # {} \/ \E j \in DOMAIN saved.outbox : saved.outbox[j] = n
  <2> SUFFICES ASSUME First(n) = {} PROVE \E j \in 1..l : saved.outbox[j] = n
    BY <1>1
  <2>1. n - (texts - l) \in 1..l
    <3>1. n > texts - l /\ n \in Nat /\ n <= texts
      BY <1>6
    <3>2. l \in Nat /\ l <= texts /\ texts \in Nat
      BY <1>1
    <3> QED
      BY <3>1, <3>2
  <2>2. saved.outbox[n - (texts - l)] = n
    BY <1>1, <2>1
  <2> QED
    BY <2>1, <2>2
<1>8. \A i, j \in DOMAIN saved.outbox : i < j => saved.outbox[i] < saved.outbox[j]
  <2>1. l \in Nat /\ texts \in Nat /\ DOMAIN saved.outbox = 1..l
    BY <1>1
  <2>2. \A j \in 1..l : saved.outbox[j] = texts - l + j
    BY <1>1
  <2> QED
    BY <2>1, <2>2
<1>9. ASSUME NEW m \in 1..texts, NEW n \in 1..texts, m < n, NEW i \in First(m), NEW j \in First(n)
      PROVE  i < j
  <2>1. i \in 1..Len(thread) /\ thread[i] = m /\ j \in 1..Len(thread) /\ thread[j] = n
    BY <1>5
  <2>2. i # j
    BY <1>9, <2>1
  <2>3. ~(j < i)
    <3> SUFFICES ASSUME j < i PROVE FALSE
      OBVIOUS
    <3>1. j \in 1..(i - 1) /\ thread[i] # Human
      BY <1>1, <2>1 DEF Human
    <3>2. thread[j] <= thread[i]
      BY <1>4, <2>1, <3>1
    <3> QED
      BY <1>9, <2>1, <3>2
  <2> QED
    BY <1>1, <2>1, <2>2, <2>3
<1>10. ASSUME NEW n \in 1..texts, First(n) = {}, NEW m \in (n + 1)..texts PROVE First(m) = {}
  <2> SUFFICES ASSUME NEW i \in First(m) PROVE FALSE
    OBVIOUS
  <2>1. i \in 1..Len(thread) /\ thread[i] = m
    BY <1>5
  <2>2. m <= texts - l + 1 /\ n > texts - l /\ m > n
    BY <1>4, <1>6, <1>10, <2>1
  <2> QED
    BY <1>1, <2>2
<1> QED
  BY <1>7, <1>8, <1>9, <1>10 DEF AuditKeptInOrder

-----------------------------------------------------------------------------
(* What the shared parts of the steps do. *)

(* audit(): the texts are behind the others in the outbox, and are posted next. *)
Noted(state, n) ==
  /\ n \in Nat /\ n > 0 /\ texts' = texts + n
  /\ saved'.outbox = state.outbox \o [i \in 1..n |-> texts + i] /\ saved'.outbox # <<>>
LEMMA Audited ==
  ASSUME texts \in Nat, NEW c \in Calls, NEW state \in Operations, NEW n \in Nat, n > 0, NEW next \in Nexts,
         Audit(c, state, n, next)
  PROVE  /\ saved' \in Operations /\ call' \in Calls /\ Noted(state, n)
         /\ saved'.status = state.status /\ saved'.boundary = state.boundary
         /\ saved'.consumed = state.consumed
         /\ call'.at = "posting" /\ call'.then = next /\ call'.was = c.was
<1> DEFINE more == state.outbox \o [i \in 1..n |-> texts + i]
<1>1. [i \in 1..n |-> texts + i] \in Seq(Nat) /\ Len([i \in 1..n |-> texts + i]) = n
  <2>1. [i \in 1..n |-> texts + i] \in [1..n -> Nat]
    OBVIOUS
  <2> QED
    BY <2>1, SeqDef, LenProperties
<1>2. state.outbox \in Seq(Nat)
  BY DEF Operations
<1>3. more \in Seq(Nat) /\ Len(more) = Len(state.outbox) + n /\ Len(state.outbox) \in Nat
  BY <1>1, <1>2, ConcatProperties, LenProperties
<1>4. more # <<>>
  <2>1. Len(more) > 0
    BY <1>3
  <2> QED
    BY <2>1, EmptySeq
<1>5. saved' = [state EXCEPT !.outbox = more]
  BY DEF Audit
<1>6. call' = [c EXCEPT !.at = "posting", !.then = next, !.ids = <<>>] /\ texts' = texts + n
  BY DEF Audit
<1> HIDE DEF more
<1>7. /\ saved' \in Operations /\ saved'.outbox = more /\ saved'.status = state.status
      /\ saved'.boundary = state.boundary /\ saved'.consumed = state.consumed
  BY <1>3, <1>5 DEF Operations
<1>8. <<>> \in Seq(Nat) /\ "posting" \in AtSteps
  BY EmptySeq DEF AtSteps
<1>9. call' \in Calls /\ call'.at = "posting" /\ call'.then = next /\ call'.was = c.was
  BY <1>6, <1>8 DEF Calls
<1> QED
  BY <1>4, <1>6, <1>7, <1>9 DEF more, Noted

(* flush(): the call posts, or goes on when there is nothing to post. *)
LEMMA Flushed ==
  ASSUME NEW c \in Calls, NEW state \in Operations, NEW next \in Nexts \ {"none", "settle"}, Flush(c, state, next)
  PROVE  /\ saved' = state /\ call' \in Calls /\ UNCHANGED <<texts, asked>>
         /\ \/ /\ state.outbox # <<>> /\ call'.at = "posting" /\ call'.then = next /\ call'.was = c.was
            \/ /\ state.outbox = <<>> /\ next = "end" /\ call' = Off
            \/ /\ state.outbox = <<>> /\ next # "end" /\ call'.at = next /\ call'.was = c.was
               /\ call'.comment = c.comment
<1>1. Off \in Calls
  BY EmptySeq DEF Off, Calls, AtSteps, Nexts, Statuses
<1>2. CASE state.outbox = <<>> /\ next = "end"
  BY <1>1, <1>2 DEF Flush, Proceed
<1>3. CASE state.outbox = <<>> /\ next # "end"
  <2>1. call' = [c EXCEPT !.at = next]
    BY <1>3 DEF Flush, Proceed
  <2>2. next \in AtSteps
    BY <1>3 DEF Nexts, AtSteps
  <2>3. call' \in Calls /\ call'.at = next /\ call'.was = c.was /\ call'.comment = c.comment
    BY <2>1, <2>2 DEF Calls
  <2> QED
    BY <1>3, <2>3 DEF Flush
<1>4. CASE state.outbox # <<>>
  <2>1. call' = [c EXCEPT !.at = "posting", !.then = next, !.ids = <<>>]
    BY <1>4 DEF Flush
  <2>2. <<>> \in Seq(Nat) /\ "posting" \in AtSteps
    BY EmptySeq DEF AtSteps
  <2>3. call' \in Calls /\ call'.at = "posting" /\ call'.then = next /\ call'.was = c.was
    BY <2>1, <2>2 DEF Calls
  <2> QED
    BY <1>4, <2>3 DEF Flush
<1> QED
  BY <1>2, <1>3, <1>4

LEMMA OffType == Off \in Calls /\ Off.at = "off" /\ Off.was = "none"
BY EmptySeq DEF Off, Calls, AtSteps, Nexts, Statuses

(* The catch clause: the call ends with the operation paused, or still waiting when the
   call was not admitted; or a handoff is posted, and if it asks, the operation waits. *)
Stopped(state) ==
  /\ call' = Off /\ UNCHANGED <<texts, asked>> /\ saved'.outbox = state.outbox
  /\ \/ saved'.status = "paused"
     \/ saved'.status = "awaiting-human" /\ state.status = "awaiting-human" /\ call.at = "admit"
HandedOff(state, n) ==
  /\ Noted(state, n) /\ call'.at = "posting" /\ call'.then = "settle"
  /\ saved'.status \in {"paused", "awaiting-human"}
  /\ asked' \in {asked, asked \union (texts + 1)..(texts + n)}
LEMMA Thrown ==
  ASSUME texts \in Nat, call \in Calls, NEW state \in Operations, NEW hold \in BOOLEAN, Throw(state, hold)
  PROVE  /\ saved' \in Operations /\ call' \in Calls
         /\ saved'.boundary = state.boundary /\ saved'.consumed = state.consumed
         /\ Stopped(state) \/ \E n \in Nat : HandedOff(state, n)
<1> DEFINE asks == Asks(state, hold) /\ ~Posting
           left == [state EXCEPT !.status = IF asks THEN "awaiting-human" ELSE "paused"]
<1>1. /\ left \in Operations /\ left.boundary = state.boundary /\ left.consumed = state.consumed
      /\ left.outbox = state.outbox
  BY DEF Operations, Statuses
<1>2. left.status = IF asks THEN "awaiting-human" ELSE "paused"
  BY DEF Operations
<1>3. asks => state.status = "awaiting-human" /\ ~hold /\ ~Posting
  BY DEF Asks
<1>4. CASE hold \/ Early \/ Posting
  <2>1. saved' = left /\ call' = Off /\ UNCHANGED <<texts, asked>>
    BY <1>4 DEF Throw, End
  <2>2. left.status = "paused" \/ (left.status = "awaiting-human" /\ state.status = "awaiting-human" /\ call.at = "admit")
    BY <1>2, <1>3, <1>4 DEF Early
  <2> HIDE DEF left
  <2> QED
    BY <1>1, <2>1, <2>2, OffType DEF Stopped
<1>5. CASE ~(hold \/ Early \/ Posting)
  <2>1. PICK n \in 1..2 :
          /\ Audit(call, left, n, "settle")
          /\ asked' = IF asks THEN asked \union (texts + 1)..(texts + n) ELSE asked
    BY <1>5 DEF Throw
  <2>a. left.status \in {"paused", "awaiting-human"}
    BY <1>2
  <2> HIDE DEF left, asks
  <2>2. "settle" \in Nexts /\ n \in Nat /\ n > 0
    BY DEF Nexts
  <2>3. /\ saved' \in Operations /\ call' \in Calls /\ Noted(left, n)
        /\ saved'.boundary = left.boundary /\ saved'.consumed = left.consumed
        /\ saved'.status = left.status /\ call'.at = "posting" /\ call'.then = "settle"
    BY <1>1, <2>1, <2>2, Audited
  <2>4. Noted(state, n)
    BY <1>1, <2>3 DEF Noted
  <2> QED
    BY <1>1, <2>1, <2>2, <2>3, <2>4, <2>a DEF HandedOff
<1> QED
  BY <1>4, <1>5

(* What a step does to the thread, the outbox and the texts: nothing, a comment of
   people, a text of the outbox posted, with or without an answer, or new texts noted. *)
Sent == call.at = "posting" /\ thread' = Append(thread, saved.outbox[1])
AskedSome(n) == asked' \in {asked, asked \union (texts + 1)..(texts + n)}
Moving ==
  \/ /\ thread' \in {thread, Append(thread, Human)} \/ Sent
     /\ saved'.outbox = saved.outbox /\ UNCHANGED <<texts, asked>>
  \/ Sent /\ saved'.outbox = Tail(saved.outbox) /\ UNCHANGED <<texts, asked>>
  \/ \E n \in Nat : /\ Noted(saved, n) /\ AskedSome(n)
                    /\ thread' = thread \/ Sent
Typed == saved' \in Operations /\ call' \in Calls /\ Moving

(* The operation and the call keep their types, and the audit trail moves by one text or note. *)
LEMMA StepTypes == (TypeOK /\ Unstarted /\ Sending) /\ [Next]_vars => Typed
<1> SUFFICES ASSUME (TypeOK /\ Unstarted /\ Sending), [Next]_vars PROVE Typed
  OBVIOUS
<1>a. /\ saved \in Operations /\ call \in Calls /\ texts \in Nat /\ saved.outbox \in Seq(Nat)
      /\ Humans \subseteq Nat
  <2>1. DOMAIN thread \subseteq Nat
    BY LenProperties DEF TypeOK
  <2> QED
    BY <2>1 DEF TypeOK, Operations, Humans
<1>b. ASSUME NEW state \in Operations, NEW hold \in BOOLEAN, Throw(state, hold), UNCHANGED thread,
             state.outbox = saved.outbox
      PROVE  Typed
  <2>1. /\ saved' \in Operations /\ call' \in Calls
        /\ Stopped(state) \/ \E n \in Nat : HandedOff(state, n)
    BY <1>a, <1>b, Thrown
  <2>2. CASE Stopped(state)
    BY <1>b, <2>1, <2>2 DEF Stopped, Typed, Moving
  <2>3. CASE \E n \in Nat : HandedOff(state, n)
    BY <1>b, <2>1, <2>3 DEF HandedOff, Noted, AskedSome, Typed, Moving
  <2> QED
    BY <2>1, <2>2, <2>3
<1>c. ASSUME NEW c \in Calls, NEW state \in Operations, NEW next \in Nexts \ {"none", "settle"},
             Flush(c, state, next), UNCHANGED thread, state.outbox = saved.outbox
      PROVE  Typed
  <2>1. saved' = state /\ call' \in Calls /\ UNCHANGED <<texts, asked>>
    BY <1>c, Flushed
  <2> QED
    BY <1>c, <2>1 DEF Typed, Moving
<1>d. ASSUME NEW c \in Calls, NEW state \in Operations, NEW next \in Nexts, NEW n \in {1},
             Audit(c, state, n, next), UNCHANGED <<thread, asked>>, state.outbox = saved.outbox
      PROVE  Typed
  <2>1. saved' \in Operations /\ call' \in Calls /\ Noted(state, n) /\ n \in Nat
    BY <1>a, <1>d, Audited
  <2> QED
    BY <1>d, <2>1 DEF Typed, Moving, AskedSome, Noted
<1>e. ASSUME saved' \in Operations, saved'.outbox = saved.outbox, call' \in Calls, UNCHANGED <<thread, texts, asked>>
      PROVE  Typed
  BY <1>e DEF Typed, Moving
<1>f. \A step \in AtSteps : [call EXCEPT !.at = step] \in Calls
  BY <1>a DEF Calls
<1>g. /\ {"wave", "begin", "session", "turn", "children", "create", "link", "off"} \subseteq AtSteps
      /\ {"end", "begin", "brief", "decompose", "plan", "complete"} \subseteq Nexts \ {"none", "settle"}
  BY DEF AtSteps, Nexts
<1>h. \A status \in Statuses :
        /\ [saved EXCEPT !.status = status] \in Operations
        /\ [saved EXCEPT !.status = status].outbox = saved.outbox
  BY <1>a DEF Operations
<1>i. {"ready", "paused", "running", "awaiting-human", "new"} \subseteq Statuses
  BY DEF Statuses
<1>j. {TRUE, FALSE} \subseteq BOOLEAN
  OBVIOUS
<1>1. CASE Controller
  <2>1. CASE Deliver
    <3>1. PICK route \in {"refine", "requirements", "coordinate", "resume"}, c \in Humans \union {0} :
            /\ saved.status = "none" => c = 0 /\ route # "resume"
            /\ LET found == IF saved.status = "none" THEN Fresh(route) ELSE saved
               IN  /\ saved' = [found EXCEPT !.attempts = @ + 1]
                   /\ call' = [Off EXCEPT !.at = "admit", !.route = route, !.comment = c, !.was = found.status,
                                 !.starts = \/ saved.status = "none"
                                            \/ /\ saved.status = "paused" /\ saved.phase = "requirements"
                                               /\ ~saved.session /\ ~saved.digested]
      BY <2>1 DEF Deliver
    <3> DEFINE found == IF saved.status = "none" THEN Fresh(route) ELSE saved
                starts == \/ saved.status = "none"
                          \/ /\ saved.status = "paused" /\ saved.phase = "requirements"
                             /\ ~saved.session /\ ~saved.digested
    <3>2. starts \in BOOLEAN
      OBVIOUS
    <3>3. found \in Operations /\ found.outbox = saved.outbox
      <4>1. CASE saved.status = "none"
        <5>1. saved = NoOperation
          BY <4>1 DEF Unstarted
        <5>2. route \in {"refine", "requirements", "coordinate"}
          BY <3>1, <4>1
        <5>3. NoOperation \in Operations /\ NoOperation.outbox = <<>>
          BY <5>1, <1>a, EmptySeq DEF NoOperation
        <5>4. Fresh(route) \in Operations /\ Fresh(route).outbox = NoOperation.outbox
          BY <5>2, <5>3, <1>i DEF Operations, Fresh
        <5> QED
          BY <4>1, <5>1, <5>4
      <4> QED
        BY <4>1, <1>a
    <3>4. saved' = [found EXCEPT !.attempts = @ + 1]
      BY <3>1
    <3>5. call' = [Off EXCEPT !.at = "admit", !.route = route, !.comment = c, !.was = found.status,
                          !.starts = starts]
      BY <3>1
    <3> HIDE DEF found, starts
    <3>6. saved' \in Operations /\ saved'.outbox = saved.outbox
      BY <3>3, <3>4 DEF Operations
    <3>7. found.status \in Statuses /\ c \in Nat
      BY <3>3, <1>a DEF Operations
    <3>8. call' = [at |-> "admit", then |-> "none", route |-> route, comment |-> c, starts |-> starts,
                  was |-> found.status, from |-> "none", ids |-> <<>>, items |-> {}, key |-> "none"]
      BY <3>5 DEF Off
    <3>9. call' \in Calls
      BY <3>2, <3>7, <3>8, EmptySeq DEF Calls, AtSteps, Nexts
    <3> QED
      BY <2>1, <3>6, <3>9, <1>e DEF Deliver
  <2>2. CASE Admit
    <3> DEFINE read == [call EXCEPT !.from = issue.stage]
    <3>1. read \in Calls /\ UNCHANGED thread
      BY <2>2, <1>a DEF Admit, TypeOK, Issues, Calls
    <3>2. CASE Flush(read, saved, "end") \/ Flush(read, saved, "begin")
      BY <3>1, <3>2, <1>a, <1>c, <1>g
    <3>3. CASE Throw(saved, FALSE)
      BY <3>1, <3>3, <1>a, <1>b
    <3>4. CASE (Goto("wave") \/ End) /\ UNCHANGED <<saved, texts, asked>>
      BY <3>1, <3>4, <1>a, <1>e, <1>f, <1>g, OffType DEF Goto, End
    <3> QED
      BY <2>2, <3>2, <3>3, <3>4 DEF Admit
  <2>3. CASE RefinementWave
    <3>1. [saved EXCEPT !.phase = "refine"] \in Operations /\ [saved EXCEPT !.phase = "refine"].outbox = saved.outbox
      BY <1>a DEF Operations
    <3>2. UNCHANGED thread
      BY <2>3 DEF RefinementWave
    <3>3. CASE Throw(saved, FALSE)
      BY <3>2, <3>3, <1>a, <1>b
    <3>4. CASE Flush(call, [saved EXCEPT !.phase = "refine"], "begin")
      BY <3>1, <3>2, <3>4, <1>a, <1>c, <1>g
    <3> QED
      BY <2>3, <3>3, <3>4 DEF RefinementWave
  <2>4. CASE Begin
    <3> DEFINE running == [saved EXCEPT !.status = "running", !.consumed = @ \union ({call.comment} \ {0})]
    <3>1. UNCHANGED <<thread, asked>>
      BY <2>4 DEF Begin
    <3>2. CASE saved' = [saved EXCEPT !.status = "ready"] /\ End /\ UNCHANGED texts
      BY <3>1, <3>2, <1>e, <1>h, <1>i, OffType DEF End
    <3>3. CASE Audit(Admitted, running, 1, "brief")
      <4>1. Admitted \in Calls
        BY <1>a DEF Admitted, Calls, Statuses
      <4>2. running \in Operations /\ running.outbox = saved.outbox
        BY <1>a, <1>i DEF Operations, Calls
      <4> HIDE DEF running
      <4> QED
        BY <3>1, <3>3, <4>1, <4>2, <1>d, <1>g
    <3> QED
      BY <2>4, <3>2, <3>3 DEF Begin
  <2>5. CASE Post
    <3> DEFINE ids  == Append(call.ids, Len(thread) + 1)
                rest == [saved EXCEPT !.outbox = Tail(@)]
                done == IF call.then = "settle" /\ rest.status = "awaiting-human"
                        THEN [rest EXCEPT !.boundary = Boundary(ids)] ELSE rest
    <3>1. ids \in Seq(Nat) /\ Boundary(ids) = Len(thread) + 1 /\ Len(thread) + 1 \in Nat
      <4>1. Len(thread) + 1 \in Nat /\ call.ids \in Seq(Nat)
        BY <1>a, LenProperties DEF TypeOK, Calls
      <4>2. ids \in Seq(Nat) /\ Len(ids) = Len(call.ids) + 1 /\ ids[Len(call.ids) + 1] = Len(thread) + 1
        BY <4>1, AppendProperties
      <4> QED
        BY <4>1, <4>2 DEF Boundary
    <3>2. call.at = "posting" /\ saved.outbox # <<>>
      BY <2>5 DEF Post, Sending
    <3>3. rest \in Operations /\ rest.outbox = Tail(saved.outbox)
      BY <3>2, <1>a, HeadTailProperties DEF Operations
    <3>4. done \in Operations /\ done.outbox = Tail(saved.outbox)
      <4> HIDE DEF ids, rest
      <4> QED
        BY <3>1, <3>3 DEF Operations
    <3>5. [call EXCEPT !.ids = ids] \in Calls
      BY <3>1, <1>a DEF Calls
    <3>6. CASE /\ thread' = Append(thread, saved.outbox[1])
               /\ IF rest.outbox # <<>> THEN saved' = rest /\ call' = [call EXCEPT !.ids = ids]
                  ELSE saved' = done /\ call' = IF call.then = "settle" THEN Off ELSE Proceed(call, call.then)
               /\ UNCHANGED <<texts, asked, faults>>
      <4>1. saved' \in {rest, done}
        BY <3>6
      <4>2. saved' \in Operations /\ saved'.outbox = Tail(saved.outbox)
        BY <3>3, <3>4, <4>1
      <4>3. call' \in {[call EXCEPT !.ids = ids], Off} \/ (call.then # "settle" /\ call' = Proceed(call, call.then))
        BY <3>6
      <4>4. call.then # "settle" => Proceed(call, call.then) \in Calls
        <5>1. call.then \in Nexts /\ call.then # "none"
          BY <3>2, <1>a DEF Calls, Sending
        <5>2. call.then # "settle" /\ call.then # "end" => call.then \in AtSteps
          BY <5>1 DEF Nexts, AtSteps
        <5> QED
          BY <5>2, <1>f, OffType DEF Proceed
      <4>5. call' \in Calls
        BY <3>5, <4>3, <4>4, OffType
      <4> HIDE DEF ids, rest, done
      <4> QED
        BY <3>2, <3>6, <4>2, <4>5 DEF Typed, Moving, Sent
    <3>7. CASE /\ thread' \in {thread, Append(thread, saved.outbox[1])}
               /\ \E hold \in BOOLEAN : Throw([saved EXCEPT !.outbox = Unanswered(@)], hold)
      <4>1. [saved EXCEPT !.outbox = Unanswered(@)] = saved
        BY <1>a DEF Operations, Unanswered
      <4>2. PICK hold \in BOOLEAN : Throw(saved, hold)
        BY <3>7, <4>1
      <4>3. /\ saved' \in Operations /\ call' \in Calls
            /\ Stopped(saved) \/ \E n \in Nat : HandedOff(saved, n)
        BY <4>2, <1>a, Thrown
      <4>4. thread' = thread \/ Sent
        BY <3>2, <3>7 DEF Sent
      <4>5. CASE Stopped(saved)
        BY <4>3, <4>4, <4>5 DEF Stopped, Typed, Moving
      <4>6. CASE \E n \in Nat : HandedOff(saved, n)
        BY <4>3, <4>4, <4>6 DEF HandedOff, AskedSome, Typed, Moving
      <4> QED
        BY <4>3, <4>5, <4>6
    <3> QED
      BY <2>5, <3>6, <3>7 DEF Post
  <2>6. CASE ReadBrief
    <3>1. [saved EXCEPT !.read = Humans, !.digested = TRUE] \in Operations
      BY <1>a, <1>j DEF Operations
    <3>2. [saved EXCEPT !.read = Humans, !.digested = TRUE].outbox = saved.outbox
      BY <1>a DEF Operations
    <3>3. UNCHANGED thread
      BY <2>6 DEF ReadBrief
    <3>4. CASE Throw(saved, TRUE)
      BY <3>3, <3>4, <1>a, <1>b
    <3>5. CASE /\ saved' = [saved EXCEPT !.read = Humans, !.digested = TRUE] /\ Goto("session")
               /\ UNCHANGED <<texts, asked>>
      BY <3>1, <3>2, <3>3, <3>5, <1>e, <1>f, <1>g DEF Goto
    <3> QED
      BY <2>6, <3>4, <3>5 DEF ReadBrief
  <2>7. CASE Session
    <3>1. [saved EXCEPT !.session = TRUE] \in Operations /\ [saved EXCEPT !.session = TRUE].outbox = saved.outbox
      BY <1>a, <1>j DEF Operations
    <3>2. [call EXCEPT !.at = "turn", !.comment = 0, !.starts = FALSE] \in Calls
      BY <1>a, <1>g, <1>j DEF Calls
    <3>3. UNCHANGED thread
      BY <2>7 DEF Session
    <3>4. CASE Throw(saved, FALSE)
      BY <3>3, <3>4, <1>a, <1>b
    <3>5. CASE /\ saved' = [saved EXCEPT !.session = TRUE]
               /\ call' = [call EXCEPT !.at = "turn", !.comment = 0, !.starts = FALSE]
               /\ UNCHANGED <<texts, asked>>
      BY <3>1, <3>2, <3>3, <3>5, <1>e
    <3> QED
      BY <2>7, <3>4, <3>5 DEF Session
  <2>8. CASE Ask
    <3>1. Throw([saved EXCEPT !.status = "awaiting-human"], FALSE) /\ UNCHANGED thread
      BY <2>8 DEF Ask, Question
    <3> QED
      BY <3>1, <1>b, <1>h, <1>i
  <2>9. CASE Blocked
    <3>1. Throw([saved EXCEPT !.status = "paused"], FALSE) /\ UNCHANGED thread
      BY <2>9 DEF Blocked, Question
    <3> QED
      BY <3>1, <1>b, <1>h, <1>i
  <2>10. CASE Refined
    <3>1. UNCHANGED thread
      BY <2>10 DEF Refined
    <3>2. CASE Throw(saved, FALSE)
      BY <3>1, <3>2, <1>a, <1>b
    <3>3. CASE \E items \in WorkItems :
                 /\ Audit([call EXCEPT !.items = items], saved, 1,
                          IF Cardinality(items) > 1 THEN "decompose" ELSE "plan")
                 /\ UNCHANGED asked
      <4>1. PICK items \in WorkItems, next \in {"decompose", "plan"} :
              Audit([call EXCEPT !.items = items], saved, 1, next) /\ UNCHANGED asked
        BY <3>3
      <4>2. [call EXCEPT !.items = items] \in Calls
        BY <1>a DEF Calls, WorkItems
      <4> QED
        BY <3>1, <4>1, <4>2, <1>a, <1>d, <1>g
    <3> QED
      BY <2>10, <3>2, <3>3 DEF Refined
  <2>11. CASE Specialized
    <3>1. UNCHANGED thread
      BY <2>11 DEF Specialized
    <3>2. CASE Throw(saved, FALSE)
      BY <3>1, <3>2, <1>a, <1>b
    <3>3. CASE Audit(call, saved, 1, "complete") /\ UNCHANGED asked
      BY <3>1, <3>3, <1>a, <1>d, <1>g
    <3> QED
      BY <2>11, <3>2, <3>3 DEF Specialized
  <2>12. CASE Complete
    <3>1. saved' = [saved EXCEPT !.status = "ready"] /\ call' = Off /\ UNCHANGED <<thread, texts, asked>>
      BY <2>12 DEF Complete, End
    <3> QED
      BY <3>1, <1>e, <1>h, <1>i, OffType
  <2>13. CASE Plan
    <3>1. [saved EXCEPT !.phase = "plan"] \in Operations /\ [saved EXCEPT !.phase = "plan"].outbox = saved.outbox
      BY <1>a DEF Operations
    <3>2. UNCHANGED thread
      BY <2>13 DEF Plan
    <3>3. CASE Throw(saved, FALSE)
      BY <3>2, <3>3, <1>a, <1>b
    <3>4. CASE saved' = [saved EXCEPT !.phase = "plan"] /\ End /\ UNCHANGED <<texts, asked>>
      BY <3>1, <3>2, <3>4, <1>e, OffType DEF End
    <3> QED
      BY <2>13, <3>3, <3>4 DEF Plan
  <2>14. CASE Decompose
    <3>1. UNCHANGED thread
      BY <2>14 DEF Decompose
    <3>2. CASE Throw(saved, FALSE)
      BY <3>1, <3>2, <1>a, <1>b
    <3>3. CASE Goto("children") /\ UNCHANGED <<saved, texts, asked>>
      BY <3>1, <3>3, <1>a, <1>e, <1>f, <1>g DEF Goto
    <3> QED
      BY <2>14, <3>2, <3>3 DEF Decompose
  <2>15. CASE Child
    <3>1. PICK k \in call.items :
              call' \in {[call EXCEPT !.items = @ \ {k}], [call EXCEPT !.at = "create", !.key = k]}
      BY <2>15 DEF Child
    <3>2. k \in Key /\ call.items \subseteq Key
      BY <1>a DEF Calls
    <3>3. call' \in Calls
      BY <3>1, <3>2, <1>a, <1>g DEF Calls
    <3>4. saved' = saved /\ UNCHANGED <<thread, texts, asked>>
      BY <2>15 DEF Child
    <3> QED
      BY <3>3, <3>4, <1>a, <1>e
  <2>16. CASE Link
    <3>1. call' = [call EXCEPT !.at = "children", !.items = @ \ {call.key}, !.key = "none"]
      BY <2>16 DEF Link
    <3>2. call' \in Calls
      BY <3>1, <1>a, <1>g DEF Calls
    <3>3. saved' = saved /\ UNCHANGED <<thread, texts, asked>>
      BY <2>16 DEF Link
    <3> QED
      BY <3>2, <3>3, <1>a, <1>e
  <2>17. CASE Coordinate
    <3> DEFINE ready == [saved EXCEPT !.phase = "coordinate", !.status = "ready"]
    <3>1. ready \in Operations /\ ready.outbox = saved.outbox
      BY <1>a, <1>i DEF Operations
    <3>2. UNCHANGED thread
      BY <2>17 DEF Coordinate
    <3>3. CASE Throw(saved, FALSE)
      BY <3>2, <3>3, <1>a, <1>b
    <3>4. CASE Audit(call, ready, 1, "end") /\ UNCHANGED asked
      <4> HIDE DEF ready
      <4> QED
        BY <3>1, <3>2, <3>4, <1>a, <1>d, <1>g
    <3> QED
      BY <2>17, <3>3, <3>4 DEF Coordinate
  <2>18. CASE Fail
    <3>1. PICK hold \in BOOLEAN : Throw(saved, hold)
      BY <2>18 DEF Fail
    <3> QED
      BY <2>18, <3>1, <1>a, <1>b DEF Fail
  <2>19. CASE Create
    <3>1. saved' = saved /\ UNCHANGED <<thread, texts, asked>> /\ call' \in Calls
      BY <2>19, <1>f, <1>g DEF Create, Goto
    <3> QED
      BY <3>1, <1>a, <1>e
  <2> QED
    BY <1>1, <2>1, <2>2, <2>3, <2>4, <2>5, <2>6, <2>7, <2>8, <2>9, <2>10, <2>11, <2>12, <2>13,
       <2>14, <2>15, <2>16, <2>17, <2>18, <2>19 DEF Controller
<1>2. CASE Write
  <2>1. saved' = saved /\ call' = call /\ UNCHANGED <<texts, asked>> /\ thread' = Append(thread, Human)
    BY <1>2 DEF Write
  <2> QED
    BY <2>1, <1>a DEF Typed, Moving
<1>3. CASE Edit
  <2>1. saved' = saved /\ call' = call /\ UNCHANGED <<thread, texts, asked>>
    BY <1>3 DEF Edit
  <2> QED
    BY <2>1, <1>a, <1>e
<1>4. CASE UNCHANGED vars
  <2>1. saved' = saved /\ call' = call /\ UNCHANGED <<thread, texts, asked>>
    BY <1>4 DEF vars
  <2> QED
    BY <2>1, <1>a, <1>e
<1>5. CASE Open
  <2>1. saved' = saved /\ call' = call /\ UNCHANGED <<thread, texts, asked>>
    BY <1>5 DEF Open
  <2> QED
    BY <2>1, <1>a, <1>e
<1> QED
  BY <1>1, <1>2, <1>3, <1>4, <1>5 DEF Next

(* Whatever a step does to the trail, what the outbox holds stays the end of it. *)
LEMMA KeptMoves ==
  ASSUME TypeOK, Kept, Sending, Typed
  PROVE  Kept' /\ thread' \in Seq(Nat) /\ texts' \in Nat /\ asked' \subseteq 1..texts'
<1>1. /\ thread \in Seq(Nat) /\ saved.outbox \in Seq(Nat) /\ texts \in Nat /\ asked \subseteq 1..texts
      /\ Trail(thread, saved.outbox, texts) /\ Human \in Nat
  BY DEF TypeOK, Operations, Kept, Human
<1>2. Append(thread, Human) \in Seq(Nat) /\ Trail(Append(thread, Human), saved.outbox, texts)
  BY <1>1, TrailWritten, AppendProperties
<1>3. Sent => /\ Append(thread, saved.outbox[1]) \in Seq(Nat)
              /\ Trail(Append(thread, saved.outbox[1]), saved.outbox, texts)
              /\ Trail(Append(thread, saved.outbox[1]), Tail(saved.outbox), texts)
  <2> SUFFICES ASSUME Sent
               PROVE  /\ Append(thread, saved.outbox[1]) \in Seq(Nat)
                      /\ Trail(Append(thread, saved.outbox[1]), saved.outbox, texts)
                      /\ Trail(Append(thread, saved.outbox[1]), Tail(saved.outbox), texts)
    OBVIOUS
  <2>1. saved.outbox # <<>>
    BY DEF Sent, Sending
  <2>2. saved.outbox[1] \in Nat
    BY <1>1, <2>1, EmptySeq, ElementOfSeq
  <2> QED
    BY <1>1, <2>1, <2>2, TrailPosted, AppendProperties
<1>4. CASE /\ thread' \in {thread, Append(thread, Human)} \/ Sent
           /\ saved'.outbox = saved.outbox /\ UNCHANGED <<texts, asked>>
  <2>1. thread' \in Seq(Nat) /\ Trail(thread', saved.outbox, texts)
    BY <1>1, <1>2, <1>3, <1>4 DEF Sent
  <2> QED
    BY <1>1, <1>4, <2>1 DEF Kept
<1>5. CASE Sent /\ saved'.outbox = Tail(saved.outbox) /\ UNCHANGED <<texts, asked>>
  <2>1. thread' \in Seq(Nat) /\ Trail(thread', Tail(saved.outbox), texts)
    BY <1>3, <1>5 DEF Sent
  <2> QED
    BY <1>1, <1>5, <2>1 DEF Kept
<1>6. CASE \E n \in Nat : Noted(saved, n) /\ AskedSome(n) /\ (thread' = thread \/ Sent)
  <2>1. PICK n \in Nat : Noted(saved, n) /\ AskedSome(n) /\ (thread' = thread \/ Sent)
    BY <1>6
  <2>2. thread' \in Seq(Nat) /\ Trail(thread', saved.outbox, texts)
    BY <1>1, <1>3, <2>1 DEF Sent
  <2>3. texts' = texts + n /\ saved'.outbox = saved.outbox \o [i \in 1..n |-> texts + i]
    BY <2>1 DEF Noted
  <2>4. Trail(thread', saved.outbox \o [i \in 1..n |-> texts + i], texts + n)
    BY <1>1, <2>2, TrailNoted
  <2>5. asked' \subseteq 1..texts'
    BY <1>1, <2>1, <2>3 DEF AskedSome
  <2> QED
    BY <1>1, <2>2, <2>3, <2>4, <2>5 DEF Kept
<1> QED
  BY <1>4, <1>5, <1>6 DEF Typed, Moving

(* The issue stays in its catalogue. *)
LEMMA IssueStep == TypeOK /\ [Next]_vars => (issue' \in Issues /\ faults' \in Nat)
<1> SUFFICES ASSUME TypeOK, [Next]_vars PROVE (issue' \in Issues /\ faults' \in Nat)
  OBVIOUS
<1>a. issue \in Issues /\ faults \in Nat
  BY DEF TypeOK
<1>b. \A target \in DOMAIN Target : Moved(target) \in Issues
  <2>1. \A target \in DOMAIN Target :
          /\ Target[target].stage \in {"same"} \union DOMAIN Transitions
          /\ Target[target].ready \in AllReadiness
    BY DEF Target, Transitions, AllReadiness
  <2> QED
    BY <1>a, <2>1 DEF Moved, Issues
<1>c. /\ [issue EXCEPT !.type = "none"] \in Issues /\ [issue EXCEPT !.type = "idea"] \in Issues
      /\ [issue EXCEPT !.type = "feature"] \in Issues /\ [issue EXCEPT !.stage = "acceptance"] \in Issues
  BY <1>a DEF Issues, AllTypes, Transitions
<1>d. {"needs_info", "requirements", "decomposing", "ready_for_plan", "coordinating"} = DOMAIN Target
  BY DEF Target
<1>1. CASE Controller
  <2>1. CASE Deliver
    BY <2>1, <1>a DEF Deliver
  <2>2. CASE Admit
    BY <2>2, <1>a DEF Admit
  <2>3. CASE RefinementWave
    BY <2>3, <1>a, <1>b, <1>d DEF RefinementWave
  <2>4. CASE Begin
    BY <2>4, <1>a DEF Begin
  <2>5. CASE Post
    BY <2>5, <1>a DEF Post, Faulty
  <2>6. CASE ReadBrief
    BY <2>6, <1>a DEF ReadBrief
  <2>7. CASE Session
    BY <2>7, <1>a DEF Session
  <2>8. CASE Ask
    BY <2>8, <1>a, <1>b, <1>d DEF Ask, Question
  <2>9. CASE Blocked
    BY <2>9, <1>a, <1>b, <1>d DEF Blocked, Question
  <2>10. CASE Refined
    BY <2>10, <1>a, <1>c DEF Refined
  <2>11. CASE Specialized
    <3>1. ASSUME NEW stage \in DOMAIN ControllerTarget PROVE ControllerTarget[stage] \in DOMAIN Target
      BY <1>d DEF ControllerTarget
    <3>2. PICK target \in DOMAIN Target : issue' \in {issue, Moved(target)}
      BY <2>11, <3>1 DEF Specialized
    <3> QED
      BY <2>11, <3>2, <1>a, <1>b DEF Specialized
  <2>12. CASE Complete
    BY <2>12, <1>a DEF Complete
  <2>13. CASE Plan
    BY <2>13, <1>a, <1>b, <1>d DEF Plan
  <2>14. CASE Decompose
    BY <2>14, <1>a, <1>b, <1>d DEF Decompose
  <2>15. CASE Child
    BY <2>15, <1>a DEF Child
  <2>16. CASE Link
    BY <2>16, <1>a DEF Link
  <2>17. CASE Coordinate
    BY <2>17, <1>a, <1>b, <1>d DEF Coordinate
  <2>18. CASE Fail
    BY <2>18, <1>a, <1>c DEF Fail, Faulty
  <2>19. CASE Create
    BY <2>19, <1>a DEF Create
  <2> QED
    BY <1>1, <2>1, <2>2, <2>3, <2>4, <2>5, <2>6, <2>7, <2>8, <2>9, <2>10, <2>11, <2>12, <2>13,
       <2>14, <2>15, <2>16, <2>17, <2>18, <2>19 DEF Controller
<1>2. CASE Write
  BY <1>2, <1>a DEF Write
<1>3. CASE Edit
  BY <1>3, <1>a, <1>c DEF Edit, Faulty
<1>4. CASE UNCHANGED vars
  BY <1>4, <1>a DEF vars
<1>5. CASE Open
  BY <1>5, <1>a DEF Open
<1> QED
  BY <1>1, <1>2, <1>3, <1>4, <1>5 DEF Next

-----------------------------------------------------------------------------
(* An issue of a work item is created only where the search found none, also by a call that
   fails; what others open moves the children out of reach of a search, never into it. *)
LEMMA ChildStep ==
  (TypeOK /\ Numbered /\ Searched /\ OneChildPerKey) /\ [Next]_vars
    => (child' \in Children /\ opened' \in Nat /\ Numbered' /\ OneChildPerKey')
<1> SUFFICES ASSUME (TypeOK /\ Numbered /\ Searched /\ OneChildPerKey), [Next]_vars
             PROVE  (child' \in Children /\ opened' \in Nat /\ Numbered' /\ OneChildPerKey')
  OBVIOUS
<1> DEFINE Rest == child' \in Children /\ opened' \in Nat /\ Numbered' /\ OneChildPerKey'
<1>0. SUFFICES Rest
  OBVIOUS
<1>t. /\ child \in Children /\ opened \in Nat /\ SearchDepth \in Nat
      /\ \A k \in Key : child[k].issues \in SUBSET Nat /\ \A n \in child[k].issues : n <= opened
  BY BoundAssumption DEF TypeOK, Numbered, Children
<1>a. ASSUME UNCHANGED <<child, opened>> PROVE Rest
  BY <1>a, <1>t DEF Numbered, OneChildPerKey
<1>b. ASSUME call.at = "create", Created(call.key) PROVE Rest
  <2> DEFINE k == call.key
  <2>1. k \in Key /\ \A n \in child[k].issues : ~(n > opened - SearchDepth)
    BY <1>b DEF Searched, Found
  <2>2. opened' = opened + 1 /\ child' = [child EXCEPT ![k].issues = @ \union {opened + 1}]
    BY <1>b DEF Created
  <2> HIDE DEF k
  <2>3. /\ child' \in Children /\ child'[k].issues = child[k].issues \union {opened + 1}
        /\ \A j \in Key : j # k => child'[j].issues = child[j].issues
    BY <1>t, <2>1, <2>2 DEF Children
  <2>4. Numbered'
    <3> SUFFICES ASSUME NEW j \in Key, NEW n \in child'[j].issues PROVE n <= opened + 1
      BY <2>2 DEF Numbered
    <3>1. n \in child[j].issues \/ n = opened + 1
      BY <2>3
    <3> QED
      BY <1>t, <3>1
  <2>5. OneChildPerKey'
    <3> SUFFICES ASSUME NEW j \in Key, NEW m \in child'[j].issues, NEW n \in child'[j].issues, m < n
                 PROVE  n - m > SearchDepth
      BY DEF OneChildPerKey
    <3>1. CASE m \in child[j].issues /\ n \in child[j].issues
      BY <3>1 DEF OneChildPerKey
    <3>2. CASE j = k /\ n = opened + 1 /\ m \in child[k].issues
      <4>1. m \in Nat /\ ~(m > opened - SearchDepth)
        BY <1>t, <2>1, <3>2
      <4> QED
        BY <1>t, <3>2, <4>1
    <3>3. ~(m = opened + 1)
      <4>1. n \in child[j].issues \/ n = opened + 1
        BY <2>3
      <4>2. n \in Nat /\ n <= opened + 1
        BY <1>t, <4>1
      <4> QED
        BY <1>t, <4>2
    <3> QED
      BY <2>3, <3>1, <3>2, <3>3
  <2> QED
    BY <1>t, <2>2, <2>3, <2>4, <2>5
<1>c. ASSUME NEW k, Linked(k) PROVE Rest
  <2>1. child' = [child EXCEPT ![k].linked = TRUE] /\ opened' = opened /\ TRUE \in BOOLEAN
    BY <1>c DEF Linked
  <2>2. \A j \in Key : child'[j] \in [issues : SUBSET Nat, linked : BOOLEAN] /\ child'[j].issues = child[j].issues
    BY <1>t, <2>1 DEF Children
  <2>3. child' = [j \in Key |-> child'[j]]
    BY <1>t, <2>1 DEF Children
  <2>4. child' \in Children
    BY <2>2, <2>3 DEF Children
  <2> QED
    BY <1>t, <2>1, <2>2, <2>4 DEF Numbered, OneChildPerKey
<1>1. CASE Controller
  <2>1. CASE Deliver
    BY <2>1, <1>a DEF Deliver
  <2>2. CASE Admit
    BY <2>2, <1>a DEF Admit
  <2>3. CASE RefinementWave
    BY <2>3, <1>a DEF RefinementWave
  <2>4. CASE Begin
    BY <2>4, <1>a DEF Begin
  <2>5. CASE Post
    BY <2>5, <1>a DEF Post
  <2>6. CASE ReadBrief
    BY <2>6, <1>a DEF ReadBrief
  <2>7. CASE Session
    BY <2>7, <1>a DEF Session
  <2>8. CASE Ask
    BY <2>8, <1>a DEF Ask, Question
  <2>9. CASE Blocked
    BY <2>9, <1>a DEF Blocked, Question
  <2>10. CASE Refined
    BY <2>10, <1>a DEF Refined
  <2>11. CASE Specialized
    BY <2>11, <1>a DEF Specialized
  <2>12. CASE Complete
    BY <2>12, <1>a DEF Complete
  <2>13. CASE Plan
    BY <2>13, <1>a DEF Plan
  <2>14. CASE Decompose
    BY <2>14, <1>a DEF Decompose
  <2>15. CASE Child
    BY <2>15, <1>a DEF Child
  <2>16. CASE Create
    BY <2>16, <1>b DEF Create
  <2>17. CASE Link
    BY <2>17, <1>c DEF Link
  <2>18. CASE Coordinate
    BY <2>18, <1>a DEF Coordinate
  <2>19. CASE Fail
    BY <2>19, <1>a, <1>b, <1>c DEF Fail
  <2> QED
    BY <1>1, <2>1, <2>2, <2>3, <2>4, <2>5, <2>6, <2>7, <2>8, <2>9, <2>10, <2>11, <2>12, <2>13,
       <2>14, <2>15, <2>16, <2>17, <2>18, <2>19 DEF Controller
<1>2. CASE Write
  BY <1>2, <1>a DEF Write
<1>3. CASE Edit
  BY <1>3, <1>a DEF Edit
<1>4. CASE Open
  BY <1>4, <1>t DEF Open, Numbered, OneChildPerKey
<1>5. CASE UNCHANGED vars
  BY <1>5, <1>a DEF vars
<1> QED
  BY <1>1, <1>2, <1>3, <1>4, <1>5 DEF Next

(* Only the search for a work item that finds nothing leads to a creation. *)
LEMMA SearchStep == (TypeOK /\ Sending /\ Searched) /\ [Next]_vars => Searched'
<1> SUFFICES ASSUME (TypeOK /\ Sending /\ Searched), [Next]_vars PROVE Searched'
  OBVIOUS
<1>t. saved \in Operations /\ call \in Calls /\ texts \in Nat /\ opened \in Nat /\ child \in Children
  BY DEF TypeOK
<1>a. ASSUME call'.at # "create" PROVE Searched'
  BY <1>a DEF Searched
<1>b. ASSUME NEW state \in Operations, NEW hold \in BOOLEAN, Throw(state, hold) PROVE Searched'
  <2>1. Stopped(state) \/ \E n \in Nat : HandedOff(state, n)
    BY <1>t, <1>b, Thrown
  <2> QED
    BY <1>a, <2>1, OffType DEF Stopped, HandedOff
<1>c. ASSUME NEW c \in Calls, NEW state, NEW next, NEW n, Audit(c, state, n, next) PROVE Searched'
  <2>1. call' = [c EXCEPT !.at = "posting", !.then = next, !.ids = <<>>]
    BY <1>c DEF Audit
  <2> QED
    BY <1>a, <2>1 DEF Calls
<1>d. ASSUME NEW c \in Calls, NEW state \in Operations, NEW next \in {"begin", "end"}, Flush(c, state, next)
      PROVE  Searched'
  <2>1. next \in Nexts \ {"none", "settle"}
    BY DEF Nexts
  <2>2. call'.at \in {"posting", next} \/ call' = Off
    BY <1>d, <2>1, Flushed
  <2> QED
    BY <1>a, <2>2, OffType
<1>e. ASSUME NEW step \in AtSteps \ {"create"}, call' = [call EXCEPT !.at = step] PROVE Searched'
  BY <1>a, <1>e, <1>t DEF Calls
<1>f. ASSUME call' = Off PROVE Searched'
  BY <1>a, <1>f, OffType
<1>g. \A status \in Statuses : [saved EXCEPT !.status = status] \in Operations
  BY <1>t DEF Operations
<1>h. {"ready", "paused", "running", "awaiting-human"} \subseteq Statuses
  BY DEF Statuses
<1>i. AtSteps \ {"create"} = {"off", "admit", "wave", "begin", "posting", "brief", "session", "turn", "decompose",
                            "plan", "complete", "children", "link"}
  BY DEF AtSteps
<1>1. CASE Controller
  <2>1. CASE Deliver
    <3>1. call'.at = "admit"
      BY <2>1 DEF Deliver, Off
    <3> QED
      BY <1>a, <3>1
  <2>2. CASE Admit
    <3> DEFINE read == [call EXCEPT !.from = issue.stage]
    <3>1. read \in Calls
      BY <1>t DEF TypeOK, Issues, Calls
    <3>2. CASE Flush(read, saved, "end") \/ Flush(read, saved, "begin")
      BY <1>d, <1>t, <3>1, <3>2
    <3>3. CASE Throw(saved, FALSE)
      BY <1>b, <1>t, <3>3
    <3>4. CASE Goto("wave") \/ End
      BY <1>e, <1>f, <1>i, <3>4 DEF Goto, End
    <3> QED
      BY <2>2, <3>2, <3>3, <3>4 DEF Admit
  <2>3. CASE RefinementWave
    <3>1. [saved EXCEPT !.phase = "refine"] \in Operations
      BY <1>t DEF Operations
    <3> QED
      BY <2>3, <1>b, <1>d, <1>t, <3>1 DEF RefinementWave
  <2>4. CASE Begin
    <3>1. Admitted \in Calls
      BY <1>t DEF Admitted, Calls, Statuses
    <3> QED
      BY <2>4, <1>c, <1>f, <3>1 DEF Begin, End
  <2>5. CASE Post
    <3>1. [saved EXCEPT !.outbox = Unanswered(@)] = saved
      BY <1>t DEF Operations, Unanswered
    <3>2. CASE \E hold \in BOOLEAN : Throw([saved EXCEPT !.outbox = Unanswered(@)], hold)
      BY <1>b, <1>t, <3>1, <3>2
    <3>3. CASE \E ids : call' = [call EXCEPT !.ids = ids]
      BY <2>5, <3>3, <1>a, <1>t DEF Post, Calls
    <3>4. CASE call' = Proceed(call, call.then)
      <4>1. call.then \in Nexts /\ "create" \notin Nexts
        BY <1>t DEF Calls, Nexts
      <4> QED
        BY <3>4, <4>1, <1>a, <1>f, <1>t DEF Proceed, Calls
    <3> QED
      BY <2>5, <3>2, <3>3, <3>4, <1>f DEF Post
  <2>6. CASE ReadBrief
    BY <2>6, <1>b, <1>e, <1>i, <1>t DEF ReadBrief, Goto
  <2>7. CASE Session
    <3>1. CASE call' = [call EXCEPT !.at = "turn", !.comment = 0, !.starts = FALSE]
      BY <3>1, <1>a, <1>t DEF Calls
    <3> QED
      BY <2>7, <3>1, <1>b, <1>t DEF Session
  <2>8. CASE Ask
    BY <2>8, <1>b, <1>g, <1>h DEF Ask, Question
  <2>9. CASE Blocked
    BY <2>9, <1>b, <1>g, <1>h DEF Blocked, Question
  <2>10. CASE Refined
    <3>1. \A items \in WorkItems : [call EXCEPT !.items = items] \in Calls
      BY <1>t DEF Calls, WorkItems
    <3> QED
      BY <2>10, <3>1, <1>b, <1>c, <1>t DEF Refined
  <2>11. CASE Specialized
    BY <2>11, <1>b, <1>c, <1>t DEF Specialized
  <2>12. CASE Complete
    BY <2>12, <1>f DEF Complete, End
  <2>13. CASE Plan
    BY <2>13, <1>b, <1>f, <1>t DEF Plan, End
  <2>14. CASE Decompose
    BY <2>14, <1>b, <1>e, <1>i, <1>t DEF Decompose, Goto
  <2>15. CASE Child
    <3>1. PICK k \in call.items : call' = IF Found(k) THEN [call EXCEPT !.items = @ \ {k}]
                                         ELSE [call EXCEPT !.at = "create", !.key = k]
      BY <2>15 DEF Child
    <3>2. k \in Key /\ call.at = "children" /\ UNCHANGED <<child, opened>>
      BY <2>15, <1>t DEF Child, Calls
    <3>3. CASE call' = [call EXCEPT !.items = @ \ {k}]
      BY <3>2, <3>3, <1>a, <1>t DEF Calls
    <3>4. CASE ~Found(k) /\ call' = [call EXCEPT !.at = "create", !.key = k]
      <4>1. call'.key = k
        BY <3>4, <1>t DEF Calls
      <4> QED
        BY <3>2, <3>4, <4>1 DEF Searched, Found
    <3> QED
      BY <3>1, <3>3, <3>4
  <2>16. CASE Create
    BY <2>16, <1>e, <1>i DEF Create, Goto
  <2>17. CASE Link
    <3>1. call' = [call EXCEPT !.at = "children", !.items = @ \ {call.key}, !.key = "none"]
      BY <2>17 DEF Link
    <3> QED
      BY <3>1, <1>a, <1>t DEF Calls
  <2>18. CASE Coordinate
    BY <2>18, <1>b, <1>c, <1>t DEF Coordinate
  <2>19. CASE Fail
    BY <2>19, <1>b, <1>t DEF Fail
  <2> QED
    BY <1>1, <2>1, <2>2, <2>3, <2>4, <2>5, <2>6, <2>7, <2>8, <2>9, <2>10, <2>11, <2>12, <2>13,
       <2>14, <2>15, <2>16, <2>17, <2>18, <2>19 DEF Controller
<1>2. CASE Write
  BY <1>2 DEF Write, Searched, Found
<1>3. CASE Edit
  BY <1>3 DEF Edit, Searched, Found
<1>4. CASE Open
  <2>1. SUFFICES ASSUME call.at = "create" PROVE call.key \in Key /\ ~Found(call.key)'
    BY <1>4 DEF Open, Searched
  <2>2. /\ opened' = opened + 1 /\ child' = child /\ call' = call
        /\ call.key \in Key /\ \A n \in child[call.key].issues : n \in Nat /\ ~(n > opened - SearchDepth)
    BY <1>4, <1>t, <2>1 DEF Open, Searched, Found, Children
  <2> QED
    BY <1>t, <2>2, BoundAssumption DEF Found
<1>5. CASE UNCHANGED vars
  BY <1>5 DEF vars, Searched, Found
<1> QED
  BY <1>1, <1>2, <1>3, <1>4, <1>5 DEF Next

(* What a call posts, what waiting for people implies, and what a call was admitted by. *)
LEMMA CallStep ==
  (TypeOK /\ Unstarted /\ Sending /\ Waiting /\ Admitting) /\ [Next]_vars
    => (Unstarted /\ Sending /\ Waiting /\ Admitting)'
<1> SUFFICES ASSUME (TypeOK /\ Unstarted /\ Sending /\ Waiting /\ Admitting), [Next]_vars
             PROVE  (Unstarted /\ Sending /\ Waiting /\ Admitting)'
  OBVIOUS
<1> DEFINE Rest == Unstarted /\ Sending /\ Waiting /\ Admitting
<1>0. SUFFICES Rest'
  OBVIOUS
<1>a. saved \in Operations /\ call \in Calls /\ texts \in Nat /\ asked \subseteq 1..texts /\ thread \in Seq(Nat)
  BY DEF TypeOK
<1>b. ASSUME NEW state \in Operations, NEW hold \in BOOLEAN, Throw(state, hold),
             state.boundary = saved.boundary, state.outbox = saved.outbox,
             call.at = "admit" => state.status = saved.status /\ UNCHANGED thread
      PROVE  Rest'
  <2>1. /\ saved'.boundary = saved.boundary
        /\ Stopped(state) \/ \E n \in Nat : HandedOff(state, n)
    BY <1>a, <1>b, Thrown
  <2>2. CASE Stopped(state)
    <3>1. call'.at = "off" /\ call' = Off
      BY <2>2, OffType DEF Stopped
    <3>2. Unstarted' /\ Sending' /\ Admitting'
      BY <2>2, <3>1 DEF Stopped, Unstarted, Sending, Admitting
    <3>3. CASE saved'.status = "paused"
      BY <3>2, <3>3 DEF Waiting
    <3>4. CASE state.status = "awaiting-human" /\ call.at = "admit"
      <4>1. saved.outbox = <<>> /\ \A i \in Questions : i <= saved.boundary
        BY <1>b, <3>4 DEF Waiting, Settling
      <4>2. Questions' = Questions
        BY <1>b, <2>2, <3>4 DEF Questions, Stopped
      <4>3. Waiting'
        BY <1>b, <2>1, <2>2, <3>1, <4>1, <4>2 DEF Waiting, Stopped
      <4> QED
        BY <3>2, <4>3
    <3> QED
      BY <2>2, <3>3, <3>4 DEF Stopped
  <2>3. CASE \E n \in Nat : HandedOff(state, n)
    <3>1. /\ saved'.outbox # <<>> /\ call'.at = "posting" /\ call'.then = "settle"
          /\ saved'.status # "none"
      BY <2>3 DEF HandedOff, Noted
    <3> QED
      BY <3>1 DEF Unstarted, Sending, Waiting, Settling, Admitting
  <2> QED
    BY <2>1, <2>2, <2>3
<1>c. ASSUME NEW c \in Calls, c.was = call.was, c.comment = call.comment, NEW state \in Operations,
             state.status = saved.status, state.boundary = saved.boundary, state.outbox = saved.outbox,
             NEW next \in {"begin", "end"}, Flush(c, state, next), UNCHANGED thread, call.at \in {"admit", "wave"},
             next = "begin" /\ saved.status = "awaiting-human" /\ call.comment # 0 => call.comment > saved.boundary
      PROVE  Rest'
  <2>1. next \in Nexts \ {"none", "settle"}
    BY DEF Nexts
  <2>2. /\ saved' = state /\ UNCHANGED <<texts, asked>>
        /\ \/ /\ state.outbox # <<>> /\ call'.at = "posting" /\ call'.then = next /\ call'.was = c.was
           \/ /\ state.outbox = <<>> /\ next = "end" /\ call' = Off
           \/ /\ state.outbox = <<>> /\ next # "end" /\ call'.at = next /\ call'.was = c.was
              /\ call'.comment = c.comment
    BY <1>c, <2>1, Flushed
  <2>3. saved.status # "none" /\ call.was = saved.status
    BY <1>c, OffType DEF Unstarted, Admitting
  <2>4. Questions' = Questions
    BY <1>c, <2>2 DEF Questions
  <2>5. saved.status = "awaiting-human" => saved.outbox = <<>> /\ \A i \in Questions : i <= saved.boundary
    BY <1>c DEF Waiting, Settling
  <2>6. Unstarted'
    BY <1>c, <2>2, <2>3 DEF Unstarted
  <2>7. CASE state.outbox # <<>> /\ call'.at = "posting" /\ call'.then = next /\ call'.was = c.was
    BY <1>c, <2>2, <2>3, <2>5, <2>6, <2>7 DEF Sending, Waiting, Admitting
  <2>8. CASE call' = Off
    BY <1>c, <2>2, <2>4, <2>5, <2>6, <2>8, OffType DEF Sending, Waiting, Admitting
  <2>9. CASE next # "end" /\ call'.at = next /\ call'.was = c.was /\ call'.comment = c.comment
    BY <1>c, <2>2, <2>3, <2>4, <2>5, <2>6, <2>9 DEF Sending, Waiting, Admitting
  <2> QED
    BY <2>2, <2>7, <2>8, <2>9
<1>d. ASSUME NEW c \in Calls, NEW state \in Operations, NEW next \in Nexts \ {"none", "begin", "settle"},
             NEW n \in {1}, Audit(c, state, n, next), state.status \notin {"none", "awaiting-human"}
      PROVE  Rest'
  <2>1. /\ saved'.status = state.status /\ saved'.outbox # <<>>
        /\ call'.at = "posting" /\ call'.then = next
    BY <1>a, <1>d, Audited DEF Noted
  <2> QED
    BY <1>d, <2>1 DEF Unstarted, Sending, Waiting, Admitting
<1>e. ASSUME saved'.status \notin {"none", "awaiting-human"}, call'.at \notin {"posting", "admit", "wave", "begin"}
      PROVE  Rest'
  BY <1>e DEF Unstarted, Sending, Waiting, Admitting
<1>f. call.at \notin {"off", "admit", "begin", "posting"} => saved.status \notin {"none", "awaiting-human"}
  BY OffType DEF Unstarted, Waiting, Settling
<1>g. \A step \in AtSteps : [call EXCEPT !.at = step].at = step
  BY <1>a DEF Calls
<1>h. \A status \in Statuses :
        LET s == [saved EXCEPT !.status = status] IN
        s \in Operations /\ s.outbox = saved.outbox /\ s.boundary = saved.boundary /\ s.status = status
  BY <1>a DEF Operations
<1>i. {"ready", "paused", "running", "awaiting-human", "new"} \subseteq Statuses
  BY DEF Statuses
<1>j. {"end", "brief", "decompose", "plan", "complete"} \subseteq Nexts \ {"none", "begin", "settle"}
  BY DEF Nexts
<1>k. ASSUME UNCHANGED <<saved, call, thread, asked>> PROVE Rest'
  BY <1>k DEF Unstarted, Sending, Waiting, Settling, Questions, Admitting
<1>l. ASSUME NEW hold \in BOOLEAN, Throw(saved, hold), UNCHANGED thread PROVE Rest'
  BY <1>a, <1>b, <1>l
<1>1. CASE Controller
  <2>1. CASE Deliver
    <3>1. PICK route \in {"refine", "requirements", "coordinate", "resume"}, c \in Humans \union {0} :
            /\ saved.status = "none" => c = 0 /\ route # "resume"
            /\ LET found == IF saved.status = "none" THEN Fresh(route) ELSE saved
               IN  /\ saved' = [found EXCEPT !.attempts = @ + 1]
                   /\ call' = [Off EXCEPT !.at = "admit", !.route = route, !.comment = c, !.was = found.status,
                                 !.starts = \/ saved.status = "none"
                                            \/ /\ saved.status = "paused" /\ saved.phase = "requirements"
                                               /\ ~saved.session /\ ~saved.digested]
      BY <2>1 DEF Deliver
    <3> DEFINE found == IF saved.status = "none" THEN Fresh(route) ELSE saved
                starts == \/ saved.status = "none"
                          \/ /\ saved.status = "paused" /\ saved.phase = "requirements"
                             /\ ~saved.session /\ ~saved.digested
    <3>2. call.at = "off" /\ UNCHANGED <<thread, asked>>
      BY <2>1, OffType DEF Deliver
    <3>3. saved' = [found EXCEPT !.attempts = @ + 1]
      BY <3>1
    <3>4. call' = [Off EXCEPT !.at = "admit", !.route = route, !.comment = c, !.was = found.status,
                          !.starts = starts]
      BY <3>1
    <3> HIDE DEF starts
    <3>5. call'.at = "admit" /\ call'.was = found.status
      BY <3>4 DEF Off
    <3>6. CASE saved.status = "none"
      <4>1. found = Fresh(route)
        BY <3>6
      <4> HIDE DEF found
      <4>2. saved'.status = "new" /\ found.status = "new"
        BY <3>3, <4>1 DEF Fresh, NoOperation
      <4> QED
        BY <3>5, <4>2 DEF Unstarted, Sending, Waiting, Admitting
    <3>7. CASE saved.status # "none"
      <4>1. found = saved
        BY <3>7
      <4> HIDE DEF found
      <4>2. saved'.status = saved.status /\ saved'.outbox = saved.outbox /\ saved'.boundary = saved.boundary
        BY <3>3, <4>1, <1>a DEF Operations
      <4>3. Questions' = Questions
        BY <3>2 DEF Questions
      <4>4. Waiting'
        BY <3>2, <3>5, <4>2, <4>3 DEF Waiting, Settling
      <4> QED
        BY <3>5, <3>7, <4>1, <4>2, <4>4 DEF Unstarted, Sending, Admitting
    <3> QED
      BY <3>6, <3>7
  <2>2. CASE Admit
    <3> DEFINE read == [call EXCEPT !.from = issue.stage]
    <3>1. read \in Calls /\ read.was = call.was /\ read.comment = call.comment
      BY <1>a DEF TypeOK, Issues, Calls
    <3>2. UNCHANGED thread /\ call.at = "admit" /\ saved.status # "none" /\ saved.status = call.was
      BY <2>2, OffType DEF Admit, Unstarted, Admitting
    <3>3. CASE Flush(read, saved, "end")
      BY <3>1, <3>2, <3>3, <1>a, <1>c
    <3>4. CASE Flush(read, saved, "begin") /\ Answers
      <4>1. saved.status = "awaiting-human" /\ call.comment # 0 => call.comment > saved.boundary
        BY <3>4 DEF Answers, Retry, Wave
      <4> QED
        BY <3>1, <3>2, <3>4, <4>1, <1>a, <1>c
    <3>5. CASE Throw(saved, FALSE)
      BY <3>2, <3>5, <1>l
    <3>6. CASE Wave /\ Goto("wave") /\ UNCHANGED <<saved, texts, asked>>
      <4>1. call' = [call EXCEPT !.at = "wave"] /\ saved.status = "ready"
        BY <3>6 DEF Goto, Wave
      <4>2. call'.at = "wave" /\ call'.was = call.was
        BY <4>1, <1>a DEF Calls
      <4> QED
        BY <3>2, <3>6, <4>1, <4>2 DEF Unstarted, Sending, Waiting, Admitting
    <3>7. CASE End /\ UNCHANGED <<saved, texts, asked>>
      <4>1. call'.at = "off" /\ Questions' = Questions
        BY <3>2, <3>7, OffType DEF End, Questions
      <4> QED
        BY <3>2, <3>7, <4>1 DEF Unstarted, Sending, Waiting, Settling, Admitting
    <3> QED
      BY <2>2, <3>3, <3>4, <3>5, <3>6, <3>7 DEF Admit
  <2>3. CASE RefinementWave
    <3> DEFINE wave == [saved EXCEPT !.phase = "refine"]
    <3>1. /\ wave \in Operations /\ wave.outbox = saved.outbox
          /\ wave.status = saved.status /\ wave.boundary = saved.boundary
      BY <1>a DEF Operations
    <3>2. UNCHANGED thread /\ call.at = "wave"
      BY <2>3 DEF RefinementWave
    <3>3. saved.status # "awaiting-human"
      BY <3>2, <1>f
    <3>4. CASE Throw(saved, FALSE)
      BY <3>2, <3>4, <1>l
    <3>5. CASE Flush(call, wave, "begin")
      <4> HIDE DEF wave
      <4> QED
        BY <3>1, <3>2, <3>3, <3>5, <1>a, <1>c
    <3> QED
      BY <2>3, <3>4, <3>5 DEF RefinementWave
  <2>4. CASE Begin
    <3> DEFINE running == [saved EXCEPT !.status = "running", !.consumed = @ \union ({call.comment} \ {0})]
    <3>1. CASE saved' = [saved EXCEPT !.status = "ready"] /\ End
      <4>1. saved'.status = "ready" /\ call'.at = "off"
        BY <3>1, <1>h, <1>i, OffType DEF End
      <4> QED
        BY <4>1, <1>e
    <3>2. CASE Audit(Admitted, running, 1, "brief")
      <4>1. Admitted \in Calls
        BY <1>a DEF Admitted, Calls, Statuses
      <4>2. running \in Operations /\ running.status = "running"
        BY <1>a, <1>i DEF Operations, Calls
      <4> HIDE DEF running
      <4> QED
        BY <3>2, <4>1, <4>2, <1>d, <1>j
    <3> QED
      BY <2>4, <3>1, <3>2 DEF Begin
  <2>5. CASE Post
    <3> DEFINE ids  == Append(call.ids, Len(thread) + 1)
                rest == [saved EXCEPT !.outbox = Tail(@)]
                done == IF call.then = "settle" /\ rest.status = "awaiting-human"
                        THEN [rest EXCEPT !.boundary = Boundary(ids)] ELSE rest
    <3>1. ids \in Seq(Nat) /\ Boundary(ids) = Len(thread) + 1 /\ Len(thread) \in Nat
      <4>1. Len(thread) \in Nat /\ Len(thread) + 1 \in Nat /\ call.ids \in Seq(Nat)
        BY <1>a, LenProperties DEF Calls
      <4>2. ids \in Seq(Nat) /\ Len(ids) = Len(call.ids) + 1 /\ ids[Len(call.ids) + 1] = Len(thread) + 1
        BY <4>1, AppendProperties
      <4> QED
        BY <4>1, <4>2 DEF Boundary
    <3>2. call.at = "posting" /\ saved.outbox # <<>> /\ call.then # "none" /\ saved.status # "none"
      BY <2>5, OffType DEF Post, Sending, Unstarted
    <3>3. /\ rest \in Operations /\ rest.outbox = Tail(saved.outbox) /\ rest.status = saved.status
          /\ rest.boundary = saved.boundary
      BY <3>2, <1>a, HeadTailProperties DEF Operations
    <3>4. saved.status = "awaiting-human" => call.then = "settle"
      BY <3>2 DEF Waiting, Settling
    <3>5. CASE /\ thread' = Append(thread, saved.outbox[1]) /\ rest.outbox # <<>>
               /\ saved' = rest /\ call' = [call EXCEPT !.ids = ids]
      <4> HIDE DEF ids, rest
      <4>1. call'.at = "posting" /\ call'.then = call.then /\ call'.was = call.was
        BY <3>2, <3>5, <1>a DEF Calls
      <4> QED
        BY <3>2, <3>3, <3>4, <3>5, <4>1 DEF Unstarted, Sending, Waiting, Settling, Admitting
    <3>6. CASE /\ thread' = Append(thread, saved.outbox[1]) /\ rest.outbox = <<>> /\ call.then = "settle"
               /\ saved' = done /\ call' = Off /\ UNCHANGED asked
      <4>1. Len(thread') = Len(thread) + 1 /\ DOMAIN thread' = 1..Len(thread')
        <5>1. saved.outbox[1] \in Nat
          BY <3>2, <1>a, EmptySeq, ElementOfSeq DEF Operations
        <5> QED
          BY <3>6, <5>1, <1>a, AppendProperties, LenProperties
      <4>2. saved'.status = "awaiting-human" => saved'.outbox = <<>> /\ saved'.boundary = Len(thread) + 1
        <5> HIDE DEF ids, rest
        <5> QED
          BY <3>1, <3>3, <3>6 DEF Operations
      <4>3. saved'.status = saved.status
        <5> HIDE DEF ids, rest
        <5> QED
          BY <3>3, <3>6 DEF Operations
      <4>4. \A i \in Questions' : i <= Len(thread) + 1
        BY <3>1, <4>1 DEF Questions
      <4> QED
        BY <3>2, <3>6, <4>2, <4>3, <4>4, OffType DEF Unstarted, Sending, Waiting, Settling, Admitting
    <3>7. CASE call.then # "settle" /\ saved' = rest /\ call' = Proceed(call, call.then)
      <4> HIDE DEF ids, rest
      <4>1. call.then \in Nexts /\ call.was \in Statuses
        BY <1>a DEF Calls
      <4>2. saved'.status = saved.status /\ saved'.status \notin {"none", "awaiting-human"}
        BY <3>2, <3>3, <3>4, <3>7
      <4>3. call' = Off \/ (call'.at = call.then /\ call'.was = call.was)
        BY <3>7, <1>a DEF Proceed, Calls
      <4>4. call.then \notin {"posting", "admit", "wave"}
        BY <4>1 DEF Nexts
      <4>5. CASE call' = Off
        BY <4>2, <4>5, <1>e, OffType
      <4>6. CASE call'.at = call.then /\ call'.was = call.was
        BY <3>2, <4>2, <4>4, <4>6 DEF Unstarted, Sending, Waiting, Admitting
      <4> QED
        BY <4>3, <4>5, <4>6
    <3>8. CASE \E hold \in BOOLEAN : Throw([saved EXCEPT !.outbox = Unanswered(@)], hold)
      <4>1. [saved EXCEPT !.outbox = Unanswered(@)] = saved
        BY <1>a DEF Operations, Unanswered
      <4> QED
        BY <3>2, <3>8, <4>1, <1>a, <1>b
    <3>9. CASE /\ thread' = Append(thread, saved.outbox[1])
               /\ IF rest.outbox # <<>> THEN saved' = rest /\ call' = [call EXCEPT !.ids = ids]
                  ELSE saved' = done /\ call' = IF call.then = "settle" THEN Off ELSE Proceed(call, call.then)
               /\ UNCHANGED <<texts, asked, faults>>
      <4>1. call.then # "settle" => done = rest
        OBVIOUS
      <4> HIDE DEF ids, rest, done
      <4>2. CASE rest.outbox # <<>>
        BY <3>5, <3>9, <4>2
      <4>3. CASE rest.outbox = <<>>
        BY <3>6, <3>7, <3>9, <4>1, <4>3
      <4> QED
        BY <4>2, <4>3
    <3> QED
      BY <2>5, <3>8, <3>9 DEF Post
  <2>6. CASE ReadBrief
    <3>1. UNCHANGED thread /\ call.at = "brief"
      BY <2>6 DEF ReadBrief
    <3>2. CASE Throw(saved, TRUE)
      BY <3>1, <3>2, <1>l
    <3>3. CASE saved' = [saved EXCEPT !.read = Humans, !.digested = TRUE] /\ Goto("session")
      <4>1. saved'.status = saved.status /\ call'.at = "session"
        BY <3>3, <1>a DEF Operations, Calls, Goto
      <4> QED
        BY <3>1, <4>1, <1>e, <1>f
    <3> QED
      BY <2>6, <3>2, <3>3 DEF ReadBrief
  <2>7. CASE Session
    <3>1. UNCHANGED thread /\ call.at = "session"
      BY <2>7 DEF Session
    <3>2. CASE Throw(saved, FALSE)
      BY <3>1, <3>2, <1>l
    <3>3. CASE /\ saved' = [saved EXCEPT !.session = TRUE]
               /\ call' = [call EXCEPT !.at = "turn", !.comment = 0, !.starts = FALSE]
      <4>1. saved'.status = saved.status /\ call'.at = "turn"
        BY <3>3, <1>a DEF Operations, Calls
      <4> QED
        BY <3>1, <4>1, <1>e, <1>f
    <3> QED
      BY <2>7, <3>2, <3>3 DEF Session
  <2>8. CASE Ask
    <3>1. Throw([saved EXCEPT !.status = "awaiting-human"], FALSE) /\ call.at = "turn"
      BY <2>8 DEF Ask, Question
    <3> QED
      BY <3>1, <1>b, <1>h, <1>i
  <2>9. CASE Blocked
    <3>1. Throw([saved EXCEPT !.status = "paused"], FALSE) /\ call.at = "turn"
      BY <2>9 DEF Blocked, Question
    <3> QED
      BY <3>1, <1>b, <1>h, <1>i
  <2>10. CASE Refined
    <3>1. UNCHANGED thread /\ call.at = "turn"
      BY <2>10 DEF Refined
    <3>2. CASE Throw(saved, FALSE)
      BY <3>1, <3>2, <1>l
    <3>3. CASE \E items \in WorkItems :
                 Audit([call EXCEPT !.items = items], saved, 1, IF Cardinality(items) > 1 THEN "decompose" ELSE "plan")
      <4>1. PICK items \in WorkItems, next \in {"decompose", "plan"} : Audit([call EXCEPT !.items = items], saved, 1, next)
        BY <3>3
      <4>2. [call EXCEPT !.items = items] \in Calls
        BY <1>a DEF Calls, WorkItems
      <4> QED
        BY <3>1, <4>1, <4>2, <1>a, <1>d, <1>f, <1>j
    <3> QED
      BY <2>10, <3>2, <3>3 DEF Refined
  <2>11. CASE Specialized
    <3>1. UNCHANGED thread /\ call.at = "turn"
      BY <2>11 DEF Specialized
    <3>2. CASE Throw(saved, FALSE)
      BY <3>1, <3>2, <1>l
    <3>3. CASE Audit(call, saved, 1, "complete")
      BY <3>1, <3>3, <1>a, <1>d, <1>f, <1>j
    <3> QED
      BY <2>11, <3>2, <3>3 DEF Specialized
  <2>12. CASE Complete
    <3>1. saved'.status = "ready" /\ call'.at = "off"
      BY <2>12, <1>h, <1>i, OffType DEF Complete, End
    <3> QED
      BY <3>1, <1>e
  <2>13. CASE Plan
    <3>1. UNCHANGED thread /\ call.at = "plan"
      BY <2>13 DEF Plan
    <3>2. CASE Throw(saved, FALSE)
      BY <3>1, <3>2, <1>l
    <3>3. CASE saved' = [saved EXCEPT !.phase = "plan"] /\ End
      <4>1. saved'.status = saved.status /\ call'.at = "off"
        BY <3>3, <1>a, OffType DEF Operations, End
      <4> QED
        BY <3>1, <4>1, <1>e, <1>f
    <3> QED
      BY <2>13, <3>2, <3>3 DEF Plan
  <2>14. CASE Decompose
    <3>1. UNCHANGED thread /\ call.at = "decompose"
      BY <2>14 DEF Decompose
    <3>2. CASE Throw(saved, FALSE)
      BY <3>1, <3>2, <1>l
    <3>3. CASE Goto("children") /\ UNCHANGED saved
      <4>1. call'.at = "children"
        BY <3>3, <1>a DEF Calls, Goto
      <4> QED
        BY <3>1, <3>3, <4>1, <1>e, <1>f
    <3> QED
      BY <2>14, <3>2, <3>3 DEF Decompose
  <2>15. CASE Child
    <3>1. PICK k \in call.items :
              call' \in {[call EXCEPT !.items = @ \ {k}], [call EXCEPT !.at = "create", !.key = k]}
      BY <2>15 DEF Child
    <3>2. call.at = "children" /\ UNCHANGED saved
      BY <2>15 DEF Child
    <3>3. call'.at \in {"children", "create"}
      BY <3>1, <3>2, <1>a DEF Calls
    <3> QED
      BY <3>2, <3>3, <1>e, <1>f
  <2>16. CASE Link
    <3>1. call' = [call EXCEPT !.at = "children", !.items = @ \ {call.key}, !.key = "none"]
      BY <2>16 DEF Link
    <3>2. call'.at = "children" /\ call.at = "link" /\ UNCHANGED saved
      BY <2>16, <3>1, <1>a DEF Link, Calls
    <3> QED
      BY <3>2, <1>e, <1>f
  <2>17. CASE Coordinate
    <3> DEFINE ready == [saved EXCEPT !.phase = "coordinate", !.status = "ready"]
    <3>1. ready \in Operations /\ ready.status = "ready"
      BY <1>a, <1>i DEF Operations
    <3>2. UNCHANGED thread
      BY <2>17 DEF Coordinate
    <3>3. CASE Throw(saved, FALSE)
      BY <3>2, <3>3, <1>l
    <3>4. CASE Audit(call, ready, 1, "end")
      <4> HIDE DEF ready
      <4> QED
        BY <3>1, <3>4, <1>a, <1>d, <1>j
    <3> QED
      BY <2>17, <3>3, <3>4 DEF Coordinate
  <2>18. CASE Fail
    <3>1. (\E hold \in BOOLEAN : Throw(saved, hold)) /\ UNCHANGED thread
      BY <2>18 DEF Fail
    <3> QED
      BY <3>1, <1>l
  <2>19. CASE Create
    <3>1. call'.at = "link" /\ call.at = "create" /\ UNCHANGED saved
      BY <2>19, <1>a DEF Create, Goto, Calls
    <3> QED
      BY <3>1, <1>e, <1>f
  <2> QED
    BY <1>1, <2>1, <2>2, <2>3, <2>4, <2>5, <2>6, <2>7, <2>8, <2>9, <2>10, <2>11, <2>12, <2>13,
       <2>14, <2>15, <2>16, <2>17, <2>18, <2>19 DEF Controller
<1>2. CASE Write
  <2>1. UNCHANGED <<saved, call, asked>> /\ thread' = Append(thread, Human)
    BY <1>2 DEF Write
  <2>2. Questions' = Questions
    <3>1. /\ Len(thread') = Len(thread) + 1 /\ Len(thread) \in Nat
          /\ DOMAIN thread = 1..Len(thread) /\ DOMAIN thread' = 1..Len(thread')
          /\ \A i \in 1..Len(thread) : thread'[i] = thread[i]
          /\ thread'[Len(thread) + 1] = Human
      BY <2>1, <1>a, AppendProperties, LenProperties DEF Human
    <3>2. Human \notin asked
      BY <1>a DEF Human
    <3> QED
      BY <2>1, <3>1, <3>2 DEF Questions
  <2> QED
    BY <2>1, <2>2 DEF Unstarted, Sending, Waiting, Settling, Admitting
<1>3. CASE Edit
  BY <1>3, <1>k DEF Edit
<1>4. CASE UNCHANGED vars
  BY <1>4, <1>k DEF vars
<1>5. CASE Open
  BY <1>5, <1>k DEF Open
<1> QED
  BY <1>1, <1>2, <1>3, <1>4, <1>5 DEF Next

-----------------------------------------------------------------------------
\* A step consumes nothing, or answers no question, or begins a call with its comment.
Consuming ==
  \/ saved'.consumed = saved.consumed
  \/ call.was # "awaiting-human"
  \/ call.at = "begin" /\ call.comment # 0

(* Only the begin of a call consumes a comment, and only one that it was called for. *)
LEMMA ConsumedStep == (TypeOK /\ Unstarted) /\ [Next]_vars => Consuming
<1> SUFFICES ASSUME (TypeOK /\ Unstarted), [Next]_vars PROVE Consuming
  OBVIOUS
<1> USE DEF Consuming
<1>a. saved \in Operations /\ call \in Calls /\ texts \in Nat
  BY DEF TypeOK
<1>b. ASSUME NEW state \in Operations, NEW hold \in BOOLEAN, Throw(state, hold), state.consumed = saved.consumed
      PROVE  saved'.consumed = saved.consumed
  BY <1>a, <1>b, Thrown
<1>c. ASSUME NEW hold \in BOOLEAN, Throw(saved, hold) PROVE saved'.consumed = saved.consumed
  BY <1>a, <1>b, <1>c
<1>d. ASSUME NEW state, NEW c, NEW next, NEW n, Audit(c, state, n, next), state \in Operations
      PROVE  saved'.consumed = state.consumed
  BY <1>d DEF Audit, Operations
<1>1. CASE Controller
  <2>1. CASE Deliver
    <3>1. call.was = "none"
      BY <2>1, OffType DEF Deliver
    <3> QED
      BY <3>1
  <2>2. CASE Admit
    <3>1. CASE Throw(saved, FALSE)
      BY <3>1, <1>c
    <3>2. CASE saved' = saved
      BY <3>2
    <3> QED
      BY <2>2, <3>1, <3>2 DEF Admit, Flush
  <2>3. CASE RefinementWave
    <3>1. CASE Throw(saved, FALSE)
      BY <3>1, <1>c
    <3>2. CASE saved' = [saved EXCEPT !.phase = "refine"]
      BY <3>2, <1>a DEF Operations
    <3> QED
      BY <2>3, <3>1, <3>2 DEF RefinementWave, Flush
  <2>4. CASE Begin
    <3> DEFINE running == [saved EXCEPT !.status = "running", !.consumed = @ \union ({call.comment} \ {0})]
    <3>1. call.at = "begin"
      BY <2>4 DEF Begin
    <3>2. CASE saved' = [saved EXCEPT !.status = "ready"]
      BY <3>2, <1>a DEF Operations
    <3>3. CASE Audit(Admitted, running, 1, "brief") /\ call.comment = 0
      <4>1. running \in Operations /\ running.consumed = saved.consumed
        BY <3>3, <1>a DEF Operations, Statuses
      <4> HIDE DEF running
      <4> QED
        BY <3>3, <4>1, <1>d
    <3> QED
      BY <2>4, <3>1, <3>2, <3>3 DEF Begin
  <2>5. CASE Post
    <3> DEFINE ids  == Append(call.ids, Len(thread) + 1)
                rest == [saved EXCEPT !.outbox = Tail(@)]
                done == IF call.then = "settle" /\ rest.status = "awaiting-human"
                        THEN [rest EXCEPT !.boundary = Boundary(ids)] ELSE rest
    <3>1. CASE saved' \in {rest, done}
      <4>1. rest.consumed = saved.consumed /\ [rest EXCEPT !.boundary = Boundary(ids)].consumed = saved.consumed
        BY <1>a DEF Operations
      <4> QED
        BY <3>1, <4>1
    <3>2. CASE \E hold \in BOOLEAN : Throw([saved EXCEPT !.outbox = Unanswered(@)], hold)
      <4>1. [saved EXCEPT !.outbox = Unanswered(@)] = saved
        BY <1>a DEF Operations, Unanswered
      <4> QED
        BY <3>2, <4>1, <1>c
    <3> QED
      BY <2>5, <3>1, <3>2 DEF Post
  <2>6. CASE ReadBrief
    BY <2>6, <1>a, <1>c DEF ReadBrief, Operations
  <2>7. CASE Session
    BY <2>7, <1>a, <1>c DEF Session, Operations
  <2>8. CASE Ask
    <3>1. Throw([saved EXCEPT !.status = "awaiting-human"], FALSE)
      BY <2>8 DEF Ask, Question
    <3>2. [saved EXCEPT !.status = "awaiting-human"] \in Operations
          /\ [saved EXCEPT !.status = "awaiting-human"].consumed = saved.consumed
      BY <1>a DEF Operations, Statuses
    <3> QED
      BY <3>1, <3>2, <1>b
  <2>9. CASE Blocked
    <3>1. Throw([saved EXCEPT !.status = "paused"], FALSE)
      BY <2>9 DEF Blocked, Question
    <3>2. [saved EXCEPT !.status = "paused"] \in Operations
          /\ [saved EXCEPT !.status = "paused"].consumed = saved.consumed
      BY <1>a DEF Operations, Statuses
    <3> QED
      BY <3>1, <3>2, <1>b
  <2>10. CASE Refined
    <3>1. CASE Throw(saved, FALSE)
      BY <3>1, <1>c
    <3>2. CASE \E c, next : Audit(c, saved, 1, next)
      BY <3>2, <1>a, <1>d
    <3> QED
      BY <2>10, <3>1, <3>2 DEF Refined
  <2>11. CASE Specialized
    <3>1. CASE Throw(saved, FALSE)
      BY <3>1, <1>c
    <3>2. CASE Audit(call, saved, 1, "complete")
      BY <3>2, <1>a, <1>d
    <3> QED
      BY <2>11, <3>1, <3>2 DEF Specialized
  <2>12. CASE Complete
    BY <2>12, <1>a, <1>c DEF Complete, Operations
  <2>13. CASE Plan
    BY <2>13, <1>a, <1>c DEF Plan, Operations
  <2>14. CASE Decompose
    BY <2>14, <1>a, <1>c DEF Decompose, Goto
  <2>15. CASE Child
    BY <2>15, <1>a, <1>c DEF Child
  <2>16. CASE Link
    BY <2>16, <1>a, <1>c DEF Link
  <2>17. CASE Coordinate
    <3> DEFINE ready == [saved EXCEPT !.phase = "coordinate", !.status = "ready"]
    <3>1. CASE Throw(saved, FALSE)
      BY <3>1, <1>c
    <3>2. CASE Audit(call, ready, 1, "end")
      <4>1. ready \in Operations /\ ready.consumed = saved.consumed
        BY <1>a DEF Operations, Statuses
      <4> HIDE DEF ready
      <4> QED
        BY <3>2, <4>1, <1>d
    <3> QED
      BY <2>17, <3>1, <3>2 DEF Coordinate
  <2>18. CASE Fail
    BY <2>18, <1>a, <1>c DEF Fail
  <2>19. CASE Create
    BY <2>19 DEF Create
  <2> QED
    BY <1>1, <2>1, <2>2, <2>3, <2>4, <2>5, <2>6, <2>7, <2>8, <2>9, <2>10, <2>11, <2>12, <2>13,
       <2>14, <2>15, <2>16, <2>17, <2>18, <2>19 DEF Controller
<1>2. CASE Write
  BY <1>2 DEF Write
<1>3. CASE Edit
  BY <1>3 DEF Edit
<1>4. CASE UNCHANGED vars
  BY <1>4 DEF vars
<1>5. CASE Open
  BY <1>5 DEF Open
<1> QED
  BY <1>1, <1>2, <1>3, <1>4, <1>5 DEF Next

-----------------------------------------------------------------------------
LEMMA InitInv == Init => IInv
<1> SUFFICES ASSUME Init PROVE IInv
  OBVIOUS
<1>1. issue \in Issues
  <2>1. PICK kind \in {<<"none", "intake">>, <<"feature", "definition">>, <<"feature", "acceptance">>} :
          issue = [type |-> kind[1], stage |-> kind[2], ready |-> "not-ready"]
    BY DEF Init
  <2>2. kind[1] \in AllTypes \union {"none"} /\ kind[2] \in DOMAIN Transitions
    BY DEF AllTypes, Transitions
  <2>3. "not-ready" \in AllReadiness
    BY DEF AllReadiness
  <2> HIDE DEF Init
  <2> QED
    BY <2>1, <2>2, <2>3 DEF Issues
<1>2. child = [k \in Key |-> [issues |-> {}, linked |-> FALSE]] /\ opened = 0
  BY DEF Init
<1>3. thread = <<>> /\ thread \in Seq(Nat) /\ Len(thread) = 0 /\ texts = 0 /\ asked = {} /\ faults = 0
  BY EmptySeq DEF Init
<1>4. saved = NoOperation /\ saved \in Operations /\ saved.outbox = <<>> /\ saved.status = "none"
  BY EmptySeq DEF Init, NoOperation, Operations, Statuses
<1>5. call = Off /\ call \in Calls /\ call.at = "off"
  BY OffType DEF Init
<1>6. TypeOK /\ Numbered /\ Searched /\ OneChildPerKey
  <2>1. child \in Children
    BY <1>2 DEF Children
  <2>2. Numbered /\ Searched /\ OneChildPerKey
    BY <1>2, <1>5 DEF Numbered, Searched, OneChildPerKey
  <2> QED
    BY <1>1, <1>2, <1>3, <1>4, <1>5, <2>1, <2>2 DEF TypeOK
<1>7. Kept
  <2>1. Len(saved.outbox) = 0
    BY <1>4, EmptySeq
  <2> QED
    BY <1>3, <2>1 DEF Kept, Trail
<1> QED
  BY <1>4, <1>5, <1>6, <1>7 DEF IInv, Unstarted, Sending, Waiting, Admitting

LEMMA StepInv == IInv /\ [Next]_vars => IInv'
<1> SUFFICES ASSUME IInv, [Next]_vars PROVE IInv'
  OBVIOUS
<1>1. /\ TypeOK /\ Unstarted /\ Kept /\ Sending /\ Waiting /\ Admitting
      /\ Numbered /\ Searched /\ OneChildPerKey
  BY DEF IInv
<1>2. Typed
  BY <1>1, StepTypes
<1>3. Kept' /\ thread' \in Seq(Nat) /\ texts' \in Nat /\ asked' \subseteq 1..texts'
  BY <1>1, <1>2, KeptMoves
<1>4. issue' \in Issues /\ faults' \in Nat
  BY <1>1, IssueStep
<1>5. child' \in Children /\ opened' \in Nat /\ Numbered' /\ Searched' /\ OneChildPerKey'
  BY <1>1, ChildStep, SearchStep
<1>6. (Unstarted /\ Sending /\ Waiting /\ Admitting)'
  BY <1>1, CallStep
<1>7. TypeOK'
  BY <1>2, <1>3, <1>4, <1>5 DEF TypeOK, Typed
<1> QED
  BY <1>3, <1>5, <1>6, <1>7 DEF IInv

(* Every reachable state of an operation satisfies the inductive invariant. *)
THEOREM Invariant == Spec => []IInv
<1>1. Init => IInv
  BY InitInv
<1>2. IInv /\ [Next]_vars => IInv'
  BY StepInv
<1> QED
  BY <1>1, <1>2, PTL DEF Spec

(* The issue, its comments, the checkpoint and the call keep their types. *)
THEOREM TypeCorrect == Spec => []TypeOK
<1>1. IInv => TypeOK
  BY DEF IInv
<1> QED
  BY <1>1, Invariant, PTL

(* audit() and flush(): no text of the audit trail is lost and none overtakes an earlier
   one, whatever is posted twice because its answer was lost, and whenever a call fails. *)
THEOREM TrailInOrder == Spec => []AuditKeptInOrder
<1>1. IInv => AuditKeptInOrder
  BY TrailOrdered DEF IInv, TypeOK, Operations
<1> QED
  BY <1>1, Invariant, PTL

(* The search for the marker of a work item comes before each creation of its issue: also
   after creations whose answers were lost, and decompositions that began again, a work item
   has a second issue only when more issues and pull requests were opened between the two than
   a search reads, for any depth of the search. *)
THEOREM ChildUnique == Spec => []OneChildPerKey
<1>1. IInv => OneChildPerKey
  BY DEF IInv
<1> QED
  BY <1>1, Invariant, PTL

(* A call that is admitted as an answer goes on from a comment behind every comment of the
   question that the operation waits on: the boundary is the last of them, and nothing of a
   question is posted behind it without moving it. *)
THEOREM QuestionFirst == Spec => AnswersFollowQuestion
<1>1. IInv /\ [Next]_vars
        => [saved'.consumed # saved.consumed /\ call.was = "awaiting-human" =>
              \A i \in Questions : i < call.comment]_vars
  <2> SUFFICES ASSUME IInv, [Next]_vars, saved'.consumed # saved.consumed, call.was = "awaiting-human",
                      NEW i \in Questions
               PROVE  i < call.comment
    OBVIOUS
  <2>1. call.at = "begin" /\ call.comment # 0
    BY ConsumedStep DEF IInv, Consuming
  <2>2. saved.status = "awaiting-human" /\ call.comment > saved.boundary
    BY <2>1 DEF IInv, Admitting
  <2>3. i <= saved.boundary
    BY <2>1, <2>2 DEF IInv, Waiting, Settling
  <2>4. i \in Nat /\ saved.boundary \in Nat /\ call.comment \in Nat
    BY LenProperties DEF IInv, TypeOK, Operations, Calls, Questions
  <2> QED
    BY <2>2, <2>3, <2>4
<1> QED
  BY <1>1, Invariant, PTL DEF Spec, AnswersFollowQuestion
=============================================================================
