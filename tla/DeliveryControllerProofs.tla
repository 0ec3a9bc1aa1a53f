--------------------- MODULE DeliveryControllerProofs ---------------------
(***************************************************************************)
(* Proofs about DeliveryController for any limits, events, trees and       *)
(* issue.  The properties rest on how the call's state and the checkpoint  *)
(* agree at each point of the call (Agreement), on what the checkpoint     *)
(* reserves while the call works (Reservation), on the phases the points   *)
(* belong to, on a charge that runs ahead of what it pays for, and on what *)
(* of the issue the model has been shown (Seen).                           *)
(***************************************************************************)
EXTENDS DeliveryController, TLAPS

Working == {"begun", "minted", "authorized", "handoff"} \union Late

\* A call is for an event; from Begin on its state is the checkpoint.
Agreement ==
  /\ at # "off" => event \in Event
  /\ saved.status = "none" => saved = NoState
  /\ at \in {"off", "locked"} => mem = NoState
  /\ at = "opened" => (mem = saved /\ mem.status # "none") \/ (mem = Fresh /\ saved = NoState)
  /\ at \in Working \union {"flagging"} => mem = saved /\ mem.status # "none"
  /\ at \in {"closing", "revoking", "unlocking"} =>
       \/ mem = saved /\ mem.status # "none"
       \/ mem = NoState /\ loose \subseteq {"stray", "orphan"}

\* The active segment is reserved while the call works.
Reservation ==
  /\ at \in Working => mem.reserved
  /\ saved.status = "running" => saved.reserved
  /\ at \in {"opened", "begun", "minted", "authorized", "handoff", "closing", "revoking",
             "flagging", "unlocking"} => mem.status # "running"
  /\ at = "reporting" => mem.status = "ready"

\* Who holds the lock, and what it covers.
Ownership ==
  /\ at # "off" => lock
  /\ at \in {"locked", "opened", "begun"} => loose \subseteq {"stray", "orphan"}
  /\ at \in {"off", "flagging", "unlocking"} => "token" \notin loose
  /\ "client" \in loose => lock /\ (at = "off" \/ mem.reserved)

\* The charge comes before the turn, and before the check or its preparation.
Charge ==
  /\ turns <= saved.turns /\ checks <= saved.validations
  /\ at = "turning" => turns < saved.turns
  /\ at \in {"preparing", "verifying"} => checks < saved.validations /\ ~saved.prepared
  /\ saved.prepared => checks < saved.validations

\* The phase at the points of the publication, and the tree it stands for.
Publishing ==
  /\ at \in {"commit", "committing", "committed"} => mem.phase = "commit"
  /\ at \in {"publish", "pushing", "pushed", "reporting"} => mem.phase = "publish"
  /\ PublishedValidated

Remembered == acted \subseteq saved.events

IInv == TypeOK /\ Agreement /\ Reservation /\ Ownership /\ Charge /\ Publishing /\ Remembered
-----------------------------------------------------------------------------

(* A fresh operation and the absence of one are states. *)
LEMMA Blank == Fresh \in State /\ NoState \in State
<1>1. Fresh \in State
  <2>1. 0 \in 0..MaxAttempts /\ 0 \in 0..MaxTurns /\ 0 \in 0..MaxValidations /\ 0 \in 0..MaxTree
    BY LimitAssumption
  <2> QED
    BY <2>1 DEF Fresh, State, Status, Phase
<1> QED
  BY <1>1 DEF NoState, State, Status

(* The type invariant, part by part. *)
StateTyped == mem \in State /\ saved \in State
CallTyped ==
  /\ at \in Place /\ event \in Event \union {NoEvent}
  /\ brief \in [facts : SUBSET (1..MaxFacts), phase : Phase]
  /\ lock \in BOOLEAN /\ loose \subseteq {"client", "token", "stray", "orphan"}
WorldTyped ==
  /\ facts \in 1..MaxFacts /\ tree \in 0..MaxTree /\ head \in 0..MaxTree /\ pushed \in 0..MaxTree
  /\ turns \in Nat /\ checks \in Nat
  /\ passed \subseteq 0..MaxTree /\ shown \subseteq 1..MaxFacts /\ acted \subseteq Event

(* Together the parts are the type invariant. *)
LEMMA TypeParts == TypeOK <=> StateTyped /\ CallTyped /\ WorldTyped
BY DEF TypeOK, StateTyped, CallTyped, WorldTyped

(* The states keep their type. *)
LEMMA StateTypedStep == IInv /\ [Next]_vars => StateTyped'
<1> USE Blank, LimitAssumption, TypeParts
<1> SUFFICES ASSUME IInv, [Next]_vars PROVE StateTyped'
  OBVIOUS
<1> USE DEF IInv, StateTyped, State, Status, Phase, Goto, Still, Save, call, world, history
<1>1. CASE Admission
  <2>1. CASE Refuse
    BY <2>1 DEF Refuse, Held
  <2>2. CASE Admit
    BY <2>2 DEF Admit, Held
  <2>3. CASE Begin
    <3>1. mem.attempts + 1 \in 0..MaxAttempts
      BY <2>3 DEF Begin
    <3>2. [mem EXCEPT !.attempts = mem.attempts + 1, !.reserved = TRUE] \in State
      BY <3>1
    <3> QED
      BY <2>3, <3>2 DEF Begin
  <2>4. CASE Mint
    BY <2>4 DEF Mint
  <2>5. CASE Preflight
    BY <2>5 DEF Preflight
  <2>6. CASE Inactive
    BY <2>6 DEF Inactive
  <2>7. CASE Ignore
    BY <2>7 DEF Ignore, EventComplete
  <2>8. CASE Start
    <3>1. mem.events \union {event} \in SUBSET Event
      BY <2>8 DEF Start, Agreement
    <3>2. [mem EXCEPT !.events = mem.events \union {event}, !.status = "running"] \in State
      BY <3>1
    <3> QED
      BY <2>8, <3>2 DEF Start
  <2> QED
    BY <1>1, <2>1, <2>2, <2>3, <2>4, <2>5, <2>6, <2>7, <2>8 DEF Admission
<1>2. CASE Work
  <2>1. CASE OpenSession
    <3>1. Facts \ {event} \in SUBSET (1..MaxFacts)
      BY DEF Facts, TypeOK
    <3>2. [mem EXCEPT !.digest = Facts \ {event}] \in State /\ Invalidated(mem) \in State
      BY <3>1 DEF Invalidated
    <3> QED
      BY <2>1, <3>2 DEF OpenSession
  <2>2. CASE Absorb
    <3>1. Facts \in SUBSET (1..MaxFacts)
      BY DEF Facts, TypeOK
    <3>2. [mem EXCEPT !.digest = Facts] \in State
      BY <3>1
    <3> QED
      BY <2>2, <3>2 DEF Absorb
  <2>3. CASE ReserveTurn
    BY <2>3 DEF ReserveTurn
  <2>4. CASE Turn
    BY <2>4 DEF Turn
  <2>5. CASE AskHuman
    BY <2>5 DEF AskHuman
  <2>6. CASE AcceptPlan
    BY <2>6 DEF AcceptPlan, Enter
  <2>7. CASE CreateBranch
    BY <2>7 DEF CreateBranch, Enter
  <2>8. CASE AcceptWork
    BY <2>8 DEF AcceptWork
  <2> QED
    BY <1>2, <2>1, <2>2, <2>3, <2>4, <2>5, <2>6, <2>7, <2>8 DEF Work
<1>3. CASE Validation
  <2>1. CASE ReservePreparation
    <3>1. mem.validations + 1 \in 0..MaxValidations
      BY <2>1 DEF ReservePreparation
    <3>2. Charged(mem) \in State
      BY <3>1 DEF Charged
    <3> QED
      BY <2>1, <3>2 DEF ReservePreparation
  <2>2. CASE Prepared
    BY <2>2 DEF Prepared
  <2>3. CASE ReserveVerification
    <3>1. ~mem.prepared => mem.validations < MaxValidations
      BY <2>3 DEF ReserveVerification
    <3>2. ~mem.prepared => mem.validations + 1 \in 0..MaxValidations
      BY <3>1
    <3>3. ~mem.prepared => Charged(mem) \in State
      BY <3>2 DEF Charged
    <3>4. [mem EXCEPT !.prepared = FALSE] \in State
      OBVIOUS
    <3> QED
      BY <2>3, <3>3, <3>4 DEF ReserveVerification
  <2>4. CASE Verify
    BY <2>4 DEF Verify
  <2>5. CASE Pass
    <3>1. tree \in 0..MaxTree
      BY DEF TypeOK
    <3>2. [mem EXCEPT !.validated = tree, !.phase = "commit"] \in State
      BY <3>1
    <3> QED
      BY <2>5, <3>2 DEF Pass
  <2>6. CASE Reject
    BY <2>6 DEF Reject
  <2> QED
    BY <1>3, <2>1, <2>2, <2>3, <2>4, <2>5, <2>6 DEF Validation
<1>4. CASE Publication
  <2>1. CASE Recheck
    <3>1. Facts \in SUBSET (1..MaxFacts)
      BY DEF Facts, TypeOK
    <3>2. brief \in [facts : SUBSET (1..MaxFacts), phase : Phase] /\ brief' = [brief EXCEPT !.facts = Facts]
      BY <2>1 DEF Recheck, TypeOK
    <3>3. brief' \in [facts : SUBSET (1..MaxFacts), phase : Phase]
      BY <3>1, <3>2
    <3>4. at' \in {"committing", "pushing"} /\ loose' \subseteq loose
      BY <2>1 DEF Recheck, Goto
    <3>5. mem' = mem /\ saved' = saved
      BY <2>1 DEF Recheck
    <3>6. at' \in Place
      BY <3>4 DEF Place, Late
    <3> QED
      BY <2>1, <3>3, <3>4, <3>5, <3>6 DEF Recheck
  <2>2. CASE Stale
    BY <2>2 DEF Stale, Invalidated, Facts
  <2>3. CASE Commit
    <3>1. mem' = mem /\ saved' = saved
      BY <2>3 DEF Commit
    <3> QED
      BY <3>1
  <2>4. CASE Committed
    BY <2>4 DEF Committed
  <2>5. CASE Push
    <3>1. mem' = mem /\ saved' = saved
      BY <2>5 DEF Push
    <3> QED
      BY <3>1
  <2>6. CASE Complete
    BY <2>6 DEF Complete
  <2>7. CASE Reported
    BY <2>7 DEF Reported
  <2> QED
    BY <1>4, <2>1, <2>2, <2>3, <2>4, <2>5, <2>6, <2>7 DEF Publication
<1>5. CASE Ending
  <2>1. CASE HandOff
    BY <2>1 DEF HandOff
  <2>2. CASE Close
    <3>1. [mem EXCEPT !.reserved = FALSE] \in State
      OBVIOUS
    <3> QED
      BY <2>2, <3>1 DEF Close
  <2>3. CASE Revoke
    BY <2>3 DEF Revoke
  <2>4. CASE RevokeUncertain
    BY <2>4 DEF RevokeUncertain
  <2>5. CASE Flag
    <3>1. [mem EXCEPT !.status = "paused", !.cleanup = TRUE] \in State
      OBVIOUS
    <3> QED
      BY <2>5, <3>1, Blank DEF Flag, End
  <2>6. CASE Unlock
    BY <2>6 DEF Unlock, End
  <2>7. CASE Kill
    BY <2>7 DEF Kill, End
  <2> QED
    BY <1>5, <2>1, <2>2, <2>3, <2>4, <2>5, <2>6, <2>7 DEF Ending
<1>6. CASE \E e \in Event : Deliver(e)
  BY <1>6 DEF Deliver
<1>7. CASE \E hold \in BOOLEAN : Fail(hold)
  BY <1>7 DEF Fail
<1>8. CASE OperatorUnlocks
  BY <1>8 DEF OperatorUnlocks
<1>9. CASE Meddle
  BY <1>9 DEF Meddle
<1>10. CASE Discuss
  BY <1>10 DEF Discuss
<1>11. CASE UNCHANGED vars
  BY <1>11 DEF vars
<1> QED
  BY <1>1, <1>2, <1>3, <1>4, <1>5, <1>6, <1>7, <1>8, <1>9, <1>10, <1>11 DEF Next

(* The place and the event of the call keep their type. *)
LEMMA CallTypedStep == IInv /\ [Next]_vars => CallTyped'
<1> USE Blank, LimitAssumption, TypeParts
<1> SUFFICES ASSUME IInv, [Next]_vars PROVE CallTyped'
  OBVIOUS
<1> USE DEF IInv, CallTyped, NoBrief, Place, Phase, Early, Late, WorldTyped, Goto, Still, Save,
   call, world, history
<1>1. CASE Admission
  <2>1. CASE Refuse
    BY <2>1 DEF Refuse, Held
  <2>2. CASE Admit
    BY <2>2 DEF Admit, Held
  <2>3. CASE Begin
    BY <2>3 DEF Begin
  <2>4. CASE Mint
    BY <2>4 DEF Mint
  <2>5. CASE Preflight
    BY <2>5 DEF Preflight
  <2>6. CASE Inactive
    BY <2>6 DEF Inactive
  <2>7. CASE Ignore
    BY <2>7 DEF Ignore, EventComplete
  <2>8. CASE Start
    BY <2>8 DEF Start, Exhausted, EventComplete
  <2> QED
    BY <1>1, <2>1, <2>2, <2>3, <2>4, <2>5, <2>6, <2>7, <2>8 DEF Admission
<1>2. CASE Work
  <2>1. CASE OpenSession
    <3>1. Facts \ {event} \subseteq 1..MaxFacts
      BY DEF Facts, WorldTyped
    <3>2. mem.phase \in Phase
      BY DEF StateTyped, State
    <3>3. brief' = [facts |-> Facts \ {event}, phase |-> mem.phase]
      BY <2>1 DEF OpenSession
    <3>4. brief' \in [facts : SUBSET (1..MaxFacts), phase : Phase]
      BY <3>1, <3>2, <3>3
    <3>5. at' \in {"absorb", "broken"}
      BY <2>1 DEF OpenSession
    <3> QED
      BY <2>1, <3>4, <3>5 DEF OpenSession
  <2>2. CASE Absorb
    BY <2>2 DEF Absorb, Enter, Facts
  <2>3. CASE ReserveTurn
    BY <2>3 DEF ReserveTurn
  <2>4. CASE Turn
    BY <2>4 DEF Turn
  <2>5. CASE AskHuman
    BY <2>5 DEF AskHuman
  <2>6. CASE AcceptPlan
    BY <2>6 DEF AcceptPlan, Enter
  <2>7. CASE CreateBranch
    BY <2>7 DEF CreateBranch, Enter
  <2>8. CASE AcceptWork
    BY <2>8 DEF AcceptWork
  <2> QED
    BY <1>2, <2>1, <2>2, <2>3, <2>4, <2>5, <2>6, <2>7, <2>8 DEF Work
<1>3. CASE Validation
  <2>1. CASE ReservePreparation
    BY <2>1 DEF ReservePreparation, Charged
  <2>2. CASE Prepared
    BY <2>2 DEF Prepared
  <2>3. CASE ReserveVerification
    BY <2>3 DEF ReserveVerification, Charged
  <2>4. CASE Verify
    BY <2>4 DEF Verify
  <2>5. CASE Pass
    BY <2>5 DEF Pass
  <2>6. CASE Reject
    BY <2>6 DEF Reject
  <2> QED
    BY <1>3, <2>1, <2>2, <2>3, <2>4, <2>5, <2>6 DEF Validation
<1>4. CASE Publication
  <2>1. CASE Recheck
    BY <2>1 DEF Recheck, Facts
  <2>2. CASE Stale
    BY <2>2 DEF Stale, Invalidated, Facts
  <2>3. CASE Commit
    BY <2>3 DEF Commit, Facts
  <2>4. CASE Committed
    BY <2>4 DEF Committed
  <2>5. CASE Push
    BY <2>5 DEF Push, Facts
  <2>6. CASE Complete
    BY <2>6 DEF Complete
  <2>7. CASE Reported
    BY <2>7 DEF Reported
  <2> QED
    BY <1>4, <2>1, <2>2, <2>3, <2>4, <2>5, <2>6, <2>7 DEF Publication
<1>5. CASE Ending
  <2>1. CASE HandOff
    BY <2>1 DEF HandOff
  <2>2. CASE Close
    BY <2>2 DEF Close
  <2>3. CASE Revoke
    BY <2>3 DEF Revoke
  <2>4. CASE RevokeUncertain
    BY <2>4 DEF RevokeUncertain
  <2>5. CASE Flag
    BY <2>5 DEF Flag, End
  <2>6. CASE Unlock
    <3>1. mem.reserved \in BOOLEAN
      BY DEF StateTyped, State
    <3> QED
      BY <2>6, <3>1 DEF Unlock, End
  <2>7. CASE Kill
    BY <2>7 DEF Kill, End
  <2> QED
    BY <1>5, <2>1, <2>2, <2>3, <2>4, <2>5, <2>6, <2>7 DEF Ending
<1>6. CASE \E e \in Event : Deliver(e)
  BY <1>6 DEF Deliver
<1>7. CASE \E hold \in BOOLEAN : Fail(hold)
  BY <1>7 DEF Fail
<1>8. CASE OperatorUnlocks
  BY <1>8 DEF OperatorUnlocks
<1>9. CASE Meddle
  BY <1>9 DEF Meddle
<1>10. CASE Discuss
  BY <1>10 DEF Discuss
<1>11. CASE UNCHANGED vars
  BY <1>11 DEF vars
<1> QED
  BY <1>1, <1>2, <1>3, <1>4, <1>5, <1>6, <1>7, <1>8, <1>9, <1>10, <1>11 DEF Next

(* The world and the history keep their type. *)
LEMMA WorldTypedStep == IInv /\ [Next]_vars => WorldTyped'
<1> USE Blank, LimitAssumption, TypeParts
<1> SUFFICES ASSUME IInv, [Next]_vars PROVE WorldTyped'
  OBVIOUS
<1> USE DEF IInv, WorldTyped, CallTyped, Goto, Still, Save, call, world, history
<1>1. CASE Admission
  <2>1. CASE Refuse
    BY <2>1 DEF Refuse, Held
  <2>2. CASE Admit
    BY <2>2 DEF Admit, Held
  <2>3. CASE Begin
    BY <2>3 DEF Begin
  <2>4. CASE Mint
    BY <2>4 DEF Mint
  <2>5. CASE Preflight
    BY <2>5 DEF Preflight
  <2>6. CASE Inactive
    BY <2>6 DEF Inactive
  <2>7. CASE Ignore
    BY <2>7 DEF Ignore, EventComplete
  <2>8. CASE Start
    <3>1. event \in Event
      BY <2>8 DEF Start, Agreement
    <3> QED
      BY <2>8, <3>1 DEF Start
  <2> QED
    BY <1>1, <2>1, <2>2, <2>3, <2>4, <2>5, <2>6, <2>7, <2>8 DEF Admission
<1>2. CASE Work
  <2>1. CASE OpenSession
    BY <2>1 DEF OpenSession, Invalidated, Facts
  <2>2. CASE Absorb
    BY <2>2 DEF Absorb, Enter, Facts
  <2>3. CASE ReserveTurn
    BY <2>3 DEF ReserveTurn
  <2>4. CASE Turn
    <3>1. Trigger \subseteq 1..MaxFacts
      BY EventAssumption
    <3>2. brief.facts \subseteq 1..MaxFacts
      OBVIOUS
    <3>3. shown' \subseteq 1..MaxFacts
      BY <2>4, <3>1, <3>2 DEF Turn
    <3> QED
      BY <2>4, <3>3 DEF Turn
  <2>5. CASE AskHuman
    BY <2>5 DEF AskHuman
  <2>6. CASE AcceptPlan
    BY <2>6 DEF AcceptPlan, Enter
  <2>7. CASE CreateBranch
    BY <2>7 DEF CreateBranch, Enter
  <2>8. CASE AcceptWork
    BY <2>8 DEF AcceptWork
  <2> QED
    BY <1>2, <2>1, <2>2, <2>3, <2>4, <2>5, <2>6, <2>7, <2>8 DEF Work
<1>3. CASE Validation
  <2>1. CASE ReservePreparation
    BY <2>1 DEF ReservePreparation, Charged
  <2>2. CASE Prepared
    BY <2>2 DEF Prepared
  <2>3. CASE ReserveVerification
    BY <2>3 DEF ReserveVerification, Charged
  <2>4. CASE Verify
    BY <2>4 DEF Verify
  <2>5. CASE Pass
    BY <2>5 DEF Pass
  <2>6. CASE Reject
    BY <2>6 DEF Reject
  <2> QED
    BY <1>3, <2>1, <2>2, <2>3, <2>4, <2>5, <2>6 DEF Validation
<1>4. CASE Publication
  <2>1. CASE Recheck
    BY <2>1 DEF Recheck, Facts
  <2>2. CASE Stale
    BY <2>2 DEF Stale, Invalidated, Facts
  <2>3. CASE Commit
    BY <2>3 DEF Commit, Facts
  <2>4. CASE Committed
    BY <2>4 DEF Committed
  <2>5. CASE Push
    BY <2>5 DEF Push, Facts
  <2>6. CASE Complete
    BY <2>6 DEF Complete
  <2>7. CASE Reported
    BY <2>7 DEF Reported
  <2> QED
    BY <1>4, <2>1, <2>2, <2>3, <2>4, <2>5, <2>6, <2>7 DEF Publication
<1>5. CASE Ending
  <2>1. CASE HandOff
    BY <2>1 DEF HandOff
  <2>2. CASE Close
    BY <2>2 DEF Close
  <2>3. CASE Revoke
    BY <2>3 DEF Revoke
  <2>4. CASE RevokeUncertain
    BY <2>4 DEF RevokeUncertain
  <2>5. CASE Flag
    BY <2>5 DEF Flag, End
  <2>6. CASE Unlock
    BY <2>6 DEF Unlock, End
  <2>7. CASE Kill
    BY <2>7 DEF Kill, End
  <2> QED
    BY <1>5, <2>1, <2>2, <2>3, <2>4, <2>5, <2>6, <2>7 DEF Ending
<1>6. CASE \E e \in Event : Deliver(e)
  BY <1>6 DEF Deliver
<1>7. CASE \E hold \in BOOLEAN : Fail(hold)
  BY <1>7 DEF Fail
<1>8. CASE OperatorUnlocks
  BY <1>8 DEF OperatorUnlocks
<1>9. CASE Meddle
  BY <1>9 DEF Meddle
<1>10. CASE Discuss
  BY <1>10 DEF Discuss
<1>11. CASE UNCHANGED vars
  BY <1>11 DEF vars
<1> QED
  BY <1>1, <1>2, <1>3, <1>4, <1>5, <1>6, <1>7, <1>8, <1>9, <1>10, <1>11 DEF Next

(* TypeOK is kept by every step. *)
LEMMA TypeStep == IInv /\ [Next]_vars => TypeOK'
<1> SUFFICES ASSUME IInv, [Next]_vars PROVE TypeOK'
  OBVIOUS
<1>1. StateTyped' /\ CallTyped' /\ WorldTyped'
  BY StateTypedStep, CallTypedStep, WorldTypedStep
<1> QED
  BY <1>1 DEF TypeOK, StateTyped, CallTyped, WorldTyped

(* Agreement is kept by every step. *)
LEMMA AgreementStep == IInv /\ [Next]_vars => Agreement'
<1> SUFFICES ASSUME IInv, [Next]_vars PROVE Agreement'
  OBVIOUS
<1> USE DEF IInv, Agreement, Working, Late, Early, NoState, Fresh, Ownership, Reservation,
   TypeOK, State, Goto, Still, Save, call, world, history
<1>1. CASE Admission
  <2>1. CASE Refuse
    BY <2>1 DEF Refuse, Held
  <2>2. CASE Admit
    BY <2>2 DEF Admit, Held
  <2>3. CASE Begin
    BY <2>3 DEF Begin
  <2>4. CASE Mint
    BY <2>4 DEF Mint
  <2>5. CASE Preflight
    BY <2>5 DEF Preflight
  <2>6. CASE Inactive
    BY <2>6 DEF Inactive
  <2>7. CASE Ignore
    BY <2>7 DEF Ignore, EventComplete
  <2>8. CASE Start
    BY <2>8 DEF Start, Exhausted, EventComplete
  <2> QED
    BY <1>1, <2>1, <2>2, <2>3, <2>4, <2>5, <2>6, <2>7, <2>8 DEF Admission
<1>2. CASE Work
  <2>1. CASE OpenSession
    <3>1. mem = saved /\ mem.status # "none" /\ mem \in State
      BY <2>1 DEF OpenSession
    <3>2. \/ Save([mem EXCEPT !.digest = Facts \ {event}])
          \/ Save(Invalidated(mem))
          \/ UNCHANGED <<mem, saved>>
      BY <2>1 DEF OpenSession
    <3>3. mem' = saved' /\ mem'.status = mem.status
      BY <3>1, <3>2 DEF Invalidated
    <3>4. at' \in Late /\ at' # "opened" /\ event' = event /\ event \in Event
      BY <2>1 DEF OpenSession
    <3> QED
      BY <3>1, <3>3, <3>4
  <2>2. CASE Absorb
    BY <2>2 DEF Absorb, Enter, Facts
  <2>3. CASE ReserveTurn
    BY <2>3 DEF ReserveTurn
  <2>4. CASE Turn
    BY <2>4 DEF Turn
  <2>5. CASE AskHuman
    BY <2>5 DEF AskHuman
  <2>6. CASE AcceptPlan
    BY <2>6 DEF AcceptPlan, Enter
  <2>7. CASE CreateBranch
    BY <2>7 DEF CreateBranch, Enter
  <2>8. CASE AcceptWork
    BY <2>8 DEF AcceptWork
  <2> QED
    BY <1>2, <2>1, <2>2, <2>3, <2>4, <2>5, <2>6, <2>7, <2>8 DEF Work
<1>3. CASE Validation
  <2>1. CASE ReservePreparation
    BY <2>1 DEF ReservePreparation, Charged
  <2>2. CASE Prepared
    BY <2>2 DEF Prepared
  <2>3. CASE ReserveVerification
    BY <2>3 DEF ReserveVerification, Charged
  <2>4. CASE Verify
    BY <2>4 DEF Verify
  <2>5. CASE Pass
    BY <2>5 DEF Pass
  <2>6. CASE Reject
    BY <2>6 DEF Reject
  <2> QED
    BY <1>3, <2>1, <2>2, <2>3, <2>4, <2>5, <2>6 DEF Validation
<1>4. CASE Publication
  <2>1. CASE Recheck
    BY <2>1 DEF Recheck, Facts
  <2>2. CASE Stale
    BY <2>2 DEF Stale, Invalidated, Facts
  <2>3. CASE Commit
    BY <2>3 DEF Commit, Facts
  <2>4. CASE Committed
    BY <2>4 DEF Committed
  <2>5. CASE Push
    BY <2>5 DEF Push, Facts
  <2>6. CASE Complete
    BY <2>6 DEF Complete
  <2>7. CASE Reported
    BY <2>7 DEF Reported
  <2> QED
    BY <1>4, <2>1, <2>2, <2>3, <2>4, <2>5, <2>6, <2>7 DEF Publication
<1>5. CASE Ending
  <2>1. CASE HandOff
    BY <2>1 DEF HandOff
  <2>2. CASE Close
    <3>1. at = "closing" /\ at' = "revoking" /\ event' = event
      BY <2>2 DEF Close
    <3>2. CASE mem = NoState /\ loose \subseteq {"stray", "orphan"}
      <4>1. ~mem.reserved
        BY <3>2
      <4>2. mem' = mem /\ saved' = saved /\ loose' = loose \ {"client"}
        BY <2>2, <4>1 DEF Close
      <4> QED
        BY <3>1, <3>2, <4>2
    <3>3. CASE mem = saved /\ mem.status # "none"
      <4>1. mem' = saved' /\ mem'.status = mem.status
        BY <2>2, <3>3 DEF Close
      <4> QED
        BY <3>1, <3>3, <4>1
    <3> QED
      BY <3>1, <3>2, <3>3
  <2>3. CASE Revoke
    BY <2>3 DEF Revoke
  <2>4. CASE RevokeUncertain
    BY <2>4 DEF RevokeUncertain
  <2>5. CASE Flag
    BY <2>5 DEF Flag, End
  <2>6. CASE Unlock
    BY <2>6 DEF Unlock, End
  <2>7. CASE Kill
    BY <2>7 DEF Kill, End
  <2> QED
    BY <1>5, <2>1, <2>2, <2>3, <2>4, <2>5, <2>6, <2>7 DEF Ending
<1>6. CASE \E e \in Event : Deliver(e)
  BY <1>6 DEF Deliver
<1>7. CASE \E hold \in BOOLEAN : Fail(hold)
  BY <1>7 DEF Fail
<1>8. CASE OperatorUnlocks
  BY <1>8 DEF OperatorUnlocks
<1>9. CASE Meddle
  BY <1>9 DEF Meddle
<1>10. CASE Discuss
  BY <1>10 DEF Discuss
<1>11. CASE UNCHANGED vars
  BY <1>11 DEF vars
<1> QED
  BY <1>1, <1>2, <1>3, <1>4, <1>5, <1>6, <1>7, <1>8, <1>9, <1>10, <1>11 DEF Next

(* Reservation is kept by every step. *)
LEMMA ReservationStep == IInv /\ [Next]_vars => Reservation'
<1> SUFFICES ASSUME IInv, [Next]_vars PROVE Reservation'
  OBVIOUS
<1> USE DEF IInv, Reservation, Working, Late, Early, Agreement, NoState, Fresh, TypeOK, State,
   Goto, Still, Save, call, world, history
<1>1. CASE Admission
  <2>1. CASE Refuse
    BY <2>1 DEF Refuse, Held
  <2>2. CASE Admit
    BY <2>2 DEF Admit, Held
  <2>3. CASE Begin
    BY <2>3 DEF Begin
  <2>4. CASE Mint
    BY <2>4 DEF Mint
  <2>5. CASE Preflight
    BY <2>5 DEF Preflight
  <2>6. CASE Inactive
    BY <2>6 DEF Inactive
  <2>7. CASE Ignore
    BY <2>7 DEF Ignore, EventComplete
  <2>8. CASE Start
    BY <2>8 DEF Start, Exhausted, EventComplete
  <2> QED
    BY <1>1, <2>1, <2>2, <2>3, <2>4, <2>5, <2>6, <2>7, <2>8 DEF Admission
<1>2. CASE Work
  <2>1. CASE OpenSession
    BY <2>1 DEF OpenSession, Invalidated, Facts
  <2>2. CASE Absorb
    BY <2>2 DEF Absorb, Enter, Facts
  <2>3. CASE ReserveTurn
    BY <2>3 DEF ReserveTurn
  <2>4. CASE Turn
    BY <2>4 DEF Turn
  <2>5. CASE AskHuman
    BY <2>5 DEF AskHuman
  <2>6. CASE AcceptPlan
    BY <2>6 DEF AcceptPlan, Enter
  <2>7. CASE CreateBranch
    BY <2>7 DEF CreateBranch, Enter
  <2>8. CASE AcceptWork
    BY <2>8 DEF AcceptWork
  <2> QED
    BY <1>2, <2>1, <2>2, <2>3, <2>4, <2>5, <2>6, <2>7, <2>8 DEF Work
<1>3. CASE Validation
  <2>1. CASE ReservePreparation
    BY <2>1 DEF ReservePreparation, Charged
  <2>2. CASE Prepared
    BY <2>2 DEF Prepared
  <2>3. CASE ReserveVerification
    BY <2>3 DEF ReserveVerification, Charged
  <2>4. CASE Verify
    BY <2>4 DEF Verify
  <2>5. CASE Pass
    BY <2>5 DEF Pass
  <2>6. CASE Reject
    BY <2>6 DEF Reject
  <2> QED
    BY <1>3, <2>1, <2>2, <2>3, <2>4, <2>5, <2>6 DEF Validation
<1>4. CASE Publication
  <2>1. CASE Recheck
    BY <2>1 DEF Recheck, Facts
  <2>2. CASE Stale
    BY <2>2 DEF Stale, Invalidated, Facts
  <2>3. CASE Commit
    BY <2>3 DEF Commit, Facts
  <2>4. CASE Committed
    BY <2>4 DEF Committed
  <2>5. CASE Push
    BY <2>5 DEF Push, Facts
  <2>6. CASE Complete
    BY <2>6 DEF Complete
  <2>7. CASE Reported
    BY <2>7 DEF Reported
  <2> QED
    BY <1>4, <2>1, <2>2, <2>3, <2>4, <2>5, <2>6, <2>7 DEF Publication
<1>5. CASE Ending
  <2>1. CASE HandOff
    BY <2>1 DEF HandOff
  <2>2. CASE Close
    BY <2>2 DEF Close
  <2>3. CASE Revoke
    BY <2>3 DEF Revoke
  <2>4. CASE RevokeUncertain
    BY <2>4 DEF RevokeUncertain
  <2>5. CASE Flag
    BY <2>5 DEF Flag, End
  <2>6. CASE Unlock
    BY <2>6 DEF Unlock, End
  <2>7. CASE Kill
    BY <2>7 DEF Kill, End
  <2> QED
    BY <1>5, <2>1, <2>2, <2>3, <2>4, <2>5, <2>6, <2>7 DEF Ending
<1>6. CASE \E e \in Event : Deliver(e)
  BY <1>6 DEF Deliver
<1>7. CASE \E hold \in BOOLEAN : Fail(hold)
  BY <1>7 DEF Fail
<1>8. CASE OperatorUnlocks
  BY <1>8 DEF OperatorUnlocks
<1>9. CASE Meddle
  BY <1>9 DEF Meddle
<1>10. CASE Discuss
  BY <1>10 DEF Discuss
<1>11. CASE UNCHANGED vars
  BY <1>11 DEF vars
<1> QED
  BY <1>1, <1>2, <1>3, <1>4, <1>5, <1>6, <1>7, <1>8, <1>9, <1>10, <1>11 DEF Next

(* Ownership is kept by every step. *)
LEMMA OwnershipStep == IInv /\ [Next]_vars => Ownership'
<1> SUFFICES ASSUME IInv, [Next]_vars PROVE Ownership'
  OBVIOUS
<1> USE DEF IInv, Ownership, Working, Late, Early, Agreement, Reservation, NoState, Fresh,
   TypeOK, State, Goto, Still, Save, call, world, history
<1>1. CASE Admission
  <2>1. CASE Refuse
    BY <2>1 DEF Refuse, Held
  <2>2. CASE Admit
    BY <2>2 DEF Admit, Held
  <2>3. CASE Begin
    BY <2>3 DEF Begin
  <2>4. CASE Mint
    BY <2>4 DEF Mint
  <2>5. CASE Preflight
    BY <2>5 DEF Preflight
  <2>6. CASE Inactive
    BY <2>6 DEF Inactive
  <2>7. CASE Ignore
    BY <2>7 DEF Ignore, EventComplete
  <2>8. CASE Start
    BY <2>8 DEF Start, Exhausted, EventComplete
  <2> QED
    BY <1>1, <2>1, <2>2, <2>3, <2>4, <2>5, <2>6, <2>7, <2>8 DEF Admission
<1>2. CASE Work
  <2>1. CASE OpenSession
    BY <2>1 DEF OpenSession, Invalidated, Facts
  <2>2. CASE Absorb
    BY <2>2 DEF Absorb, Enter, Facts
  <2>3. CASE ReserveTurn
    BY <2>3 DEF ReserveTurn
  <2>4. CASE Turn
    BY <2>4 DEF Turn
  <2>5. CASE AskHuman
    BY <2>5 DEF AskHuman
  <2>6. CASE AcceptPlan
    BY <2>6 DEF AcceptPlan, Enter
  <2>7. CASE CreateBranch
    BY <2>7 DEF CreateBranch, Enter
  <2>8. CASE AcceptWork
    BY <2>8 DEF AcceptWork
  <2> QED
    BY <1>2, <2>1, <2>2, <2>3, <2>4, <2>5, <2>6, <2>7, <2>8 DEF Work
<1>3. CASE Validation
  <2>1. CASE ReservePreparation
    BY <2>1 DEF ReservePreparation, Charged
  <2>2. CASE Prepared
    BY <2>2 DEF Prepared
  <2>3. CASE ReserveVerification
    BY <2>3 DEF ReserveVerification, Charged
  <2>4. CASE Verify
    BY <2>4 DEF Verify
  <2>5. CASE Pass
    BY <2>5 DEF Pass
  <2>6. CASE Reject
    BY <2>6 DEF Reject
  <2> QED
    BY <1>3, <2>1, <2>2, <2>3, <2>4, <2>5, <2>6 DEF Validation
<1>4. CASE Publication
  <2>1. CASE Recheck
    BY <2>1 DEF Recheck, Facts
  <2>2. CASE Stale
    BY <2>2 DEF Stale, Invalidated, Facts
  <2>3. CASE Commit
    BY <2>3 DEF Commit, Facts
  <2>4. CASE Committed
    BY <2>4 DEF Committed
  <2>5. CASE Push
    BY <2>5 DEF Push, Facts
  <2>6. CASE Complete
    BY <2>6 DEF Complete
  <2>7. CASE Reported
    BY <2>7 DEF Reported
  <2> QED
    BY <1>4, <2>1, <2>2, <2>3, <2>4, <2>5, <2>6, <2>7 DEF Publication
<1>5. CASE Ending
  <2>1. CASE HandOff
    BY <2>1 DEF HandOff
  <2>2. CASE Close
    BY <2>2 DEF Close
  <2>3. CASE Revoke
    BY <2>3 DEF Revoke
  <2>4. CASE RevokeUncertain
    BY <2>4 DEF RevokeUncertain
  <2>5. CASE Flag
    BY <2>5 DEF Flag, End
  <2>6. CASE Unlock
    BY <2>6 DEF Unlock, End
  <2>7. CASE Kill
    BY <2>7 DEF Kill, End
  <2> QED
    BY <1>5, <2>1, <2>2, <2>3, <2>4, <2>5, <2>6, <2>7 DEF Ending
<1>6. CASE \E e \in Event : Deliver(e)
  BY <1>6 DEF Deliver
<1>7. CASE \E hold \in BOOLEAN : Fail(hold)
  BY <1>7 DEF Fail
<1>8. CASE OperatorUnlocks
  BY <1>8 DEF OperatorUnlocks
<1>9. CASE Meddle
  BY <1>9 DEF Meddle
<1>10. CASE Discuss
  BY <1>10 DEF Discuss
<1>11. CASE UNCHANGED vars
  BY <1>11 DEF vars
<1> QED
  BY <1>1, <1>2, <1>3, <1>4, <1>5, <1>6, <1>7, <1>8, <1>9, <1>10, <1>11 DEF Next

(* Charge is kept by every step. *)
LEMMA ChargeStep == IInv /\ [Next]_vars => Charge'
<1> SUFFICES ASSUME IInv, [Next]_vars PROVE Charge'
  OBVIOUS
<1> USE DEF IInv, Charge, Working, Late, Early, Agreement, NoState, Fresh, TypeOK, State, Goto,
   Still, Save, call, world, history
<1>1. CASE Admission
  <2>1. CASE Refuse
    BY <2>1 DEF Refuse, Held
  <2>2. CASE Admit
    BY <2>2 DEF Admit, Held
  <2>3. CASE Begin
    BY <2>3 DEF Begin
  <2>4. CASE Mint
    BY <2>4 DEF Mint
  <2>5. CASE Preflight
    BY <2>5 DEF Preflight
  <2>6. CASE Inactive
    BY <2>6 DEF Inactive
  <2>7. CASE Ignore
    BY <2>7 DEF Ignore, EventComplete
  <2>8. CASE Start
    BY <2>8 DEF Start, Exhausted, EventComplete
  <2> QED
    BY <1>1, <2>1, <2>2, <2>3, <2>4, <2>5, <2>6, <2>7, <2>8 DEF Admission
<1>2. CASE Work
  <2>1. CASE OpenSession
    BY <2>1 DEF OpenSession, Invalidated, Facts
  <2>2. CASE Absorb
    BY <2>2 DEF Absorb, Enter, Facts
  <2>3. CASE ReserveTurn
    BY <2>3 DEF ReserveTurn
  <2>4. CASE Turn
    BY <2>4 DEF Turn
  <2>5. CASE AskHuman
    BY <2>5 DEF AskHuman
  <2>6. CASE AcceptPlan
    BY <2>6 DEF AcceptPlan, Enter
  <2>7. CASE CreateBranch
    BY <2>7 DEF CreateBranch, Enter
  <2>8. CASE AcceptWork
    BY <2>8 DEF AcceptWork
  <2> QED
    BY <1>2, <2>1, <2>2, <2>3, <2>4, <2>5, <2>6, <2>7, <2>8 DEF Work
<1>3. CASE Validation
  <2>1. CASE ReservePreparation
    BY <2>1 DEF ReservePreparation, Charged
  <2>2. CASE Prepared
    BY <2>2 DEF Prepared
  <2>3. CASE ReserveVerification
    BY <2>3 DEF ReserveVerification, Charged
  <2>4. CASE Verify
    BY <2>4 DEF Verify
  <2>5. CASE Pass
    BY <2>5 DEF Pass
  <2>6. CASE Reject
    BY <2>6 DEF Reject
  <2> QED
    BY <1>3, <2>1, <2>2, <2>3, <2>4, <2>5, <2>6 DEF Validation
<1>4. CASE Publication
  <2>1. CASE Recheck
    BY <2>1 DEF Recheck, Facts
  <2>2. CASE Stale
    BY <2>2 DEF Stale, Invalidated, Facts
  <2>3. CASE Commit
    BY <2>3 DEF Commit, Facts
  <2>4. CASE Committed
    BY <2>4 DEF Committed
  <2>5. CASE Push
    BY <2>5 DEF Push, Facts
  <2>6. CASE Complete
    BY <2>6 DEF Complete
  <2>7. CASE Reported
    BY <2>7 DEF Reported
  <2> QED
    BY <1>4, <2>1, <2>2, <2>3, <2>4, <2>5, <2>6, <2>7 DEF Publication
<1>5. CASE Ending
  <2>1. CASE HandOff
    BY <2>1 DEF HandOff
  <2>2. CASE Close
    BY <2>2 DEF Close
  <2>3. CASE Revoke
    BY <2>3 DEF Revoke
  <2>4. CASE RevokeUncertain
    BY <2>4 DEF RevokeUncertain
  <2>5. CASE Flag
    BY <2>5 DEF Flag, End
  <2>6. CASE Unlock
    BY <2>6 DEF Unlock, End
  <2>7. CASE Kill
    BY <2>7 DEF Kill, End
  <2> QED
    BY <1>5, <2>1, <2>2, <2>3, <2>4, <2>5, <2>6, <2>7 DEF Ending
<1>6. CASE \E e \in Event : Deliver(e)
  BY <1>6 DEF Deliver
<1>7. CASE \E hold \in BOOLEAN : Fail(hold)
  BY <1>7 DEF Fail
<1>8. CASE OperatorUnlocks
  BY <1>8 DEF OperatorUnlocks
<1>9. CASE Meddle
  BY <1>9 DEF Meddle
<1>10. CASE Discuss
  BY <1>10 DEF Discuss
<1>11. CASE UNCHANGED vars
  BY <1>11 DEF vars
<1> QED
  BY <1>1, <1>2, <1>3, <1>4, <1>5, <1>6, <1>7, <1>8, <1>9, <1>10, <1>11 DEF Next

(* Publishing is kept by every step. *)
LEMMA PublishingStep == IInv /\ [Next]_vars => Publishing'
<1> SUFFICES ASSUME IInv, [Next]_vars PROVE Publishing'
  OBVIOUS
<1> USE DEF IInv, Publishing, Working, Late, Early, PublishedValidated, Agreement, NoState,
   Fresh, TypeOK, State, Goto, Still, Save, call, world, history
<1>1. CASE Admission
  <2>1. CASE Refuse
    BY <2>1 DEF Refuse, Held
  <2>2. CASE Admit
    BY <2>2 DEF Admit, Held
  <2>3. CASE Begin
    BY <2>3 DEF Begin
  <2>4. CASE Mint
    BY <2>4 DEF Mint
  <2>5. CASE Preflight
    BY <2>5 DEF Preflight
  <2>6. CASE Inactive
    BY <2>6 DEF Inactive
  <2>7. CASE Ignore
    BY <2>7 DEF Ignore, EventComplete
  <2>8. CASE Start
    BY <2>8 DEF Start, Exhausted, EventComplete
  <2> QED
    BY <1>1, <2>1, <2>2, <2>3, <2>4, <2>5, <2>6, <2>7, <2>8 DEF Admission
<1>2. CASE Work
  <2>1. CASE OpenSession
    BY <2>1 DEF OpenSession, Invalidated, Facts
  <2>2. CASE Absorb
    BY <2>2 DEF Absorb, Enter, Facts
  <2>3. CASE ReserveTurn
    BY <2>3 DEF ReserveTurn
  <2>4. CASE Turn
    BY <2>4 DEF Turn
  <2>5. CASE AskHuman
    BY <2>5 DEF AskHuman
  <2>6. CASE AcceptPlan
    BY <2>6 DEF AcceptPlan, Enter
  <2>7. CASE CreateBranch
    BY <2>7 DEF CreateBranch, Enter
  <2>8. CASE AcceptWork
    BY <2>8 DEF AcceptWork
  <2> QED
    BY <1>2, <2>1, <2>2, <2>3, <2>4, <2>5, <2>6, <2>7, <2>8 DEF Work
<1>3. CASE Validation
  <2>1. CASE ReservePreparation
    BY <2>1 DEF ReservePreparation, Charged
  <2>2. CASE Prepared
    BY <2>2 DEF Prepared
  <2>3. CASE ReserveVerification
    BY <2>3 DEF ReserveVerification, Charged
  <2>4. CASE Verify
    BY <2>4 DEF Verify
  <2>5. CASE Pass
    BY <2>5 DEF Pass
  <2>6. CASE Reject
    BY <2>6 DEF Reject
  <2> QED
    BY <1>3, <2>1, <2>2, <2>3, <2>4, <2>5, <2>6 DEF Validation
<1>4. CASE Publication
  <2>1. CASE Recheck
    BY <2>1 DEF Recheck, Facts
  <2>2. CASE Stale
    BY <2>2 DEF Stale, Invalidated, Facts
  <2>3. CASE Commit
    BY <2>3 DEF Commit, Facts
  <2>4. CASE Committed
    BY <2>4 DEF Committed
  <2>5. CASE Push
    BY <2>5 DEF Push, Facts
  <2>6. CASE Complete
    BY <2>6 DEF Complete
  <2>7. CASE Reported
    BY <2>7 DEF Reported
  <2> QED
    BY <1>4, <2>1, <2>2, <2>3, <2>4, <2>5, <2>6, <2>7 DEF Publication
<1>5. CASE Ending
  <2>1. CASE HandOff
    BY <2>1 DEF HandOff
  <2>2. CASE Close
    BY <2>2 DEF Close
  <2>3. CASE Revoke
    BY <2>3 DEF Revoke
  <2>4. CASE RevokeUncertain
    BY <2>4 DEF RevokeUncertain
  <2>5. CASE Flag
    BY <2>5 DEF Flag, End
  <2>6. CASE Unlock
    BY <2>6 DEF Unlock, End
  <2>7. CASE Kill
    BY <2>7 DEF Kill, End
  <2> QED
    BY <1>5, <2>1, <2>2, <2>3, <2>4, <2>5, <2>6, <2>7 DEF Ending
<1>6. CASE \E e \in Event : Deliver(e)
  BY <1>6 DEF Deliver
<1>7. CASE \E hold \in BOOLEAN : Fail(hold)
  BY <1>7 DEF Fail
<1>8. CASE OperatorUnlocks
  BY <1>8 DEF OperatorUnlocks
<1>9. CASE Meddle
  BY <1>9 DEF Meddle
<1>10. CASE Discuss
  BY <1>10 DEF Discuss
<1>11. CASE UNCHANGED vars
  BY <1>11 DEF vars
<1> QED
  BY <1>1, <1>2, <1>3, <1>4, <1>5, <1>6, <1>7, <1>8, <1>9, <1>10, <1>11 DEF Next

(* Remembered is kept by every step. *)
LEMMA RememberedStep == IInv /\ [Next]_vars => Remembered'
<1> SUFFICES ASSUME IInv, [Next]_vars PROVE Remembered'
  OBVIOUS
<1> USE DEF IInv, Remembered, Working, Late, Early, Agreement, NoState, Fresh, TypeOK, State,
   Goto, Still, Save, call, world, history
<1>1. CASE Admission
  <2>1. CASE Refuse
    BY <2>1 DEF Refuse, Held
  <2>2. CASE Admit
    BY <2>2 DEF Admit, Held
  <2>3. CASE Begin
    BY <2>3 DEF Begin
  <2>4. CASE Mint
    BY <2>4 DEF Mint
  <2>5. CASE Preflight
    BY <2>5 DEF Preflight
  <2>6. CASE Inactive
    BY <2>6 DEF Inactive
  <2>7. CASE Ignore
    BY <2>7 DEF Ignore, EventComplete
  <2>8. CASE Start
    BY <2>8 DEF Start, Exhausted, EventComplete
  <2> QED
    BY <1>1, <2>1, <2>2, <2>3, <2>4, <2>5, <2>6, <2>7, <2>8 DEF Admission
<1>2. CASE Work
  <2>1. CASE OpenSession
    BY <2>1 DEF OpenSession, Invalidated, Facts
  <2>2. CASE Absorb
    BY <2>2 DEF Absorb, Enter, Facts
  <2>3. CASE ReserveTurn
    BY <2>3 DEF ReserveTurn
  <2>4. CASE Turn
    BY <2>4 DEF Turn
  <2>5. CASE AskHuman
    BY <2>5 DEF AskHuman
  <2>6. CASE AcceptPlan
    BY <2>6 DEF AcceptPlan, Enter
  <2>7. CASE CreateBranch
    BY <2>7 DEF CreateBranch, Enter
  <2>8. CASE AcceptWork
    BY <2>8 DEF AcceptWork
  <2> QED
    BY <1>2, <2>1, <2>2, <2>3, <2>4, <2>5, <2>6, <2>7, <2>8 DEF Work
<1>3. CASE Validation
  <2>1. CASE ReservePreparation
    BY <2>1 DEF ReservePreparation, Charged
  <2>2. CASE Prepared
    BY <2>2 DEF Prepared
  <2>3. CASE ReserveVerification
    BY <2>3 DEF ReserveVerification, Charged
  <2>4. CASE Verify
    BY <2>4 DEF Verify
  <2>5. CASE Pass
    BY <2>5 DEF Pass
  <2>6. CASE Reject
    BY <2>6 DEF Reject
  <2> QED
    BY <1>3, <2>1, <2>2, <2>3, <2>4, <2>5, <2>6 DEF Validation
<1>4. CASE Publication
  <2>1. CASE Recheck
    BY <2>1 DEF Recheck, Facts
  <2>2. CASE Stale
    BY <2>2 DEF Stale, Invalidated, Facts
  <2>3. CASE Commit
    BY <2>3 DEF Commit, Facts
  <2>4. CASE Committed
    BY <2>4 DEF Committed
  <2>5. CASE Push
    BY <2>5 DEF Push, Facts
  <2>6. CASE Complete
    BY <2>6 DEF Complete
  <2>7. CASE Reported
    BY <2>7 DEF Reported
  <2> QED
    BY <1>4, <2>1, <2>2, <2>3, <2>4, <2>5, <2>6, <2>7 DEF Publication
<1>5. CASE Ending
  <2>1. CASE HandOff
    BY <2>1 DEF HandOff
  <2>2. CASE Close
    BY <2>2 DEF Close
  <2>3. CASE Revoke
    BY <2>3 DEF Revoke
  <2>4. CASE RevokeUncertain
    BY <2>4 DEF RevokeUncertain
  <2>5. CASE Flag
    BY <2>5 DEF Flag, End
  <2>6. CASE Unlock
    BY <2>6 DEF Unlock, End
  <2>7. CASE Kill
    BY <2>7 DEF Kill, End
  <2> QED
    BY <1>5, <2>1, <2>2, <2>3, <2>4, <2>5, <2>6, <2>7 DEF Ending
<1>6. CASE \E e \in Event : Deliver(e)
  BY <1>6 DEF Deliver
<1>7. CASE \E hold \in BOOLEAN : Fail(hold)
  BY <1>7 DEF Fail
<1>8. CASE OperatorUnlocks
  BY <1>8 DEF OperatorUnlocks
<1>9. CASE Meddle
  BY <1>9 DEF Meddle
<1>10. CASE Discuss
  BY <1>10 DEF Discuss
<1>11. CASE UNCHANGED vars
  BY <1>11 DEF vars
<1> QED
  BY <1>1, <1>2, <1>3, <1>4, <1>5, <1>6, <1>7, <1>8, <1>9, <1>10, <1>11 DEF Next

(* The invariant holds initially. *)
LEMMA InitInvariant == Init => IInv
<1> SUFFICES ASSUME Init PROVE IInv
  OBVIOUS
<1> USE DEF Init
<1>1. TypeOK
  <2>1. StateTyped
    BY Blank DEF StateTyped
  <2>2. CallTyped
    BY DEF CallTyped, Place, NoBrief, Phase
  <2>3. WorldTyped
    BY LimitAssumption DEF WorldTyped
  <2> QED
    BY <2>1, <2>2, <2>3, TypeParts
<1>2. Agreement /\ Reservation /\ Ownership /\ Charge /\ Remembered
  BY DEF Agreement, Reservation, Ownership, Charge, Remembered, Working, Early, Late, NoState, Fresh
<1>3. Publishing
  BY DEF Publishing, PublishedValidated, NoState, Fresh
<1> QED
  BY <1>1, <1>2, <1>3 DEF IInv

(* ... and always: each part is kept by its own lemma. *)
LEMMA Invariance == Spec => []IInv
<1>1. IInv /\ [Next]_vars => IInv'
  BY TypeStep, AgreementStep, ReservationStep, OwnershipStep, ChargeStep, PublishingStep,
     RememberedStep DEF IInv
<1> QED
  BY InitInvariant, <1>1, PTL DEF Spec

-----------------------------------------------------------------------------
(* Types and limits: a checkpoint that is written can be read back, and the  *)
(* counters never pass the limits of the operation.                          *)
THEOREM TypeCorrect == Spec => []TypeOK
<1>1. IInv => TypeOK
  BY DEF IInv
<1> QED
  BY <1>1, Invariance, PTL

(* Every turn and every final validation that ran was charged before.        *)
THEOREM ConsumptionBounded == Spec => []ConsumptionCharged
<1>1. IInv => ConsumptionCharged
  BY DEF IInv, Charge, ConsumptionCharged
<1> QED
  BY <1>1, Invariance, PTL

(* Only a validated tree is published.                                       *)
THEOREM PublicationSound == Spec => []PublishedValidated
<1>1. IInv => PublishedValidated
  BY DEF IInv, Publishing
<1> QED
  BY <1>1, Invariance, PTL

(* Without a lock no client and no token of an earlier call is in use.       *)
THEOREM LockSound == Spec => []LockGuards
<1>1. IInv => LockGuards
  BY DEF IInv, Ownership, LockGuards, TypeOK
<1> QED
  BY <1>1, Invariance, PTL

(* An event starts work once: the checkpoint remembers every event acted on, *)
(* and only Start makes an authorized call run.                              *)
THEOREM EventsActedOnce == Spec => ActedOnce
<1>1. ASSUME IInv, [Next]_vars, at = "authorized", mem'.status = "running"
      PROVE  event \notin acted
  <2> USE <1>1 DEF IInv
  <2>1. mem = saved /\ mem.status # "running" /\ mem \in State
    BY DEF Agreement, Reservation, TypeOK, Working
  <2>2. mem' # mem
    BY <2>1
  <2>3. mem' # NoState
    BY <2>1, NoState.status = "none" DEF NoState, Fresh
  <2>4. Start
    BY <2>1, <2>2, <2>3 DEF Next, Admission, Work, Validation, Publication, Ending,
       Refuse, Admit, Begin, Mint, Preflight, Inactive, Ignore, OpenSession, Absorb,
       ReserveTurn, Turn, AskHuman, AcceptPlan, CreateBranch, AcceptWork, ReservePreparation,
       Prepared, ReserveVerification, Verify, Pass, Reject, Recheck, Stale, Commit, Committed, Push,
       Complete, Reported, HandOff, Close, Revoke, RevokeUncertain, Flag, Unlock, Kill,
       Deliver, Fail, OperatorUnlocks, Meddle, Discuss,        Goto, Still, Save, Early, Late,
       End, call, vars, State
  <2> QED
    BY <2>1, <2>4 DEF Start, EventComplete, Remembered
<1> QED
  BY <1>1, Invariance, PTL DEF Spec, ActedOnce
-----------------------------------------------------------------------------
Midway == {"branch", "prepare", "preparing", "loop", "verifying", "judging"}

\* What the operation takes as known was shown to the model: while no comment
\* has continued it, its digest once the plan is accepted, and during the
\* planning the brief that the next turn is given.  A branch is pushed on a
\* reading of the issue that was the digest.
Seen ==
  /\ at \in Late => event \in acted
  /\ at \in Midway => mem.phase # "plan"
  /\ at \in {"pushing", "pushed"} => brief.facts = mem.digest
  /\ acted \intersect Trigger = {} =>
       /\ saved.phase # "plan" => saved.digest \subseteq shown
       /\ at \in {"absorb", "plan", "turning"} /\ mem.phase = "plan" =>
            mem.digest \subseteq brief.facts
       /\ at = "answered" /\ mem.phase = "plan" => mem.digest \subseteq shown

(* Seen is kept by every step. *)
LEMMA SeenStep == IInv /\ Seen /\ [Next]_vars => Seen'
<1> SUFFICES ASSUME IInv, Seen, [Next]_vars PROVE Seen'
  OBVIOUS
<1> USE DEF IInv, Seen, Midway, Working, Late, Early, Publishing, Agreement, NoState, Fresh,
   TypeOK, State, Goto, Still, Save, call, world, history
<1>1. CASE Admission
  <2>1. CASE Refuse
    BY <2>1 DEF Refuse, Held
  <2>2. CASE Admit
    BY <2>2 DEF Admit, Held
  <2>3. CASE Begin
    BY <2>3 DEF Begin
  <2>4. CASE Mint
    BY <2>4 DEF Mint
  <2>5. CASE Preflight
    BY <2>5 DEF Preflight
  <2>6. CASE Inactive
    BY <2>6 DEF Inactive
  <2>7. CASE Ignore
    BY <2>7 DEF Ignore, EventComplete
  <2>8. CASE Start
    BY <2>8 DEF Start, Exhausted, EventComplete
  <2> QED
    BY <1>1, <2>1, <2>2, <2>3, <2>4, <2>5, <2>6, <2>7, <2>8 DEF Admission
<1>2. CASE Work
  <2>1. CASE OpenSession
    BY <2>1 DEF OpenSession, Invalidated, Facts
  <2>2. CASE Absorb
    BY <2>2 DEF Absorb, Enter, Facts
  <2>3. CASE ReserveTurn
    BY <2>3 DEF ReserveTurn
  <2>4. CASE Turn
    BY <2>4 DEF Turn
  <2>5. CASE AskHuman
    BY <2>5 DEF AskHuman
  <2>6. CASE AcceptPlan
    BY <2>6 DEF AcceptPlan, Enter
  <2>7. CASE CreateBranch
    BY <2>7 DEF CreateBranch, Enter
  <2>8. CASE AcceptWork
    BY <2>8 DEF AcceptWork
  <2> QED
    BY <1>2, <2>1, <2>2, <2>3, <2>4, <2>5, <2>6, <2>7, <2>8 DEF Work
<1>3. CASE Validation
  <2>1. CASE ReservePreparation
    BY <2>1 DEF ReservePreparation, Charged
  <2>2. CASE Prepared
    BY <2>2 DEF Prepared
  <2>3. CASE ReserveVerification
    BY <2>3 DEF ReserveVerification, Charged
  <2>4. CASE Verify
    BY <2>4 DEF Verify
  <2>5. CASE Pass
    BY <2>5 DEF Pass
  <2>6. CASE Reject
    BY <2>6 DEF Reject
  <2> QED
    BY <1>3, <2>1, <2>2, <2>3, <2>4, <2>5, <2>6 DEF Validation
<1>4. CASE Publication
  <2>1. CASE Recheck
    BY <2>1 DEF Recheck, Facts
  <2>2. CASE Stale
    BY <2>2 DEF Stale, Invalidated, Facts
  <2>3. CASE Commit
    BY <2>3 DEF Commit, Facts
  <2>4. CASE Committed
    BY <2>4 DEF Committed
  <2>5. CASE Push
    BY <2>5 DEF Push, Facts
  <2>6. CASE Complete
    BY <2>6 DEF Complete
  <2>7. CASE Reported
    BY <2>7 DEF Reported
  <2> QED
    BY <1>4, <2>1, <2>2, <2>3, <2>4, <2>5, <2>6, <2>7 DEF Publication
<1>5. CASE Ending
  <2>1. CASE HandOff
    BY <2>1 DEF HandOff
  <2>2. CASE Close
    BY <2>2 DEF Close
  <2>3. CASE Revoke
    BY <2>3 DEF Revoke
  <2>4. CASE RevokeUncertain
    BY <2>4 DEF RevokeUncertain
  <2>5. CASE Flag
    BY <2>5 DEF Flag, End
  <2>6. CASE Unlock
    BY <2>6 DEF Unlock, End
  <2>7. CASE Kill
    BY <2>7 DEF Kill, End
  <2> QED
    BY <1>5, <2>1, <2>2, <2>3, <2>4, <2>5, <2>6, <2>7 DEF Ending
<1>6. CASE \E e \in Event : Deliver(e)
  BY <1>6 DEF Deliver
<1>7. CASE \E hold \in BOOLEAN : Fail(hold)
  BY <1>7 DEF Fail
<1>8. CASE OperatorUnlocks
  BY <1>8 DEF OperatorUnlocks
<1>9. CASE Meddle
  BY <1>9 DEF Meddle
<1>10. CASE Discuss
  BY <1>10 DEF Discuss
<1>11. CASE UNCHANGED vars
  BY <1>11 DEF vars
<1> QED
  BY <1>1, <1>2, <1>3, <1>4, <1>5, <1>6, <1>7, <1>8, <1>9, <1>10, <1>11 DEF Next

(* While no comment continued the operation, everything that the issue said   *)
(* when it was last read before a push was put before the model, whatever    *)
(* was written between the reading and the push.                             *)
THEOREM PublicationSeen == Spec => []PublishedSeen
<1>1. Init => Seen
  BY DEF Init, Seen, Late, Midway, NoState, Fresh
<1>2. IInv /\ Seen => PublishedSeen
  BY DEF IInv, Seen, Agreement, Working, Late, Publishing, PublishedSeen
<1> QED
  BY <1>1, <1>2, SeenStep, Invariance, PTL DEF Spec
=============================================================================
