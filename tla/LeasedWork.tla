----------------------------- MODULE LeasedWork -----------------------------
(***************************************************************************)
(* What the durable receipt of one webhook delivery promises to the        *)
(* workflow runs that compete for it, without clocks, rows or statements:  *)
(* at most one holder at a time, a bounded number of grants, an outcome    *)
(* that only the holder decides, and no way back from an outcome except    *)
(* forgetting the delivery altogether when its retention has lapsed.       *)
(***************************************************************************)
EXTENDS Integers

CONSTANTS Run,    \* the workflow run attempts
          NoRun,  \* "nobody holds the work"
          Max     \* the grants one delivery may consume

VARIABLES holder,  \* the run whose lease is live, or NoRun
          verdict, \* "open", "done" or "dead"
          tries    \* grants so far

Verdict == {"open", "done", "dead"}

Start == holder = NoRun /\ verdict = "open" /\ tries = 0

Grant(r) ==
  /\ holder = NoRun /\ verdict = "open" /\ tries < Max
  /\ holder' = r
  /\ tries' = tries + 1
  /\ UNCHANGED verdict

\* The holder is lost or too slow: time takes the lease away.
Lapse ==
  /\ holder # NoRun
  /\ holder' = NoRun
  /\ UNCHANGED <<verdict, tries>>

Finish ==
  /\ holder # NoRun
  /\ holder' = NoRun /\ verdict' = "done"
  /\ UNCHANGED tries

GiveUp ==
  /\ holder # NoRun
  /\ holder' = NoRun
  /\ verdict' = IF tries >= Max THEN "dead" ELSE "open"
  /\ UNCHANGED tries

\* The last grant lapsed: nobody may try again.
Abandon ==
  /\ holder = NoRun /\ verdict = "open" /\ tries >= Max
  /\ verdict' = "dead"
  /\ UNCHANGED <<holder, tries>>

Forget ==
  /\ holder = NoRun
  /\ verdict' = "open" /\ tries' = 0
  /\ UNCHANGED holder

Step == (\E r \in Run : Grant(r)) \/ Lapse \/ Finish \/ GiveUp \/ Abandon \/ Forget

Promise == Start /\ [][Step]_<<holder, verdict, tries>>
=============================================================================
