--------------------------- MODULE CodexAdmission ---------------------------
(***************************************************************************)
(* What the client of scripts/lib/codex-client.mjs accepts of a Codex      *)
(* app-server: the models and the configuration before a session is        *)
(* opened, verifyModels and checkConfiguration, and the allowance before   *)
(* and during a turn, quotaBoundary.  Execution is to stay on the          *)
(* subscription and to keep a reserve to finish with, and an allowance     *)
(* that cannot be read is taken to be used up.                             *)
(*                                                                         *)
(* A catalogue is a set of models with the efforts they advertise, a       *)
(* reading the set of its buckets, the legacy bucket among them.           *)
(***************************************************************************)
EXTENDS Naturals

-----------------------------------------------------------------------------
\* Models and configuration.

\* MODELS: the pairs of model and effort that some phase is given.
RequiredPairs == {<<"luna", "low">>, <<"luna", "medium">>, <<"luna", "max">>, <<"sol", "high">>}
\* Each pair must be offered; there is no fallback.
ModelsOffered(catalogue) ==
  \A pair \in RequiredPairs :
    \E entry \in catalogue : entry.model = pair[1] /\ pair[2] \in entry.efforts

\* No setting that redirects the session or runs code in it, no provider but OpenAI, and
\* subagents disabled in both of their settings.
ConfigurationSafe(config) ==
  /\ config.unsafe = {} /\ config.endpoint \in {"none", "chatgpt"}
  /\ config.provider \in {"none", "openai"} /\ config.providers = {}
  /\ config.agents = "off" /\ config.subagents = "off"

-----------------------------------------------------------------------------
\* The allowance; a flag of the credits is "no", "yes" or "untold".

Reserve   == 98
FiveHours == 300

\* A bucket needs a primary window: one of another shape counts as none.  A secondary of
\* another shape is a window that is not valid.
NoWindow == [used |-> 101, minutes |-> 0, running |-> FALSE]
Windows(reading) ==
  {b.primary : b \in reading} \union ({b.secondary : b \in reading} \ {NoWindow})
Valid(w) == w.used \in 0..100 /\ w.minutes > 0 /\ w.running

\* The reasons to stop, in the order in which one of them is reported.
InvalidBucket(reading)  == \E b \in reading : b.primary = NoWindow
SpendsCredits(reading)  == \E b \in reading : b.credits # "no" \/ b.unlimited # "no"
InvalidWindow(reading)  ==
  \/ \A w \in Windows(reading) : w.minutes # FiveHours
  \/ \E w \in Windows(reading) : ~Valid(w)
ReserveReached(reading) == \E w \in Windows(reading) : Valid(w) /\ w.used >= Reserve
ServerBlocks(reading)   == \E b \in reading : b.limited \/ b.spent

Verdict(reading) ==
  IF \/ InvalidBucket(reading) \/ SpendsCredits(reading) \/ InvalidWindow(reading)
     \/ ReserveReached(reading) \/ ServerBlocks(reading)
  THEN "stop" ELSE "ok"

-----------------------------------------------------------------------------
\* What an app-server may have: all models, or not in every effort; a plain configuration,
\* one with a hook or one that says nothing of subagents; and for its allowance that of a
\* subscription, one nearly used up in its second window, one with credits, one cut short by the
\* server, and none.
Catalogues ==
  LET luna == [model |-> "luna", efforts |-> {"low", "medium", "max"}]
      sol  == [model |-> "sol", efforts |-> {"medium", "high"}]
  IN  {{luna, sol}, {luna, [sol EXCEPT !.efforts = {"medium"}]}}
Configurations ==
  LET plain == [unsafe |-> {}, endpoint |-> "none", provider |-> "none", providers |-> {},
                agents |-> "off", subagents |-> "off"]
  IN  {plain, [plain EXCEPT !.unsafe = {"hooks"}], [plain EXCEPT !.subagents = "unset"]}
Hours(used) == [used |-> used, minutes |-> FiveHours, running |-> TRUE]
Week(used)  == [used |-> used, minutes |-> 10080, running |-> TRUE]
Bucket(used, week) == [primary |-> Hours(used), secondary |-> Week(week), credits |-> "no",
                       unlimited |-> "no", limited |-> FALSE, spent |-> FALSE]
Readings == {{Bucket(97, 97)}, {Bucket(0, Reserve)}, {[Bucket(0, 0) EXCEPT !.credits = "yes"]},
             {Bucket(0, 0), [Bucket(0, 0) EXCEPT !.limited = TRUE]}, {}}
=============================================================================
