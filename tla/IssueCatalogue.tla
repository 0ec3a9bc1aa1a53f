--------------------------- MODULE IssueCatalogue ---------------------------
(***************************************************************************)
(* The catalogues and the pure rules over them: config/issue-metadata.yml, *)
(* config/orchestration-policy.yml, newTransition() of                     *)
(* lib/lifecycle-transitions.mjs, readyGate() of lib/issue-routing.mjs and *)
(* selectOrchestration() of lib/orchestration-policy.mjs.  The intake and  *)
(* the delivery controller decide by the same rules.                       *)
(***************************************************************************)
EXTENDS Naturals, Sequences, FiniteSetsExt

AllTypes == {"idea", "research", "feature", "bug", "task", "requirements", "architecture",
             "implementation", "validation"}
DeliveryTypes == {"bug", "feature", "task", "implementation"}

\* config/issue-metadata.yml: where work of a type begins, and the lifecycle.
Initial(type) ==
  CASE type \in {"idea", "task"} -> [stage |-> "intake", ready |-> "not-ready"]
    [] type = "research" -> [stage |-> "discovery", ready |-> "not-ready"]
    [] type \in {"feature", "bug", "requirements"} -> [stage |-> "definition", ready |-> "not-ready"]
    [] type = "architecture" -> [stage |-> "decision", ready |-> "not-ready"]
    [] type = "implementation" -> [stage |-> "planning", ready |-> "ready"]
    [] type = "validation" -> [stage |-> "validation", ready |-> "ready"]
    [] OTHER -> [stage |-> "none", ready |-> "none"]

Transitions ==
  [intake     |-> {"discovery", "definition", "decision", "planning", "done", "parked"},
   discovery  |-> {"intake", "definition", "decision", "planning", "validation", "done", "parked"},
   definition |-> {"intake", "discovery", "decision", "planning", "execution", "done", "parked"},
   decision   |-> {"intake", "discovery", "definition", "planning", "execution", "validation", "done"},
   planning   |-> {"intake", "definition", "decision", "execution", "validation", "done"},
   execution  |-> {"intake", "planning", "validation", "acceptance", "done"},
   validation |-> {"intake", "execution", "acceptance", "done"},
   acceptance |-> {"intake", "execution", "validation", "done"},
   parked     |-> {"intake", "discovery", "definition", "done"},
   done       |-> {"intake", "discovery", "definition", "decision", "parked"}]

AllReadiness == {"not-ready", "needs-info", "ready", "working", "waiting", "awaiting-human", "blocked"}

\* config/orchestration-policy.yml, in the order of choosePattern().  A plan is
\* required valid, unchanged and, for a continuation, with its session.
Pattern(id, types, stages, triggers, needs) ==
  [id |-> id, types |-> types, stages |-> stages, triggers |-> triggers, needs |-> needs]
Anyone == {"issue", "comment", "manual"}
Patterns == <<
  Pattern("implementation-continuation", DeliveryTypes, {"execution"}, {"comment", "manual"}, {"plan"}),
  Pattern("parent-coordination", AllTypes \ {"research"}, {"acceptance"}, Anyone \union {"child"}, {"root"}),
  Pattern("research-only", {"research"}, {"discovery", "definition"}, Anyone, {}),
  Pattern("architecture-decision", {"architecture"}, {"decision", "definition"}, Anyone, {}),
  Pattern("validation-only", {"validation"}, {"validation", "acceptance"}, Anyone, {}),
  Pattern("idea-discovery", {"idea"}, {"intake", "discovery", "definition"}, Anyone, {}),
  Pattern("requirements", {"feature", "bug", "task", "requirements"},
          {"intake", "definition", "discovery"}, Anyone, {}),
  Pattern("implementation-existing-plan", DeliveryTypes, {"execution"}, {"issue", "manual"}, {"plan"}),
  Pattern("implementation-fresh", DeliveryTypes, {"planning"}, Anyone, {})>>

RoutePattern ==
  [refine |-> "idea-discovery", research |-> "research-only", requirements |-> "requirements",
   architecture |-> "architecture-decision", plan |-> "implementation-fresh",
   implement |-> "implementation-existing-plan", resume |-> "implementation-continuation",
   validate |-> "validation-only", coordinate |-> "parent-coordination"]
Routes == DOMAIN RoutePattern \union {"hold"}

\* The profiles that a pattern runs or may run, and what each of them is able to do.
Profiles == {"router", "discovery", "research", "requirements", "architecture-decision", "planner",
             "implementer", "validator", "coordinator", "harness-reviewer"}
Capabilities(profile) ==
  {"read"} \union (IF profile = "implementer" THEN {"write"} ELSE {})
           \union (IF profile = "research" THEN {"web"} ELSE {})
           \union (IF profile \in {"architecture-decision", "implementer", "validator", "harness-reviewer"}
                   THEN {"validate"} ELSE {})
Steps(pattern) ==
  CASE pattern = "idea-discovery" -> {"router", "discovery", "research", "requirements"}
    [] pattern = "research-only" -> {"router", "research", "validator"}
    [] pattern = "requirements" -> {"requirements", "validator"}
    [] pattern = "architecture-decision" -> {"architecture-decision", "validator", "harness-reviewer"}
    [] pattern = "implementation-fresh" -> {"router", "planner", "implementer", "validator", "harness-reviewer"}
    [] pattern \in {"implementation-existing-plan", "implementation-continuation"} ->
         {"implementer", "validator", "harness-reviewer"}
    [] pattern = "validation-only" -> {"validator", "harness-reviewer"}
    [] pattern = "parent-coordination" -> {"coordinator", "requirements", "architecture-decision", "planner"}
Delivering == {"implementation-fresh", "implementation-existing-plan", "implementation-continuation"}
Forbidden(pattern) ==
  (IF pattern \in Delivering THEN {} ELSE {"implementer"})
    \union (IF pattern \in {"research-only", "architecture-decision", "validation-only"} THEN {"planner"} ELSE {})
Required(pattern) ==
  CASE pattern \in Delivering -> {"read", "write", "validate"}
    [] pattern \in {"architecture-decision", "validation-only"} -> {"read", "validate"}
    [] pattern = "research-only" -> {"read"}
    [] OTHER -> {}

\* validateIssueMetadataConfig() and validateOrchestrationPolicy(): what the catalogues
\* are checked for before they are released.
MetadataValid ==
  /\ \A type \in AllTypes : Initial(type).stage \in DOMAIN Transitions /\ Initial(type).ready \in AllReadiness
  /\ \A from \in DOMAIN Transitions : Transitions[from] \subseteq DOMAIN Transitions
PolicyValid ==
  /\ \A i, j \in DOMAIN Patterns : Patterns[i].id = Patterns[j].id => i = j
  /\ \A i \in DOMAIN Patterns :
       LET p == Patterns[i] IN
       /\ p.types # {} /\ p.types \subseteq AllTypes
       /\ p.stages # {} /\ p.stages \subseteq DOMAIN Transitions
       /\ p.triggers # {} /\ p.triggers \subseteq Anyone \union {"child"} /\ p.needs \subseteq {"plan", "root"}
       /\ Steps(p.id) # {} /\ Steps(p.id) \union Forbidden(p.id) \subseteq Profiles
       /\ Steps(p.id) \intersect Forbidden(p.id) = {}
       /\ Required(p.id) \subseteq UNION {Capabilities(profile) : profile \in Steps(p.id)}
       /\ p.id \in {"research-only", "architecture-decision", "validation-only"} => "implementer" \notin Steps(p.id)
ASSUME CataloguesAssumption == MetadataValid /\ PolicyValid

-----------------------------------------------------------------------------
\* newTransition(): the ADR gate guards planning and execution, except of decisions.
Gated(type, stage, adr) == stage \in {"planning", "execution"} /\ type # "architecture" /\ adr
Legal(from, to, type, adr) ==
  to \in Transitions[from] /\ (to = "parked" => type = "idea") /\ ~Gated(type, to, adr)

\* readyGate(): may this issue be planned?
ReadyGate(type, stage, ready, adr, form) ==
  stage = "planning" /\ ready = "ready" /\ type \in DeliveryTypes /\ form /\ ~adr

\* selectOrchestration(): the first pattern that fits, unless the plan is stale.
Eligible(p, type, stage, trigger, plan, root) ==
  /\ type \in p.types /\ stage \in p.stages /\ trigger \in p.triggers
  /\ ("plan" \in p.needs => plan = "valid") /\ ("root" \in p.needs => root)
Stale(stage, plan) == plan = "stale" /\ stage = "execution"
Selected(type, stage, trigger, plan, root) ==
  LET fits == {i \in DOMAIN Patterns : Eligible(Patterns[i], type, stage, trigger, plan, root)}
  IN  IF Stale(stage, plan) \/ fits = {} THEN "none" ELSE Patterns[Min(fits)].id

=============================================================================
