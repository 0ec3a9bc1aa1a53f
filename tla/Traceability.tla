---------------------------- MODULE Traceability ----------------------------
(***************************************************************************)
(* The decision records of a revision and the primitives that implement    *)
(* them: buildTraceability of scripts/lib/adr-traceability.mjs, and the    *)
(* rules that deterministicReview of scripts/lib/architecture-review.mjs   *)
(* applies to the index which that function generates.                     *)
(*                                                                         *)
(* A revision has the fields                                               *)
(*   decisions   [id, domains, requires, supersedes]                       *)
(*   primitives  [id, adrs, domains, enforcement, replaces], the markers   *)
(*   index       what docs/architecture/adr-primitive-index.json says      *)
(*   links       the decisions linked from docs/decisions/README.md        *)
(*   contexts    the bounded contexts of docs/architecture/harness-review  *)
(*   edited      the primitives whose file differs from the base           *)
(* Paths, anchors, kinds and the rows of the index by domain follow from   *)
(* these and are left out.                                                 *)
(***************************************************************************)

Enforcement == {"deterministic", "instructional", "semantic"}

Ids(rows) == {r.id : r \in rows}
Implementing(primitives, decision) == {p \in primitives : decision \in p.adrs}

\* collectPrimitivesFromSources() and collectAdrsFromSources() report no error.
PrimitiveValid(p) == p.enforcement \in Enforcement /\ p.adrs # {} /\ p.domains # {}
DecisionValid(d) == d.domains # {} /\ d.requires # {} /\ d.requires \subseteq Enforcement
PrimitivesCollected(rev) ==
  /\ \A p \in rev.primitives : PrimitiveValid(p)
  /\ \A p, q \in rev.primitives : p.id = q.id => p = q
DecisionsCollected(rev) == \A d \in rev.decisions : DecisionValid(d)

\* buildTraceability()
Derived(rev) ==
  [decisions  |-> {[id |-> d.id, domains |-> d.domains, requires |-> d.requires,
                    supersedes |-> d.supersedes,
                    primitives |-> Ids(Implementing(rev.primitives, d.id))] : d \in rev.decisions},
   primitives |-> rev.primitives]

-----------------------------------------------------------------------------
\* The rules, by the name of the check in the review.

\* traceability-index-equality
IndexEqual(rev) ==
  PrimitivesCollected(rev) /\ DecisionsCollected(rev) /\ rev.index = Derived(rev)

\* adr-map-coverage
Covered(rev) ==
  /\ Ids(rev.decisions) \subseteq Ids(rev.index.decisions)
  /\ \A d \in rev.index.decisions : d.primitives # {}

\* primitive-reference-integrity
Resolved(rev) == \A p \in rev.index.primitives : p.adrs \subseteq Ids(rev.index.decisions)

\* adr-domain-compatibility
DomainsFit(rev) ==
  \A p \in rev.index.primitives :
    /\ p.domains \subseteq rev.contexts
    /\ \A d \in rev.index.decisions : d.id \in p.adrs => p.domains \intersect d.domains # {}

\* adr-required-enforcement
Enforced(rev) ==
  \A d \in rev.index.decisions : \A required \in d.requires :
    \E p \in Implementing(rev.index.primitives, d.id) : p.enforcement = required

\* adr-primitive-stale-entries and adr-supersession
NoneStale(rev) == Ids(rev.index.decisions) \subseteq Ids(rev.decisions)
NoneSuperseded(rev) ==
  \A d \in rev.index.decisions : d.supersedes \intersect Ids(rev.decisions) = {}

\* adr-removal-outcomes and adr-removal: nothing refers to a removed decision, and what
\* implemented it is retained, replaced, or deleted by an edit of its own file.
RemovalSettled(base, rev) ==
  LET removed == Ids(base.decisions) \ Ids(rev.decisions)
      before  == UNION {Ids(Implementing(base.index.primitives, d)) : d \in removed}
      now     == rev.index.primitives
  IN  /\ \A p \in now : p.adrs \intersect removed = {}
      /\ \A id \in before :
           id \in Ids(now) \/ id \in rev.edited \/ \E p \in now : id \in p.replaces

\* adr-index-links and bounded-context-map
Linked(rev) == Ids(rev.decisions) \subseteq rev.links
ContextMapped(rev) == "agentic-delivery-governance" \in rev.contexts

RulesPass(base, rev) ==
  /\ IndexEqual(rev) /\ Covered(rev) /\ Resolved(rev) /\ DomainsFit(rev) /\ Enforced(rev)
  /\ NoneStale(rev) /\ NoneSuperseded(rev) /\ RemovalSettled(base, rev)
  /\ Linked(rev) /\ ContextMapped(rev)

-----------------------------------------------------------------------------
\* What the rules are for, said of the records and the markers and not of the index:
\* every decision is implemented as it requires, every marker names a decision in
\* force, and no primitive of a removed decision is lost by accident.
Traceable(base, rev) ==
  /\ \A d \in rev.decisions :
       /\ d.supersedes \intersect Ids(rev.decisions) = {}
       /\ d.requires \subseteq {p.enforcement : p \in Implementing(rev.primitives, d.id)}
  /\ UNION {p.adrs : p \in rev.primitives} \subseteq Ids(rev.decisions)
  /\ \A p \in base.primitives :
       p.adrs \subseteq Ids(rev.decisions) \/ p.id \in Ids(rev.primitives) \union rev.edited
                                 \union UNION {q.replaces : q \in rev.primitives}
=============================================================================
