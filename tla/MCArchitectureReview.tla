------------------------ MODULE MCArchitectureReview ------------------------
(* The instance that TLC checks: two required checks stand for the six, and *)
(* the pull request removes the second of two decisions.                    *)
EXTENDS ArchitectureReview

Decision(id) == [id |-> id, domains |-> {"delivery"}, requires |-> {"deterministic"},
                 supersedes |-> {}]
Primitive(id, adr) == [id |-> id, adrs |-> {adr}, domains |-> {"delivery"},
                       enforcement |-> "deterministic", replaces |-> {}]
Contexts == {"agentic-delivery-governance", "delivery"}

Generated(rev) == [rev EXCEPT !.index = Derived(rev)]
Revision(decisions, primitives, edited) ==
  Generated([decisions |-> decisions, primitives |-> primitives, index |-> {},
             links |-> Ids(decisions), contexts |-> Contexts, edited |-> edited])

MCBase == Revision({Decision("ADR-1"), Decision("ADR-2")},
                   {Primitive("gate", "ADR-1"), Primitive("lease", "ADR-2")}, {})

\* The decision goes and its primitive is replaced.
Removed  == {Decision("ADR-1")}
Replaced == Revision(Removed, {Primitive("gate", "ADR-1"),
                               [Primitive("fence", "ADR-1") EXCEPT !.replaces = {"lease"}]}, {})
\* The decision goes, and: a marker still names it, the index does not tell, or the
\* primitive is lost with no edit of its file.
Dangling == Revision(Removed, MCBase.primitives, {})
Stale    == [Dangling EXCEPT !.index = Replaced.index]
Lost     == Revision(Removed, {Primitive("gate", "ADR-1")}, {})

MCRevisions == [replaced |-> Replaced, dangling |-> Dangling, stale |-> Stale, lost |-> Lost]
=============================================================================
