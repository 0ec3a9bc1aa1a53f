\* Two overlapping runs on one issue.
SPECIFICATION Spec
CONSTANTS
  Slots = {r1, r2}
  Types = {"task"}
  Stages = {"intake", "planning", "execution"}
  Readiness = {"not-ready", "ready", "needs-info", "working"}
  MaxIncidents = 2
SYMMETRY SymmetricRuns
CHECK_DEADLOCK FALSE
PROPERTIES WritesAsDecided OnlyWritersAct WorkGated
