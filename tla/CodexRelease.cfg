\* Two releases, and two incidents: a run that dies, or something that people do.
SPECIFICATION FairSpec
CONSTANTS
  Checks = {quality, body}
  MaxVersion = 2
  MaxIncidents = 2
INVARIANTS
  CheckedBeforeSmoke
PROPERTIES
  ProposedOnce
  ReviewFollowsSmoke
  ReleaseProposed
CHECK_DEADLOCK FALSE
