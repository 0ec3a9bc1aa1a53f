\* Three incidents: pushes, edits, kills, failures, repeated checks.  A closed pull
\* request and used-up incidents leave nothing to do.
SPECIFICATION FairSpec
CONSTANTS
  Checks = {quality, body}
  Base <- MCBase
  Revisions <- MCRevisions
  MaxIncidents = 3
CHECK_DEADLOCK FALSE
INVARIANTS
  OneVerdict
  OneThread
PROPERTIES
  TurnOnlyAfterGate
  ReviewConcludes
