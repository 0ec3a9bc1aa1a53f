\* One message and one reading of the quota while the turn runs.
SPECIFICATION FairSpec
CONSTANTS
  MaxItems = 1
  MaxPolls = 1
  MaxWire = 2
INVARIANTS
  OutcomeOfOwnTurn
  PublishedFirst
  StopPrevails
  LockOutlivesServer
PROPERTIES
  TurnEnds
