SPECIFICATION Spec
CONSTANTS
  d1 = d1
  d2 = d2
  NoEvent = NoEvent
  Dispatch <- TwoDispatches
  Trigger <- OneComment
  Installs = TRUE
  Crashes = TRUE
  MaxAttempts = 3
  MaxTurns = 2
  MaxValidations = 2
  MaxTree = 2
  MaxFacts = 3
SYMMETRY Sym
INVARIANTS
  TypeOK
  ConsumptionCharged
  PublishedValidated
  LockGuards
  PublishedSeen
PROPERTY ActedOnce
