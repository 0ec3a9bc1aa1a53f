\* Three calls, one comment of a person, one fault or edit, and a search of the two newest
\* issues or pull requests while others open two.
SPECIFICATION Spec
CONSTANTS
  k1 = k1
  k2 = k2
  Key = {k1, k2}
  MaxAttempts = 3
  MaxComments = 1
  SearchDepth = 2
  MaxOpened = 3
  MaxFaults = 1
SYMMETRY SymmetricKeys
CHECK_DEADLOCK FALSE
INVARIANTS AuditKeptInOrder OneChildPerKey
PROPERTIES AnswersFollowQuestion
