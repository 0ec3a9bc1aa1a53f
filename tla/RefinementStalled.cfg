\* Two work items and nothing that disturbs their decomposition.
SPECIFICATION Spec
CONSTANTS
  k1 = k1
  k2 = k2
  Key = {k1, k2}
  MaxAttempts = 1
  MaxComments = 0
  SearchDepth = 2
  MaxOpened = 0
  MaxFaults = 0
CHECK_DEADLOCK FALSE
PROPERTIES DecompositionCoordinates
