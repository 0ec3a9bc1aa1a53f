SPECIFICATION Spec
CONSTANTS
  Request = {q1, q2, q3}
  NoRequest = NoRequest
  Window = 2
  Lease = 1
  MaxTime = 4
SYMMETRY Sym
INVARIANTS TypeOK ConfirmedWindowApart SuccessMeansDispatched
CHECK_DEADLOCK FALSE
