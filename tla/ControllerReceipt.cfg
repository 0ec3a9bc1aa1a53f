SPECIFICATION Spec
CONSTANTS
  r1 = r1
  r2 = r2
  r3 = r3
  s1 = s1
  s2 = s2
  NoRun = NoRun
  NoSource = NoSource
  Run <- MCRun
  Workflow <- MCWorkflow
  Source = {s1, s2}
  SourceOf <- MovedPin
  MaxAttempts = 2
  Lease = 2
  Retention = 3
  BaseDelay = 1
  MaxDelay = 2
  MaxTime = 5
INVARIANTS TypeOK MutualExclusion CompletedOnce FinalizerSettlesUnderItsPin
PROPERTIES SettledFinal ImplementsLeasedWork
CHECK_DEADLOCK FALSE
