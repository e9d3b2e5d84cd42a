\* Two threads share two cases and begin two runs each.
SPECIFICATION Spec
CONSTANTS
  t1 = t1
  t2 = t2
  c1 = c1
  c2 = c2
  Threads <- MCThreads
  Cases <- MCCases
  MaxRuns = 2
  None = None
SYMMETRY CaseSymmetry
INVARIANTS TypeOK WatchExclusive MeasuresOwnRun EmptyListIsBeingFilled
CHECK_DEADLOCK FALSE
