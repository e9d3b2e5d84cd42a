\* A call of a collected delegate ends the process, so the system may stop.
CONSTANTS
  t1 = t1
  t2 = t2
  free = free
  log = log
  print = print
  Null = Null
  Threads = {t1, t2}
  Delegates <- MCDelegates
  Kind <- MCKind
  Static <- MCStatic
SYMMETRY MCSymmetry
SPECIFICATION Spec
INVARIANTS TypeOK OnlyGivenDangle OnlyErrorMismatches
CHECK_DEADLOCK FALSE
