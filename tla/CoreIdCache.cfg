\* Two threads on a Linux container of 3 cores; sched_getcpu and the P/Invoke
\* may fail.  A refresh rate of 3 keeps every odd and even countdown.  Each
\* thread goes on calling for ever.
SPECIFICATION FairSpec
CONSTANTS
  t1 = t1
  t2 = t2
  Threads <- TwoThreads
  ManagedThreadId <- TwoManagedIds
  Processors <- LinuxProcessors
  Platform = "linux"
  CallThrows = TRUE
  ProcessorCount = 3
  MaxCores = 4
  RefreshRate = 3
INVARIANTS TypeOK AnswersAreIndices
PROPERTIES KeepsPromise CatchesUpSoon CatchesUp
