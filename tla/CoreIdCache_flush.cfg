\* Does a flush make the next call look again?
SPECIFICATION FairSpec
CONSTANTS
  t1 = t1
  t2 = t2
  Threads <- OneThread
  ManagedThreadId <- OneManagedId
  Processors <- WindowsProcessors
  Platform = "windows"
  CallThrows = FALSE
  ProcessorCount = 130
  MaxCores = 128
  RefreshRate = 100
PROPERTY FlushEmptiesCache
