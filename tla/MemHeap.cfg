SPECIFICATION Spec
CONSTANTS
  t1 = t1
  t2 = t2
  h1 = h1
  h2 = h2
  p1 = p1
  p2 = p2
  None = None
  Threads <- MCThreads
  Heaps <- TwoHeaps
  Blocks <- MCBlocks
  Sizes <- MCSizes
  Counts <- MCCounts
  Aligns <- MCAligns
  SizeMax = 3
INVARIANTS TypeOK OneOwner HeldIsLive AsPromised KnownHeap
PROPERTY ImplementsBlocks
SYMMETRY Interchangeable
