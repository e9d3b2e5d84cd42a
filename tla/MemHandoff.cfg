\* The producer and the consumer of the test, 100 blocks.  The threads end.
SPECIFICATION FairSpec
CONSTANTS
  p1 = p1
  p2 = p2
  p3 = p3
  Null = Null
  Addresses <- MCAddresses
  Count = 100
INVARIANTS TypeOK OneInFlight FreesOwned CleanEnd NeverStuck
PROPERTIES EveryStepCounts Ends
CHECK_DEADLOCK FALSE
