\* A poll and a press, with and without a cloud transport.
SPECIFICATION FairSpec
CONSTANTS
  Pollers = {p1}
  Pressers = {b1}
  Threshold = 2
  RecoveryInterval = 2
  None = None
INVARIANT TypeOK
INVARIANT CutOutNeedsFailures
INVARIANT LocalOnlyNeverCutOut
PROPERTY EveryRequestEnds
PROPERTY ReturnsToLocal
PROPERTY LocalOutageIsInvisible
