\* A poll and a press: the stamp is cleared between its two reads.
SPECIFICATION Spec
CONSTANTS
  Pollers = {p1}
  Pressers = {b1}
  Threshold = 2
  RecoveryInterval = 2
  None = None
INVARIANT OnlyTransportErrors
