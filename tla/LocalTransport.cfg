\* A poll and a press; three calls; room for a reply and a report.
SPECIFICATION FairSpec
CONSTANTS
  Callers = {c1, c2}
  MaxSn = 3
  MaxBacklog = 2
  Report = Report
  None = None
INVARIANT FrameReceivedAtMostOnce
PROPERTY ImplementsTransport
INVARIANT HeldConnectionIsClean
INVARIANT ConnectionIsReused
PROPERTY AnswersAreNotLost
PROPERTY AnswersAreNotCrossed
PROPERTY EveryCallEnds
