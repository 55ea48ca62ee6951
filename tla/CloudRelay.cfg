\* A poll and a press at once.
SPECIFICATION Spec
CONSTANTS
  Callers = {c1, c2}
  MaxSn = 2
  MaxBacklog = 1
  Undelivered = Undelivered
  Noise = Noise
  Subscribe = Subscribe
SYMMETRY CallerSymmetry
PROPERTY ImplementsTransport
INVARIANT UndeliveredMeansNotReceived
INVARIANT AnswerHasARoute
