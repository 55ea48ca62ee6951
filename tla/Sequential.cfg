\* One job at a time.
SPECIFICATION Spec
CONSTANTS
  Poll = p1
  Pollers = {p1}
  Pressers = {}
  Threshold = 3
  RecoveryInterval = 5
  None = None
PROPERTY ImplementsBreaker
